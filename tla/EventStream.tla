----------------------------- MODULE EventStream -----------------------------
(***************************************************************************)
(* The event stream between a page and the daemon, and the directory       *)
(* watches it carries: RemoteHostSystem and RemoteHostWatcher              *)
(* (src/core/host/remote-host-system.ts) at one end, handleEvents and the  *)
(* watcher RPCs (internal/server/server.go) with the watcher hub           *)
(* (internal/watcher/watcher.go) at the other.                             *)
(*                                                                         *)
(* A stream is one HTTP response of /api/events. An EventSource that loses *)
(* its stream asks for another by itself and says so only in readyState;   *)
(* the page replaces an EventSource only when it has given up. Every       *)
(* stream of a page names the same clientId. What is sent on a stream the  *)
(* network has broken is lost, and each end learns of it in its own time.  *)
(* The daemon registers the streams in the order they are asked for in, as *)
(* an EventSource asks again only once it has lost the one before; what    *)
(* was lost before it was registered leaves no trace.                      *)
(*                                                                         *)
(* A request whose promise resolves at once continues before any event, so *)
(* awaiting a resolved `ready` is no step of its own. An RPC's arguments   *)
(* are valid; a changed build reloads the page, which ends the behaviour.  *)
(***************************************************************************)
EXTENDS Naturals, Sequences, FiniteSets

CONSTANTS Dirs,            \* the directories the page watches, each once
          MaxStreams,      \* bound on the HTTP responses of /api/events
          MaxSubs,         \* bound on the hub's subscriptions
          MaxAttempts      \* maxReconnectAttempts

ASSUME StreamAssumption == /\ MaxStreams \in Nat /\ MaxSubs \in Nat
                           /\ MaxAttempts \in Nat

Streams == 1..MaxStreams
Ids == 1..MaxSubs

\* Who sends a watcher.watch: <<0, d>> is watch(d), <<s, d>> what follows the onopen of
\* stream s, which watches d again.
Callers == (0..MaxStreams) \X Dirs

VARIABLES
  \* the page
  es,              \* _eventSource: "none", or its readyState
  stream,          \* the stream the daemon has registered for it, 0 if none
  attempts,        \* _reconnectAttempts
  timer,           \* _reconnectTimer is set (at first: connect() is due)
  ready,           \* _readyPromise
  disposed,        \* _isDisposed
  watch,           \* each watch() call
  listed,          \* directories in _activeSubscriptions
  name,            \* sub.subscriptionId
  task,            \* what follows each stream's onopen
  todo,            \* what is left of _reconnectWatchers' snapshot: <<directory, id>>
  unwatches,       \* ids of the watcher.unwatch requests waiting for ready
  \* the RPCs on their way
  rpc, rpcId,      \* each caller's watcher.watch, and the id it is answered with
  sentOn,          \* history: the stream each caller's RPC was sent on
  askedOn,         \* history: the stream on which name[d] was asked for
  unwatching,      \* ids of the watcher.unwatch on their way
  \* the network
  broken,          \* streams the network has lost
  line,            \* subscriptions with a watcher.change in flight on each stream
  \* the daemon
  registered,      \* sseClients[clientID], 0 if there is none
  handler,         \* handleEvents of each stream
  tracked,         \* the subscriptions of each stream's sseClient
  hub,             \* ids in Hub.subscriptions
  dirOf,           \* the directory of each id given out
  pend,            \* ids with pendingEvents
  owed             \* history: <<id, stream>> when a change of d was seen that its
                   \* callback was not told of

connection == <<es, stream, attempts, timer>>
subs == <<watch, listed, name>>
tasks == <<task, todo>>
calls == <<rpc, rpcId, sentOn, askedOn>>
clients == <<registered, handler, tracked>>
watcherHub == <<hub, dirOf, pend, owed>>
vars == <<connection, ready, disposed, subs, tasks, unwatches, calls, unwatching,
          broken, line, clients, watcherHub>>

Init ==
    /\ es = "none" /\ stream = 0 /\ attempts = 0 /\ timer = TRUE
    /\ ready = "pending" /\ disposed = FALSE
    /\ watch = [d \in Dirs |-> "idle"] /\ listed = {} /\ name = [d \in Dirs |-> 0]
    /\ task = [s \in Streams |-> "none"] /\ todo = [s \in Streams |-> {}]
    /\ unwatches = {} /\ unwatching = {}
    /\ rpc = [c \in Callers |-> "none"] /\ rpcId = [c \in Callers |-> 0]
    /\ sentOn = [c \in Callers |-> 0] /\ askedOn = [d \in Dirs |-> 0]
    /\ broken = {} /\ line = [s \in Streams |-> {}]
    /\ registered = 0 /\ handler = [s \in Streams |-> "none"]
    /\ tracked = [s \in Streams |-> {}]
    /\ hub = {} /\ dirOf = <<>> /\ pend = {} /\ owed = [d \in Dirs |-> <<0, 0>>]

-----------------------------------------------------------------------------
(* The page: the promise `ready`, and who waits for it. *)

Connected == es = "open"

\* The watcher.watch of each of `callers` is sent.
Send(callers) ==
    /\ rpc' = [c \in Callers |-> IF c \in callers THEN "sent" ELSE rpc[c]]
    /\ sentOn' = [c \in Callers |-> IF c \in callers THEN stream ELSE sentOn[c]]

\* _readyResolve: those who wait send their request, or are told it cannot be sent.
ResolveReady ==
    IF ready # "pending" THEN UNCHANGED <<ready, watch, rpc, sentOn, unwatches, unwatching>>
    ELSE LET waiting == {d \in Dirs : watch[d] = "parked"} IN
         /\ ready' = "resolved"
         /\ watch' = [d \in Dirs |-> IF d \notin waiting THEN watch[d]
                                     ELSE IF Connected THEN "calling" ELSE "failed"]
         /\ Send(IF Connected THEN {0} \X waiting ELSE {})
         /\ unwatches' = {}
         /\ unwatching' = IF Connected THEN unwatching \cup unwatches ELSE unwatching

\* _readyReject, and the rejected promise that takes its place.
RejectReady ==
    /\ ready' = "rejected"
    /\ watch' = [d \in Dirs |-> IF watch[d] = "parked" THEN "failed" ELSE watch[d]]
    /\ unwatches' = {}

\* _createReadyPromise: who waits for the promise it replaces waits for good.
CreateReadyPromise ==
    /\ ready' = "pending"
    /\ watch' = [d \in Dirs |-> IF watch[d] = "parked" THEN "abandoned" ELSE watch[d]]
    /\ unwatches' = {}

-----------------------------------------------------------------------------
(* The page and the daemon: a stream is made, broken, and given up. *)

\* connect(), by the constructor or the timer.
Connect ==
    /\ timer /\ ~disposed
    /\ timer' = FALSE /\ es' = "connecting" /\ stream' = 0
    /\ UNCHANGED <<attempts, ready, disposed, subs, tasks, unwatches, calls, unwatching,
                   broken, line, clients, watcherHub>>

\* Mutant: and nobody is told.
ConnectThrowsSilently ==
    /\ timer /\ ~disposed
    /\ timer' = FALSE
    /\ UNCHANGED <<es, stream, attempts, ready, unwatches, disposed, subs, tasks, calls,
                   unwatching, broken, line, clients, watcherHub>>

\* The factory is missing, or throws: nothing tries again.
ConnectThrows ==
    /\ timer /\ ~disposed
    /\ timer' = FALSE
    /\ RejectReady
    /\ UNCHANGED <<es, stream, attempts, disposed, listed, name, tasks, calls, unwatching,
                   broken, line, clients, watcherHub>>

\* The daemon accepts the request and registers its client under the clientId,
\* whoever held it.
Registers(s) ==
    /\ es = "connecting" /\ stream = 0
    /\ handler[s] = "none" /\ \A r \in Streams : r < s => handler[r] # "none"
    /\ handler' = [handler EXCEPT ![s] = "serving"]
    /\ registered' = s /\ stream' = s
    /\ UNCHANGED <<es, attempts, timer, ready, disposed, subs, tasks, unwatches, calls,
                   unwatching, broken, line, tracked, watcherHub>>

\* The page is told (onopen), and asks for system.info.
Opens(s) ==
    /\ es = "connecting" /\ stream = s /\ s \notin broken
    /\ es' = "open" /\ attempts' = 0
    /\ task' = [task EXCEPT ![s] = "info"]
    /\ UNCHANGED <<stream, timer, ready, disposed, subs, todo, unwatches, calls, unwatching,
                   broken, line, clients, watcherHub>>

\* The network loses a stream, with what it carries.
Breaks(s) ==
    /\ handler[s] # "none" /\ s \notin broken
    /\ broken' = broken \cup {s} /\ line' = [line EXCEPT ![s] = {}]
    /\ UNCHANGED <<connection, ready, disposed, subs, tasks, unwatches, calls, unwatching,
                   clients, watcherHub>>

\* The EventSource notices and asks again: the error event finds it CONNECTING.
AsksAgain ==
    /\ es # "none" /\ stream \in broken
    /\ es' = "connecting" /\ stream' = 0
    /\ UNCHANGED <<attempts, timer, ready, disposed, subs, tasks, unwatches, calls, unwatching,
                   broken, line, clients, watcherHub>>

\* It is refused: the error event finds it CLOSED, and _handleDisconnect follows.
GivesUp ==
    /\ es = "connecting" /\ stream = 0
    /\ es' = "none"
    /\ IF attempts >= MaxAttempts
       THEN RejectReady /\ UNCHANGED <<attempts, timer>>
       ELSE CreateReadyPromise /\ attempts' = attempts + 1 /\ timer' = TRUE
    /\ UNCHANGED <<stream, disposed, listed, name, tasks, calls, unwatching, broken, line,
                   clients, watcherHub>>

\* handleEvents returns, its request cancelled or its ping not written: the entry of
\* the clientId is deleted, whoever holds it now.
HandlerReturns(s) ==
    /\ handler[s] = "serving" /\ s \in broken
    /\ handler' = [handler EXCEPT ![s] = "leaving"]
    /\ registered' = 0
    /\ UNCHANGED <<connection, ready, disposed, subs, tasks, unwatches, calls, unwatching,
                   broken, line, tracked, watcherHub>>

\* cleanup(): what the client was tracked with is unwatched.
Cleanup(s) ==
    /\ handler[s] = "leaving"
    /\ handler' = [handler EXCEPT ![s] = "gone"]
    /\ hub' = hub \ tracked[s] /\ pend' = pend \ tracked[s]
    /\ tracked' = [tracked EXCEPT ![s] = {}]
    /\ UNCHANGED <<connection, ready, disposed, subs, tasks, unwatches, calls, unwatching,
                   broken, line, registered, dirOf, owed>>

-----------------------------------------------------------------------------
(* The page: what follows onopen. *)

\* system.info is answered: the roots are allowed again, the watches are set up
\* again in the background, and the requests that wait may go.
HandshakeDone(s) ==
    /\ task[s] = "info" /\ ~disposed
    /\ task' = [task EXCEPT ![s] = "rewatch"]
    /\ todo' = [todo EXCEPT ![s] = {<<d, name[d]>> : d \in listed}]
    /\ ResolveReady
    /\ UNCHANGED <<connection, disposed, listed, name, rpcId, askedOn, broken, line, clients,
                   watcherHub>>

\* Mutant: only those to come do.
HandshakeFailsSilently(s) ==
    /\ task[s] = "info" /\ ~disposed
    /\ task' = [task EXCEPT ![s] = "done"]
    /\ UNCHANGED <<connection, ready, unwatches, disposed, subs, todo, calls, unwatching,
                   broken, line, clients, watcherHub>>

\* It is not: the requests that wait, and those to come, fail.
HandshakeFails(s) ==
    /\ task[s] = "info" /\ ~disposed
    /\ task' = [task EXCEPT ![s] = "done"]
    /\ RejectReady
    /\ UNCHANGED <<connection, disposed, listed, name, todo, calls, unwatching, broken, line,
                   clients, watcherHub>>

\* A subscription that cannot be set up again is forgotten, and its callback told.
Forget(s, entry) ==
    /\ todo' = [todo EXCEPT ![s] = @ \ {entry}]
    /\ listed' = IF entry[1] \in listed /\ name[entry[1]] = entry[2]
                 THEN listed \ {entry[1]} ELSE listed

\* _reconnectWatchers: it is at no entry of its snapshot, or at this one.
BetweenEntries(s) ==
    task[s] = "rewatch" /\ \A entry \in todo[s] : rpc[<<s, entry[1]>>] = "none"

Rewatch(s) ==
    /\ BetweenEntries(s) /\ Connected
    /\ \E entry \in todo[s] : Send({<<s, entry[1]>>})
    /\ UNCHANGED <<connection, ready, disposed, subs, tasks, unwatches, rpcId, askedOn,
                   unwatching, broken, line, clients, watcherHub>>

RewatchUnsendable(s) ==
    /\ BetweenEntries(s) /\ ~Connected
    /\ \E entry \in todo[s] : Forget(s, entry)
    /\ UNCHANGED <<connection, ready, disposed, watch, name, task, unwatches, calls,
                   unwatching, broken, line, clients, watcherHub>>

\* The entry's watcher.watch is answered.
RewatchAnswered(s, entry) ==
    /\ entry \in todo[s] /\ rpc[<<s, entry[1]>>] = "answered"
    /\ todo' = [todo EXCEPT ![s] = @ \ {entry}]
    /\ rpc' = [rpc EXCEPT ![<<s, entry[1]>>] = "none"]
    /\ UNCHANGED <<connection, ready, disposed, watch, task, unwatches, rpcId, sentOn, broken,
                   line, clients, watcherHub>>

\* The subscription takes the new id, unless the old one has gone.
Renames(s, entry) ==
    LET d == entry[1]  new == rpcId[<<s, d>>] IN
    IF d \in listed /\ name[d] = entry[2]
    THEN /\ name' = [name EXCEPT ![d] = new] /\ listed' = listed \cup {d}
         /\ askedOn' = [askedOn EXCEPT ![d] = sentOn[<<s, d>>]]
         /\ UNCHANGED unwatching
    ELSE /\ unwatching' = unwatching \cup {new}
         /\ UNCHANGED <<name, listed, askedOn>>

\* Mutant: the answer is filed under the old id.
RewatchedUnderOldId(s) ==
    \E entry \in todo[s] :
        /\ RewatchAnswered(s, entry)
        /\ askedOn' = [askedOn EXCEPT ![entry[1]] = sentOn[<<s, entry[1]>>]]
        /\ UNCHANGED <<name, listed, unwatching>>

Rewatched(s) ==
    \E entry \in todo[s] : RewatchAnswered(s, entry) /\ Renames(s, entry)

\* Mutant: and nobody catches it, so that it ends the loop.
RewatchFailsUncaught(s) ==
    /\ \E entry \in todo[s] : rpc[<<s, entry[1]>>] # "none"
    /\ task' = [task EXCEPT ![s] = "done"]
    /\ UNCHANGED <<connection, ready, disposed, subs, todo, unwatches, calls, unwatching,
                   broken, line, clients, watcherHub>>

\* It is not: refused, lost, or out of time. The daemon goes on with it all the same.
RewatchFails(s) ==
    /\ \E entry \in todo[s] : rpc[<<s, entry[1]>>] # "none" /\ Forget(s, entry)
    /\ UNCHANGED <<connection, ready, disposed, watch, name, task, unwatches, calls,
                   unwatching, broken, line, clients, watcherHub>>

-----------------------------------------------------------------------------
(* The page: watching a directory, and ending it. *)

\* watch() sends its request, at once or once ready.
Watch(d) ==
    /\ watch[d] = "idle" /\ ~disposed
    /\ watch' = [watch EXCEPT ![d] = IF ready = "pending" THEN "parked"
                                     ELSE IF ready = "resolved" /\ Connected THEN "calling"
                                     ELSE "failed"]
    /\ Send(IF watch'[d] = "calling" THEN {<<0, d>>} ELSE {})
    /\ UNCHANGED <<connection, ready, disposed, listed, name, tasks, unwatches, rpcId, askedOn,
                   unwatching, broken, line, clients, watcherHub>>

\* Its answer registers the subscription.
Watched(d) ==
    /\ watch[d] = "calling" /\ rpc[<<0, d>>] = "answered"
    /\ watch' = [watch EXCEPT ![d] = "active"]
    /\ listed' = listed \cup {d}
    /\ name' = [name EXCEPT ![d] = rpcId[<<0, d>>]]
    /\ askedOn' = [askedOn EXCEPT ![d] = sentOn[<<0, d>>]]
    /\ rpc' = [rpc EXCEPT ![<<0, d>>] = "none"]
    /\ UNCHANGED <<connection, ready, disposed, tasks, unwatches, rpcId, sentOn, unwatching,
                   broken, line, clients, watcherHub>>

\* The daemon refused, the request or its answer was lost, or its time is over: the
\* daemon may still go on with it, for a subscription nobody knows of.
WatchFails(d) ==
    /\ watch[d] = "calling"
    /\ watch' = [watch EXCEPT ![d] = "failed"]
    /\ UNCHANGED <<connection, ready, disposed, listed, name, tasks, unwatches, calls,
                   unwatching, broken, line, clients, watcherHub>>

\* unsubscribe(): silent at once; watcher.unwatch goes by request(), its errors ignored.
Unsubscribe(d) ==
    /\ watch[d] = "active"
    /\ watch' = [watch EXCEPT ![d] = "ended"]
    /\ listed' = listed \ {d}
    /\ unwatches' = IF ~disposed /\ ready = "pending" THEN unwatches \cup {name[d]}
                    ELSE unwatches
    /\ unwatching' = IF ~disposed /\ ready = "resolved" /\ Connected
                     THEN unwatching \cup {name[d]} ELSE unwatching
    /\ UNCHANGED <<connection, ready, disposed, name, tasks, calls, broken, line, clients,
                   watcherHub>>

\* A watcher.change arrives: its subscription's callback is called, if there is one.
Deliver(i) ==
    /\ Connected /\ i \in line[stream]
    /\ owed' = [d \in Dirs |-> IF d \in listed /\ name[d] = i THEN <<0, 0>> ELSE owed[d]]
    /\ line' = [line EXCEPT ![stream] = @ \ {i}]
    /\ UNCHANGED <<connection, ready, disposed, subs, tasks, unwatches, calls, unwatching,
                   broken, clients, hub, dirOf, pend>>

\* dispose(): requests are aborted or refused; the loops that follow find nothing listed.
Dispose ==
    /\ ~disposed
    /\ disposed' = TRUE /\ timer' = FALSE /\ es' = "none" /\ stream' = 0
    /\ ready' = "rejected" /\ unwatches' = {}
    /\ watch' = [d \in Dirs |-> IF watch[d] \in {"parked", "calling"} THEN "failed"
                                ELSE watch[d]]
    /\ listed' = {}
    /\ task' = [s \in Streams |-> IF task[s] = "none" THEN "none" ELSE "done"]
    /\ todo' = [s \in Streams |-> {}]
    /\ broken' = broken \cup ({stream} \ {0})
    /\ line' = [s \in Streams |-> IF s = stream THEN {} ELSE line[s]]
    /\ UNCHANGED <<attempts, name, calls, unwatching, clients, watcherHub>>

-----------------------------------------------------------------------------
(* The daemon: the watcher RPCs, the hub, and its end. *)

\* Hub.Watch walked the directory: the subscription runs.
HubWatches(c) ==
    /\ rpc[c] = "sent" /\ Len(dirOf) < MaxSubs
    /\ dirOf' = Append(dirOf, c[2])
    /\ rpcId' = [rpcId EXCEPT ![c] = Len(dirOf')]
    /\ hub' = hub \cup {Len(dirOf')}
    /\ rpc' = [rpc EXCEPT ![c] = "made"]
    /\ UNCHANGED <<connection, ready, disposed, subs, tasks, unwatches, sentOn, askedOn,
                   unwatching, broken, line, clients, pend, owed>>

\* It could not.
HubRefuses(c) ==
    /\ rpc[c] = "sent"
    /\ rpc' = [rpc EXCEPT ![c] = "refused"]
    /\ UNCHANGED <<connection, ready, disposed, subs, tasks, unwatches, rpcId, sentOn,
                   askedOn, unwatching, broken, line, clients, watcherHub>>

\* trackClientSubscription: whichever stream is registered by now, if any; the answer leaves.
Tracks(c) ==
    /\ rpc[c] = "made"
    /\ tracked' = [s \in Streams |-> IF s = registered THEN tracked[s] \cup {rpcId[c]}
                                     ELSE tracked[s]]
    /\ rpc' = [rpc EXCEPT ![c] = "answered"]
    /\ UNCHANGED <<connection, ready, disposed, subs, tasks, unwatches, rpcId, sentOn,
                   askedOn, unwatching, broken, line, registered, handler, watcherHub>>

\* watcher.unwatch: untracked from the registered stream, and unwatched.
Unwatch(i) ==
    /\ i \in unwatching
    /\ unwatching' = unwatching \ {i}
    /\ tracked' = [s \in Streams |-> IF s = registered THEN tracked[s] \ {i} ELSE tracked[s]]
    /\ hub' = hub \ {i}
    /\ UNCHANGED <<connection, ready, disposed, subs, tasks, unwatches, calls, broken, line,
                   registered, handler, dirOf, pend, owed>>

UnwatchLost(i) ==
    /\ i \in unwatching
    /\ unwatching' = unwatching \ {i}
    /\ UNCHANGED <<connection, ready, disposed, subs, tasks, unwatches, calls, broken, line,
                   clients, watcherHub>>

\* The page's watch of d is alive, and what it sees finds its way to the page.
Heard(d) ==
    /\ Connected /\ stream \notin broken /\ registered = stream
    /\ d \in listed /\ name[d] \in hub

\* Something changes in a directory.
Change(d) ==
    /\ \E i \in hub : dirOf[i] = d /\ i \notin pend
    /\ pend' = pend \cup {i \in hub : dirOf[i] = d}
    /\ owed' = [owed EXCEPT ![d] = IF Heard(d) THEN <<name[d], stream>> ELSE @]
    /\ UNCHANGED <<connection, ready, disposed, subs, tasks, unwatches, calls, unwatching,
                   broken, line, clients, hub, dirOf>>

\* Mutant: on the stream that tracks the subscription.
FlushTracked(i) ==
    /\ i \in pend
    /\ pend' = pend \ {i}
    /\ line' = [s \in Streams |-> IF s \notin broken /\ i \in tracked[s] THEN line[s] \cup {i}
                                  ELSE line[s]]
    /\ UNCHANGED <<connection, ready, disposed, subs, tasks, unwatches, calls, unwatching,
                   broken, clients, hub, dirOf, owed>>

\* flush(): notifyClient sends on the registered stream, if there is one.
Flush(i) ==
    /\ i \in pend
    /\ pend' = pend \ {i}
    /\ IF registered = 0 \/ registered \in broken THEN UNCHANGED line
       ELSE line' = [line EXCEPT ![registered] = @ \cup {i}]
    /\ UNCHANGED <<connection, ready, disposed, subs, tasks, unwatches, calls, unwatching,
                   broken, clients, hub, dirOf, owed>>

\* A subscription that was unwatched returns with its events.
RunReturns(i) ==
    /\ i \in pend \ hub
    /\ pend' = pend \ {i}
    /\ UNCHANGED <<connection, ready, disposed, subs, tasks, unwatches, calls, unwatching,
                   broken, line, clients, hub, dirOf, owed>>

\* The daemon stops, by Close() or not, and another takes its place.
Restart ==
    /\ \E s \in Streams : handler[s] = "serving"
    /\ handler' = [s \in Streams |-> IF handler[s] = "none" THEN "none" ELSE "gone"]
    /\ broken' = {s \in Streams : handler[s] # "none"}
    /\ line' = [s \in Streams |-> {}]
    /\ registered' = 0 /\ tracked' = [s \in Streams |-> {}]
    /\ hub' = {} /\ pend' = {}
    /\ rpc' = [c \in Callers |-> IF rpc[c] \in {"sent", "made"} THEN "refused" ELSE rpc[c]]
    /\ UNCHANGED <<connection, ready, disposed, subs, tasks, unwatches, rpcId, sentOn,
                   askedOn, unwatching, dirOf, owed>>

-----------------------------------------------------------------------------
OnStream(s) ==
    \/ Registers(s) \/ Opens(s) \/ Breaks(s) \/ HandlerReturns(s) \/ Cleanup(s)
    \/ HandshakeDone(s) \/ HandshakeFails(s)
    \/ Rewatch(s) \/ RewatchUnsendable(s) \/ Rewatched(s) \/ RewatchFails(s)

OnDir(d) == Watch(d) \/ Watched(d) \/ WatchFails(d) \/ Unsubscribe(d) \/ Change(d)

Serve(c) == HubWatches(c) \/ HubRefuses(c) \/ Tracks(c)

OnId(i) == Unwatch(i) \/ UnwatchLost(i) \/ Flush(i) \/ RunReturns(i) \/ Deliver(i)

Next ==
    \/ Connect \/ ConnectThrows \/ AsksAgain \/ GivesUp \/ Dispose \/ Restart
    \/ \E s \in Streams : OnStream(s)
    \/ \E d \in Dirs : OnDir(d)
    \/ \E c \in Callers : Serve(c)
    \/ \E i \in Ids : OnId(i)

Spec == Init /\ [][Next]_vars

\* Timers fire, requests are answered or fail, an EventSource that asks is served or
\* refused, and learns of it, what a stream carries arrives, and goroutines are
\* scheduled. Nothing makes the network fail, the user act, or a directory change. One
\* fairness joins the stages of one task, which follow each other, and their outcomes.
FairSpec ==
    /\ Spec
    /\ WF_vars(Connect \/ AsksAgain \/ GivesUp \/ \E s \in Streams : Registers(s))
    /\ \A s \in Streams :
          /\ WF_vars(Opens(s) \/ HandshakeDone(s) \/ HandshakeFails(s))
          /\ WF_vars(HandlerReturns(s) \/ Cleanup(s))
          /\ WF_vars(Rewatch(s) \/ RewatchUnsendable(s) \/ Rewatched(s) \/ RewatchFails(s))
    /\ \A d \in Dirs : WF_vars(Watched(d) \/ WatchFails(d))
    /\ \A c \in Callers : WF_vars(Serve(c))
    /\ \A i \in Ids : /\ WF_vars(Flush(i)) /\ WF_vars(Deliver(i))
                      /\ WF_vars(Unwatch(i) \/ UnwatchLost(i))

-----------------------------------------------------------------------------
\* The types of the page's and the daemon's fields.
TypeOK ==
    /\ es \in {"none", "connecting", "open"} /\ stream \in 0..MaxStreams
    /\ attempts \in 0..MaxAttempts /\ timer \in BOOLEAN /\ disposed \in BOOLEAN
    /\ ready \in {"pending", "resolved", "rejected"}
    /\ watch \in [Dirs -> {"idle", "parked", "abandoned", "calling", "active", "ended", "failed"}]
    /\ listed \subseteq Dirs /\ name \in [Dirs -> 0..MaxSubs]
    /\ task \in [Streams -> {"none", "info", "rewatch", "done"}]
    /\ todo \in [Streams -> SUBSET (Dirs \X (0..MaxSubs))] /\ unwatches \subseteq 0..MaxSubs
    /\ rpc \in [Callers -> {"none", "sent", "made", "answered", "refused"}]
    /\ rpcId \in [Callers -> 0..MaxSubs]
    /\ sentOn \in [Callers -> 0..MaxStreams] /\ askedOn \in [Dirs -> 0..MaxStreams]
    /\ unwatching \subseteq 0..MaxSubs
    /\ broken \subseteq Streams /\ line \in [Streams -> SUBSET Ids]
    /\ registered \in 0..MaxStreams
    /\ handler \in [Streams -> {"none", "serving", "leaving", "gone"}]
    /\ tracked \in [Streams -> SUBSET Ids]
    /\ hub \subseteq Ids /\ dirOf \in Seq(Dirs) /\ Len(dirOf) <= MaxSubs
    /\ pend \subseteq Ids /\ owed \in [Dirs -> (0..MaxSubs) \X (0..MaxStreams)]

\* Who waits for the present promise of `ready` (remote-host-system.ts:963), a watch() or
\* an unsubscribe(), does not wait for nothing: an attempt to connect is due or under way,
\* or a handshake is, that will settle it. Of those who wait for a promise that another
\* has replaced (:905) it says nothing: see NobodyIsLeftBehind.
SomeoneSettlesReady ==
    (\E d \in Dirs : watch[d] = "parked") \/ unwatches # {} =>
        timer \/ es = "connecting" \/ \E s \in Streams : task[s] = "info"

\* What one would expect of _createReadyPromise: whoever waited is not forgotten.
NobodyIsLeftBehind == \A d \in Dirs : watch[d] # "abandoned"

\* The page is connected by a stream the network has not lost.
Follows == Connected /\ stream \notin broken

\* While the page follows a working stream, every subscription it lists whose watch was
\* asked for on that stream is alive in the hub: neither the cleanup of an earlier
\* stream, nor a re-watch that overlaps another (remote-host-system.ts:926), nor an
\* unsubscribe() in between ends the watch of a subscription that goes on.
FollowedIsWatched ==
    Follows => \A d \in listed : askedOn[d] = stream => name[d] \in hub

\* A subscription the page lists is one its owner has not ended.
ListedIsActive == \A d \in listed : watch[d] = "active" /\ ~disposed

\* What follows onopen is to watch d again, whose subscription has lost its stream.
ToRewatch(d) == Follows /\ d \in listed /\ <<d, name[d]>> \in todo[stream]

\* What the page asks for comes to an end, so that in the end nothing of it is left: a
\* watch() gets its subscription or fails, or is left behind by a new promise of `ready`
\* (remote-host-system.ts:905) and waits for good, but not for anything under way; the
\* watcher.unwatch of every unsubscribe() is sent and served, or dropped; and every
\* subscription that is to be watched again (:926) gets its new name or is given up,
\* unless the stream is lost first, whatever becomes of the others.
CallsEnd ==
    []<>(/\ \A d \in Dirs : watch[d] \notin {"parked", "calling"} /\ ~ToRewatch(d)
         /\ unwatches = {} /\ unwatching = {})

\* A change the watch of a listed subscription saw is reported to its callback, unless
\* the stream is lost or the subscription ends or is renamed first.
ChangesAreReported ==
    \A d \in Dirs : (Heard(d) /\ owed[d] = <<name[d], stream>>)
                    ~> (owed[d] # <<name[d], stream>> \/ ~Heard(d))

\* The stream of a page is either open again in the end or given up for good, with the
\* requests refused: never a page that waits for a stream nobody asks for.
ReconnectsOrGivesUp ==
    [](es = "none" => <>(es # "none" \/ ready = "rejected"))

\* A test says that dispose() rejects the requests that are pending
\* (src/test/remote-host-system.test.ts:1324).
DisposeSettlesRequests ==
    disposed => \A d \in Dirs : watch[d] \notin {"parked", "abandoned", "calling"}

\* A test says that a client whose event stream is open is notified
\* (internal/server/server_test.go:612): its stream is the one of its clientId.
OpenStreamIsNotified ==
    (Connected /\ handler[stream] = "serving") => registered = stream

\* The three views of a watch agree: its owner's, the page's list, the daemon's hub.
WatchesAgree == TypeOK /\ ListedIsActive /\ FollowedIsWatched
=============================================================================
