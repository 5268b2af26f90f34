--------------------------- MODULE EventStreamProofs ---------------------------
(***************************************************************************)
(* For any number of directories, streams, subscriptions and attempts:     *)
(* whoever waits for the present promise of readiness has somebody left to *)
(* settle it, and owner, page and hub agree on what is watched: a          *)
(* subscription is listed only while its owner has not ended it, and one   *)
(* that is listed is alive in the hub as long as the stream works on which *)
(* it was asked for.                                                       *)
(*                                                                         *)
(* Two facts about what the page knows carry the first (IInv): who waits   *)
(* for the present promise waits for one that is pending, and a page that  *)
(* is disposed has nothing pending. The second rests on HubInv: the        *)
(* streams are registered in order, so that the page and the daemon cannot *)
(* mean different ones; an id of the hub has one owner at most, and no     *)
(* listed one is to be unwatched; and what was asked for on a stream is    *)
(* tracked with no other, so that only that stream's own cleanup ends it.  *)
(* Requests the page has given up still have their ids: the hub goes on    *)
(* with them.                                                              *)
(***************************************************************************)
EXTENDS EventStream, SequenceTheorems, TLAPS

\* What of the state's types the proof needs.
Shape ==
    /\ watch \in [Dirs -> {"idle", "parked", "abandoned", "calling", "active", "ended",
                           "failed"}]
    /\ task \in [Streams -> {"none", "info", "rewatch", "done"}]
    /\ listed \subseteq Dirs

\* `ready` is pending only while somebody is to settle it.
PendingIsAwaited ==
    ready = "pending" => \/ timer \/ es = "connecting"
                         \/ \E s \in Streams : task[s] = "info"

\* Those who wait, wait for the present promise.
ParkedIsPending == (\E d \in Dirs : watch[d] = "parked") \/ unwatches # {} => ready = "pending"

\* A disposed page waits for nothing and lists nothing.
DisposedIsQuiet ==
    disposed => /\ ready # "pending" /\ listed = {} /\ timer = FALSE /\ es = "none"
                /\ \A d \in Dirs : watch[d] # "calling"

ListedWatches == \A d \in listed : watch[d] = "active"

IInv == Shape /\ PendingIsAwaited /\ ParkedIsPending /\ DisposedIsQuiet /\ ListedWatches

LEMMA InitIInv == Init => IInv
BY DEF Init, IInv, Shape, PendingIsAwaited, ParkedIsPending, DisposedIsQuiet, ListedWatches

\* Steps that leave the page as it is.
LEMMA QuietSteps ==
    ASSUME IInv, UNCHANGED <<es, timer, ready, disposed, watch, listed, task, unwatches>>
    PROVE  IInv'
BY DEF IInv, Shape, PendingIsAwaited, ParkedIsPending, DisposedIsQuiet, ListedWatches

\* Steps that make, lose or give up a stream.
LEMMA StreamSteps ==
    ASSUME IInv,
           \/ Connect \/ ConnectThrows \/ AsksAgain \/ GivesUp
           \/ \E s \in Streams : Opens(s)
    PROVE  IInv'
<1> USE DEF IInv, Shape, PendingIsAwaited, ParkedIsPending, DisposedIsQuiet, ListedWatches
<1>1. CASE Connect
  BY <1>1 DEF Connect, subs, tasks
<1>2. CASE ConnectThrows
  BY <1>2 DEF ConnectThrows, RejectReady, tasks
<1>3. CASE AsksAgain
  BY <1>3 DEF AsksAgain, subs, tasks
<1>4. CASE GivesUp
  <2>1. CASE attempts >= MaxAttempts
    BY <1>4, <2>1 DEF GivesUp, RejectReady, tasks
  <2>2. CASE ~(attempts >= MaxAttempts)
    BY <1>4, <2>2 DEF GivesUp, CreateReadyPromise, tasks
  <2>3. QED BY <2>1, <2>2
<1>5. ASSUME NEW s \in Streams, Opens(s) PROVE IInv'
  BY <1>5 DEF Opens, subs
<1>6. QED BY <1>1, <1>2, <1>3, <1>4, <1>5

\* Steps of a handshake, and of the re-watch that follows it.
LEMMA TaskSteps ==
    ASSUME IInv, NEW s \in Streams,
           \/ HandshakeDone(s) \/ HandshakeFails(s) \/ Rewatch(s) \/ RewatchUnsendable(s)
           \/ Rewatched(s) \/ RewatchFails(s)
    PROVE  IInv'
<1> USE DEF IInv, Shape, PendingIsAwaited, ParkedIsPending, DisposedIsQuiet, ListedWatches
<1>1. CASE HandshakeDone(s)
  <2>1. CASE ready = "pending"
    BY <1>1, <2>1 DEF HandshakeDone, ResolveReady, connection
  <2>2. CASE ready # "pending"
    BY <1>1, <2>2 DEF HandshakeDone, ResolveReady, connection
  <2>3. QED BY <2>1, <2>2
<1>2. CASE HandshakeFails(s)
  BY <1>2 DEF HandshakeFails, RejectReady, connection
<1>3. CASE Rewatch(s)
  BY <1>3 DEF Rewatch, connection, subs, tasks
<1>4. CASE RewatchUnsendable(s)
  BY <1>4 DEF RewatchUnsendable, Forget, connection
<1>5. CASE Rewatched(s)
  BY <1>5 DEF Rewatched, RewatchAnswered, Renames, connection
<1>6. CASE RewatchFails(s)
  BY <1>6 DEF RewatchFails, Forget, connection
<1>7. QED BY <1>1, <1>2, <1>3, <1>4, <1>5, <1>6

\* Steps of a watch() call.
LEMMA WatchSteps ==
    ASSUME IInv, NEW d \in Dirs,
           Watch(d) \/ Watched(d) \/ WatchFails(d) \/ Unsubscribe(d)
    PROVE  IInv'
<1> USE DEF IInv, Shape, PendingIsAwaited, ParkedIsPending, DisposedIsQuiet, ListedWatches
<1>1. CASE Watch(d)
  BY <1>1 DEF Watch, connection, tasks
<1>2. CASE Watched(d)
  BY <1>2 DEF Watched, connection, tasks
<1>3. CASE WatchFails(d)
  BY <1>3 DEF WatchFails, connection, tasks
<1>4. CASE Unsubscribe(d)
  BY <1>4 DEF Unsubscribe, connection, tasks
<1>5. QED BY <1>1, <1>2, <1>3, <1>4

LEMMA NextIInv == IInv /\ [Next]_vars => IInv'
<1> SUFFICES ASSUME IInv, [Next]_vars PROVE IInv' OBVIOUS
<1> USE DEF connection, subs, tasks
<1>1. CASE UNCHANGED vars
  BY <1>1, QuietSteps DEF vars
<1>2. ASSUME NEW s \in Streams, OnStream(s) PROVE IInv'
  BY <1>2, StreamSteps, TaskSteps, QuietSteps
     DEF OnStream, Registers, Breaks, HandlerReturns, Cleanup
<1>3. ASSUME NEW d \in Dirs, OnDir(d) PROVE IInv'
  BY <1>3, WatchSteps, QuietSteps DEF OnDir, Change
<1>4. ASSUME NEW c \in Callers, Serve(c) PROVE IInv'
  BY <1>4, QuietSteps DEF Serve, HubWatches, HubRefuses, Tracks
<1>5. ASSUME NEW i \in Ids, OnId(i) PROVE IInv'
  BY <1>5, QuietSteps DEF OnId, Unwatch, UnwatchLost, Flush, RunReturns, Deliver
<1>6. CASE Restart
  BY <1>6, QuietSteps DEF Restart
<1>7. CASE Dispose
  BY <1>7 DEF Dispose, IInv, Shape, PendingIsAwaited, ParkedIsPending, DisposedIsQuiet,
              ListedWatches
<1>8. CASE Connect \/ ConnectThrows \/ AsksAgain \/ GivesUp
  BY <1>8, StreamSteps
<1>9. QED BY <1>1, <1>2, <1>3, <1>4, <1>5, <1>6, <1>7, <1>8 DEF Next

\* Whoever waits for the present promise of `ready` (remote-host-system.ts:963), watch() or
\* unsubscribe(), has a timer, an attempt to connect or a handshake left to settle it.
\* Those who wait for a promise that another has replaced (:905) have nobody.
THEOREM WaitersAreSettled == Spec => []SomeoneSettlesReady
<1>1. IInv => SomeoneSettlesReady
  BY DEF IInv, PendingIsAwaited, ParkedIsPending, SomeoneSettlesReady
<1>2. QED BY <1>1, InitIInv, NextIInv, PTL DEF Spec

-----------------------------------------------------------------------------
(* The page and the hub. *)

\* The types.
PageTypes ==
    /\ es \in {"none", "connecting", "open"} /\ stream \in 0..MaxStreams
    /\ attempts \in 0..MaxAttempts /\ timer \in BOOLEAN /\ disposed \in BOOLEAN
    /\ ready \in {"pending", "resolved", "rejected"}
    /\ task \in [Streams -> {"none", "info", "rewatch", "done"}]
    /\ unwatches \subseteq 0..MaxSubs

WatchTypes ==
    /\ watch \in [Dirs -> {"idle", "parked", "abandoned", "calling", "active", "ended",
                           "failed"}]
    /\ listed \subseteq Dirs /\ name \in [Dirs -> 0..MaxSubs]
    /\ todo \in [Streams -> SUBSET (Dirs \X (0..MaxSubs))]
    /\ unwatching \subseteq 0..MaxSubs

RpcTypes ==
    /\ rpc \in [Callers -> {"none", "sent", "made", "answered", "refused"}]
    /\ rpcId \in [Callers -> 0..MaxSubs]
    /\ sentOn \in [Callers -> 0..MaxStreams] /\ askedOn \in [Dirs -> 0..MaxStreams]

DaemonTypes ==
    /\ broken \subseteq Streams /\ line \in [Streams -> SUBSET Ids]
    /\ registered \in 0..MaxStreams
    /\ handler \in [Streams -> {"none", "serving", "leaving", "gone"}]
    /\ tracked \in [Streams -> SUBSET Ids]
    /\ hub \subseteq Ids /\ dirOf \in Seq(Dirs) /\ Len(dirOf) <= MaxSubs
    /\ pend \subseteq Ids /\ owed \in [Dirs -> (0..MaxSubs) \X (0..MaxStreams)]

Types == PageTypes /\ WatchTypes /\ RpcTypes /\ DaemonTypes

\* Streams are registered one after the other, and the page's, like the one the daemon
\* has registered now, is the latest, if there is one.
Opened(s) == handler[s] # "none"
Latest(s) == s \in Streams /\ Opened(s) /\ \A r \in Streams : r > s => ~Opened(r)

Order ==
    /\ \A r, s \in Streams : r < s /\ Opened(s) => Opened(r)
    /\ Connected => stream # 0
    /\ stream # 0 => Latest(stream)
    /\ registered # 0 => Latest(registered)
    /\ \A s \in Streams : handler[s] \in {"leaving", "gone"} => s \in broken

\* A watch is asked for on a stream that has opened.
SentTo ==
    /\ \A c \in Callers : rpc[c] # "none" => sentOn[c] \in Streams /\ Opened(sentOn[c])
    /\ \A d \in listed : askedOn[d] \in Streams /\ Opened(askedOn[d])

\* The ids the hub has given out, the callers that are being answered with one, and the
\* ids that are to be unwatched.
Given == 1..Len(dirOf)
Answering(c) == rpc[c] \in {"made", "answered"}
Doomed == unwatching \cup unwatches

IdsGiven ==
    /\ \A c \in Callers : Answering(c) => rpcId[c] \in Given
    /\ \A d \in Dirs : watch[d] = "active" => name[d] \in Given
    /\ \A d \in Dirs : name[d] \in Given \cup {0}
    /\ Doomed \subseteq Given
    /\ hub \subseteq Given
    /\ \A s \in Streams : tracked[s] \subseteq Given

\* An id has one owner at most: a caller it is the answer to, or a directory whose
\* subscription has its name; and one of a listed subscription is not to be unwatched.
OneOwner ==
    /\ \A c, e \in Callers : Answering(c) /\ Answering(e) /\ rpcId[c] = rpcId[e] => c = e
    /\ \A c \in Callers, d \in Dirs : Answering(c) => rpcId[c] # name[d]
    /\ \A d, e \in Dirs : name[d] = name[e] /\ name[d] # 0 => d = e
    /\ \A c \in Callers : Answering(c) => rpcId[c] \notin Doomed
    /\ \A d \in listed : name[d] \notin Doomed

\* What was asked for on the page's stream, while it works, is in the hub, and tracked with
\* no other stream: no cleanup but that stream's own can end it.
Alive(i) == i \in hub /\ \A r \in Streams : r # stream => i \notin tracked[r]

Works == stream # 0 /\ stream \notin broken

AskedAreAlive ==
    Works => /\ \A c \in Callers : Answering(c) /\ sentOn[c] = stream => Alive(rpcId[c])
             /\ \A d \in listed : askedOn[d] = stream => Alive(name[d])

\* For each variable, the actions that may change it.
LEMMA WhoMoves ==
    ASSUME [Next]_vars
    PROVE  /\ \/ UNCHANGED es
              \/ Connect
              \/ AsksAgain
              \/ GivesUp
              \/ Dispose
              \/ (\E s \in Streams : Opens(s))
           /\ \/ UNCHANGED stream
              \/ Connect
              \/ AsksAgain
              \/ Dispose
              \/ (\E s \in Streams : Registers(s))
           /\ \/ UNCHANGED attempts
              \/ GivesUp
              \/ (\E s \in Streams : Opens(s))
           /\ \/ UNCHANGED timer
              \/ Connect
              \/ ConnectThrows
              \/ GivesUp
              \/ Dispose
           /\ \/ UNCHANGED ready
              \/ ConnectThrows
              \/ GivesUp
              \/ Dispose
              \/ (\E s \in Streams : HandshakeDone(s) \/ HandshakeFails(s))
           /\ \/ UNCHANGED disposed
              \/ Dispose
           /\ \/ UNCHANGED watch
              \/ ConnectThrows
              \/ GivesUp
              \/ Dispose
              \/ (\E s \in Streams : HandshakeDone(s) \/ HandshakeFails(s))
              \/ (\E d \in Dirs : Watch(d) \/ Watched(d) \/ WatchFails(d) \/ Unsubscribe(d))
           /\ \/ UNCHANGED listed
              \/ Dispose
              \/ (\E s \in Streams : RewatchUnsendable(s) \/ Rewatched(s) \/ RewatchFails(s))
              \/ (\E d \in Dirs : Watched(d) \/ Unsubscribe(d))
           /\ \/ UNCHANGED name
              \/ (\E s \in Streams : Rewatched(s))
              \/ (\E d \in Dirs : Watched(d))
           /\ \/ UNCHANGED task
              \/ Dispose
              \/ (\E s \in Streams : Opens(s) \/ HandshakeDone(s) \/ HandshakeFails(s))
           /\ \/ UNCHANGED todo
              \/ Dispose
              \/ (\E s \in Streams : HandshakeDone(s) \/ RewatchUnsendable(s) \/ Rewatched(s) \/ RewatchFails(s))
           /\ \/ UNCHANGED unwatches
              \/ ConnectThrows
              \/ GivesUp
              \/ Dispose
              \/ (\E s \in Streams : HandshakeDone(s) \/ HandshakeFails(s))
              \/ (\E d \in Dirs : Unsubscribe(d))
           /\ \/ UNCHANGED rpc
              \/ Restart
              \/ (\E s \in Streams : HandshakeDone(s) \/ Rewatch(s) \/ Rewatched(s))
              \/ (\E d \in Dirs : Watch(d) \/ Watched(d))
              \/ (\E c \in Callers : HubWatches(c) \/ HubRefuses(c) \/ Tracks(c))
           /\ \/ UNCHANGED rpcId
              \/ (\E c \in Callers : HubWatches(c))
           /\ \/ UNCHANGED sentOn
              \/ (\E s \in Streams : HandshakeDone(s) \/ Rewatch(s))
              \/ (\E d \in Dirs : Watch(d))
           /\ \/ UNCHANGED askedOn
              \/ (\E s \in Streams : Rewatched(s))
              \/ (\E d \in Dirs : Watched(d))
           /\ \/ UNCHANGED unwatching
              \/ (\E s \in Streams : HandshakeDone(s) \/ Rewatched(s))
              \/ (\E d \in Dirs : Unsubscribe(d))
              \/ (\E i \in Ids : Unwatch(i) \/ UnwatchLost(i))
           /\ \/ UNCHANGED broken
              \/ Dispose
              \/ Restart
              \/ (\E s \in Streams : Breaks(s))
           /\ \/ UNCHANGED line
              \/ Dispose
              \/ Restart
              \/ (\E s \in Streams : Breaks(s))
              \/ (\E i \in Ids : Flush(i) \/ Deliver(i))
           /\ \/ UNCHANGED registered
              \/ Restart
              \/ (\E s \in Streams : Registers(s) \/ HandlerReturns(s))
           /\ \/ UNCHANGED handler
              \/ Restart
              \/ (\E s \in Streams : Registers(s) \/ HandlerReturns(s) \/ Cleanup(s))
           /\ \/ UNCHANGED tracked
              \/ Restart
              \/ (\E s \in Streams : Cleanup(s))
              \/ (\E c \in Callers : Tracks(c))
              \/ (\E i \in Ids : Unwatch(i))
           /\ \/ UNCHANGED hub
              \/ Restart
              \/ (\E s \in Streams : Cleanup(s))
              \/ (\E c \in Callers : HubWatches(c))
              \/ (\E i \in Ids : Unwatch(i))
           /\ \/ UNCHANGED dirOf
              \/ (\E c \in Callers : HubWatches(c))
           /\ \/ UNCHANGED pend
              \/ Restart
              \/ (\E s \in Streams : Cleanup(s))
              \/ (\E d \in Dirs : Change(d))
              \/ (\E i \in Ids : Flush(i) \/ RunReturns(i))
           /\ \/ UNCHANGED owed
              \/ (\E d \in Dirs : Change(d))
              \/ (\E i \in Ids : Deliver(i))
<1>1. CASE Connect
  BY <1>1 DEF Connect, subs, tasks, calls, clients, watcherHub
<1>2. CASE ConnectThrows
  BY <1>2 DEF ConnectThrows, RejectReady, tasks, calls, clients, watcherHub
<1>3. CASE AsksAgain
  BY <1>3 DEF AsksAgain, subs, tasks, calls, clients, watcherHub
<1>4. CASE GivesUp
  BY <1>4 DEF GivesUp, RejectReady, CreateReadyPromise, tasks, calls, clients, watcherHub
<1>5. CASE Dispose
  BY <1>5 DEF Dispose, calls, clients, watcherHub
<1>6. CASE Restart
  BY <1>6 DEF Restart, connection, subs, tasks
<1>7. CASE \E s \in Streams : Opens(s)
  BY <1>7 DEF Opens, subs, calls, clients, watcherHub
<1>31. CASE \E s \in Streams : Registers(s)
  BY <1>31 DEF Registers, subs, tasks, calls, watcherHub
<1>8. CASE \E s \in Streams : Breaks(s)
  BY <1>8 DEF Breaks, connection, subs, tasks, calls, clients, watcherHub
<1>9. CASE \E s \in Streams : HandlerReturns(s)
  BY <1>9 DEF HandlerReturns, connection, subs, tasks, calls, watcherHub
<1>10. CASE \E s \in Streams : Cleanup(s)
  BY <1>10 DEF Cleanup, connection, subs, tasks, calls
<1>11. CASE \E s \in Streams : HandshakeDone(s)
  BY <1>11 DEF HandshakeDone, ResolveReady, Send, connection, clients, watcherHub
<1>12. CASE \E s \in Streams : HandshakeFails(s)
  BY <1>12 DEF HandshakeFails, RejectReady, connection, calls, clients, watcherHub
<1>13. CASE \E s \in Streams : Rewatch(s)
  BY <1>13 DEF Rewatch, BetweenEntries, Send, connection, subs, tasks, clients, watcherHub
<1>14. CASE \E s \in Streams : RewatchUnsendable(s)
  BY <1>14 DEF RewatchUnsendable, Forget, connection, calls, clients, watcherHub
<1>15. CASE \E s \in Streams : Rewatched(s)
  BY <1>15 DEF Rewatched, RewatchAnswered, Renames, connection, clients, watcherHub
<1>16. CASE \E s \in Streams : RewatchFails(s)
  BY <1>16 DEF RewatchFails, Forget, connection, calls, clients, watcherHub
<1>17. CASE \E d \in Dirs : Watch(d)
  BY <1>17 DEF Watch, Send, connection, tasks, clients, watcherHub
<1>18. CASE \E d \in Dirs : Watched(d)
  BY <1>18 DEF Watched, connection, tasks, clients, watcherHub
<1>19. CASE \E d \in Dirs : WatchFails(d)
  BY <1>19 DEF WatchFails, connection, tasks, calls, clients, watcherHub
<1>20. CASE \E d \in Dirs : Unsubscribe(d)
  BY <1>20 DEF Unsubscribe, connection, tasks, calls, clients, watcherHub
<1>21. CASE \E d \in Dirs : Change(d)
  BY <1>21 DEF Change, connection, subs, tasks, calls, clients
<1>22. CASE \E c \in Callers : HubWatches(c)
  BY <1>22 DEF HubWatches, connection, subs, tasks, clients
<1>23. CASE \E c \in Callers : HubRefuses(c)
  BY <1>23 DEF HubRefuses, connection, subs, tasks, clients, watcherHub
<1>24. CASE \E c \in Callers : Tracks(c)
  BY <1>24 DEF Tracks, connection, subs, tasks, watcherHub
<1>25. CASE \E i \in Ids : Unwatch(i)
  BY <1>25 DEF Unwatch, connection, subs, tasks, calls
<1>26. CASE \E i \in Ids : UnwatchLost(i)
  BY <1>26 DEF UnwatchLost, connection, subs, tasks, calls, clients, watcherHub
<1>27. CASE \E i \in Ids : Flush(i)
  BY <1>27 DEF Flush, connection, subs, tasks, calls, clients
<1>28. CASE \E i \in Ids : RunReturns(i)
  BY <1>28 DEF RunReturns, connection, subs, tasks, calls, clients
<1>29. CASE \E i \in Ids : Deliver(i)
  BY <1>29 DEF Deliver, connection, subs, tasks, calls, clients
<1>30. CASE UNCHANGED vars
  BY <1>30 DEF vars, connection, subs, tasks, calls, clients, watcherHub
<1> QED
  BY <1>1, <1>2, <1>3, <1>4, <1>5, <1>6, <1>7, <1>8, <1>9, <1>10, <1>11, <1>12, <1>13,
     <1>14, <1>15, <1>16, <1>17, <1>18, <1>19, <1>20, <1>21, <1>22, <1>23, <1>24, <1>25,
     <1>26, <1>27, <1>28, <1>29, <1>30, <1>31 DEF Next, OnStream, OnDir, Serve, OnId

\* What the end of a handshake does to the requests.
LEMMA HandshakeShape ==
    ASSUME Types, NEW s \in Streams, HandshakeDone(s)
    PROVE  /\ \A c \in Callers :
                 \/ rpc'[c] = rpc[c] /\ sentOn'[c] = sentOn[c]
                 \/ Connected /\ rpc'[c] = "sent" /\ sentOn'[c] = stream
           /\ \A d \in Dirs : watch'[d] = "active" <=> watch[d] = "active"
           /\ Doomed' \subseteq Doomed
           /\ rpc' \in [Callers -> {"none", "sent", "made", "answered", "refused"}]
<1>1. CASE ready = "pending"
  <2>1. \A c \in Callers :
           \/ rpc'[c] = rpc[c] /\ sentOn'[c] = sentOn[c]
           \/ Connected /\ rpc'[c] = "sent" /\ sentOn'[c] = stream
    BY <1>1 DEF HandshakeDone, ResolveReady, Send
  <2>2. \A d \in Dirs : watch'[d] = "active" <=> watch[d] = "active"
    BY <1>1 DEF HandshakeDone, ResolveReady
  <2>3. Doomed' \subseteq Doomed
    BY <1>1 DEF HandshakeDone, ResolveReady, Doomed
  <2>4. rpc' \in [Callers -> {"none", "sent", "made", "answered", "refused"}]
    BY <1>1 DEF HandshakeDone, ResolveReady, Send, Types, RpcTypes
  <2> QED
    BY <2>1, <2>2, <2>3, <2>4
<1>2. CASE ready # "pending"
  BY <1>2 DEF HandshakeDone, ResolveReady, Doomed, Types, PageTypes, WatchTypes, RpcTypes,
     DaemonTypes
<1> QED
  BY <1>1, <1>2

\* Who calls.
LEMMA CallersAre ==
    /\ \A d \in Dirs : <<0, d>> \in Callers
    /\ \A s \in Streams, d \in Dirs : <<s, d>> \in Callers
    /\ \A c \in Callers : c[2] \in Dirs
BY StreamAssumption DEF Callers, Streams

\* What the answer to watch() does: the watch is active under the id of the answer.
LEMMA WatchedShape ==
    ASSUME NEW d \in Dirs, Watched(d)
    PROVE  \E c \in Callers :
              /\ rpc[c] = "answered" /\ rpc' = [rpc EXCEPT ![c] = "none"]
              /\ name' = [name EXCEPT ![d] = rpcId[c]]
              /\ askedOn' = [askedOn EXCEPT ![d] = sentOn[c]]
              /\ listed' = listed \cup {d} /\ watch' = [watch EXCEPT ![d] = "active"]
              /\ UNCHANGED <<unwatching, unwatches, rpcId, sentOn, dirOf, hub, tracked>>
<1>1. <<0, d>> \in Callers
  BY CallersAre
<1> QED
  BY <1>1 DEF Watched, clients, watcherHub

\* What the answer to a re-watch does: its subscription takes the new id, or that is
\* given back.
LEMMA RewatchedShape ==
    ASSUME Types, NEW s \in Streams, Rewatched(s)
    PROVE  \E c \in Callers, d \in Dirs :
              /\ rpc[c] = "answered" /\ rpc' = [rpc EXCEPT ![c] = "none"]
              /\ \/ /\ d \in listed
                    /\ name' = [name EXCEPT ![d] = rpcId[c]]
                    /\ askedOn' = [askedOn EXCEPT ![d] = sentOn[c]]
                    /\ UNCHANGED <<listed, unwatching>>
                 \/ /\ unwatching' = unwatching \cup {rpcId[c]}
                    /\ UNCHANGED <<listed, name, askedOn>>
              /\ UNCHANGED <<watch, unwatches, rpcId, sentOn, dirOf, hub, tracked>>
<1>1. PICK entry \in todo[s] : RewatchAnswered(s, entry) /\ Renames(s, entry)
  BY DEF Rewatched
<1>2. entry[1] \in Dirs
  <2>1. entry \in Dirs \X (0..MaxSubs)
    BY DEF Types, WatchTypes
  <2> QED
    BY <2>1
<1> DEFINE c == <<s, entry[1]>>
<1>3. c \in Callers
  BY <1>2, CallersAre
<1>4. /\ rpc[c] = "answered" /\ rpc' = [rpc EXCEPT ![c] = "none"]
      /\ UNCHANGED <<watch, unwatches, rpcId, sentOn, dirOf, hub, tracked>>
  BY <1>1 DEF RewatchAnswered, clients, watcherHub
<1>5. CASE entry[1] \in listed /\ name[entry[1]] = entry[2]
  <2>1. listed \cup {entry[1]} = listed
    BY <1>5
  <2>2. /\ name' = [name EXCEPT ![entry[1]] = rpcId[c]]
        /\ askedOn' = [askedOn EXCEPT ![entry[1]] = sentOn[c]]
        /\ UNCHANGED <<listed, unwatching>>
    BY <1>1, <1>5, <2>1 DEF Renames
  <2> QED
    BY <1>2, <1>3, <1>4, <1>5, <2>2
<1>6. CASE ~(entry[1] \in listed /\ name[entry[1]] = entry[2])
  <2>1. unwatching' = unwatching \cup {rpcId[c]} /\ UNCHANGED <<listed, name, askedOn>>
    BY <1>1, <1>6 DEF Renames
  <2> QED
    BY <1>2, <1>3, <1>4, <2>1
<1> QED
  BY <1>5, <1>6

\* Send.
LEMMA SendTypes ==
    ASSUME Types, NEW callers, Send(callers)
    PROVE  /\ rpc' \in [Callers -> {"none", "sent", "made", "answered", "refused"}]
           /\ sentOn' \in [Callers -> 0..MaxStreams]
           /\ \A c \in Callers : c \notin callers => rpc'[c] = rpc[c] /\ sentOn'[c] = sentOn[c]
           /\ \A c \in Callers : c \in callers => rpc'[c] = "sent" /\ sentOn'[c] = stream
BY DEF Send, Types, RpcTypes, PageTypes

\* The hub answers with an id of its own.
LEMMA HubWatchesShape ==
    ASSUME Types, NEW c \in Callers, HubWatches(c)
    PROVE  /\ Len(dirOf) \in Nat /\ Len(dirOf) + 1 \in Ids
           /\ Len(dirOf') = Len(dirOf) + 1 /\ dirOf' \in Seq(Dirs)
           /\ rpc[c] = "sent" /\ rpc' = [rpc EXCEPT ![c] = "made"]
           /\ rpcId' = [rpcId EXCEPT ![c] = Len(dirOf) + 1]
           /\ hub' = hub \cup {Len(dirOf) + 1}
<1>1. dirOf \in Seq(Dirs) /\ Len(dirOf) \in Nat /\ Len(dirOf) < MaxSubs /\ MaxSubs \in Nat
  BY StreamAssumption DEF HubWatches, Types, DaemonTypes
<1>2. c[2] \in Dirs /\ dirOf' = Append(dirOf, c[2])
  BY CallersAre DEF HubWatches
<1>4. Len(dirOf') = Len(dirOf) + 1 /\ dirOf' \in Seq(Dirs)
  BY <1>1, <1>2
<1>5. Len(dirOf) + 1 \in Ids
  BY <1>1 DEF Ids
<1> QED
  BY <1>1, <1>4, <1>5 DEF HubWatches

\* The subscription is tracked with whichever stream is registered.
LEMMA TracksShape ==
    ASSUME Types, NEW c \in Callers, Tracks(c), rpcId[c] \in Ids
    PROVE  /\ tracked' \in [Streams -> SUBSET Ids]
           /\ \A s \in Streams : s # registered => tracked'[s] = tracked[s]
           /\ \A s \in Streams : tracked'[s] \subseteq tracked[s] \cup {rpcId[c]}
           /\ rpc[c] = "made" /\ rpc' = [rpc EXCEPT ![c] = "answered"]
BY DEF Tracks, Types, DaemonTypes

\* The types: the page,
LEMMA PageTypesStep ==
    ASSUME Types, [Next]_vars
    PROVE  PageTypes'
<1>1. CASE Connect
  <2> USE <1>1
  <2>1. 0 \in 0..MaxStreams
    BY StreamAssumption
  <2> QED
    BY <2>1 DEF Connect, tasks, Types, PageTypes
<1>2. CASE ConnectThrows
  BY <1>2, StreamAssumption DEF ConnectThrows, RejectReady, tasks, calls, clients,
     watcherHub, Types, PageTypes, WatchTypes, Streams
<1>3. CASE AsksAgain
  BY <1>3, StreamAssumption DEF AsksAgain, subs, tasks, calls, clients, watcherHub, Types,
     PageTypes, WatchTypes, Streams
<1>4. CASE GivesUp
  <2> USE <1>4
  <2>1. attempts \in 0..MaxAttempts /\ MaxAttempts \in Nat /\ attempts \in Nat
    BY StreamAssumption DEF Types, PageTypes
  <2>2. attempts >= MaxAttempts \/ attempts + 1 \in 0..MaxAttempts
    BY <2>1
  <2> QED
    BY <2>1, <2>2 DEF GivesUp, RejectReady, CreateReadyPromise, tasks, Types, PageTypes
<1>5. CASE Dispose
  <2> USE <1>5
  <2>1. 0 \in 0..MaxStreams
    BY StreamAssumption
  <2>2. task' \in [Streams -> {"none", "info", "rewatch", "done"}]
    BY DEF Dispose, Types, PageTypes
  <2> QED
    BY <2>1, <2>2 DEF Dispose, Types, PageTypes
<1>6. ASSUME NEW s \in Streams, Opens(s) PROVE PageTypes'
  BY <1>6, StreamAssumption DEF Opens, subs, calls, watcherHub, Types, PageTypes,
     WatchTypes, Streams
<1>7. ASSUME NEW s \in Streams, HandshakeDone(s) PROVE PageTypes'
  <2>1. CASE ready = "pending"
    BY <1>7, <2>1 DEF HandshakeDone, ResolveReady, Send, connection, Types, PageTypes,
       Streams
  <2>2. CASE ready # "pending"
    BY <1>7, <2>2 DEF HandshakeDone, ResolveReady, Send, connection, Types, PageTypes,
       Streams
  <2> QED
    BY <2>1, <2>2
<1>8. ASSUME NEW s \in Streams, HandshakeFails(s) PROVE PageTypes'
  BY <1>8, StreamAssumption DEF HandshakeFails, RejectReady, connection, calls, clients,
     watcherHub, Types, PageTypes, WatchTypes, Streams
<1>9. ASSUME NEW d \in Dirs, Unsubscribe(d) PROVE PageTypes'
  <2> USE <1>9
  <2>1. name[d] \in 0..MaxSubs
    BY DEF Types, WatchTypes
  <2>2. unwatches' \subseteq 0..MaxSubs
    BY <2>1 DEF Unsubscribe, Types, PageTypes
  <2> QED
    BY <2>2 DEF Unsubscribe, tasks, connection, Types, PageTypes
<1>11. ASSUME NEW s \in Streams, Registers(s) PROVE PageTypes'
  BY <1>11, StreamAssumption DEF Registers, subs, tasks, calls, watcherHub, Types, PageTypes,
     WatchTypes, Streams
<1>10. CASE UNCHANGED <<es, stream, attempts, timer, ready, disposed, task, unwatches>>
  BY <1>10, StreamAssumption DEF Types, PageTypes, WatchTypes, Streams
<1> QED
  BY <1>1, <1>2, <1>3, <1>4, <1>5, <1>6, <1>7, <1>8, <1>9, <1>10, <1>11, WhoMoves

\* its watches,
LEMMA WatchTypesStep ==
    ASSUME Types, [Next]_vars
    PROVE  WatchTypes'
<1>1. CASE ConnectThrows
  BY <1>1, StreamAssumption DEF ConnectThrows, RejectReady, tasks, calls, clients,
     watcherHub, Types, WatchTypes, RpcTypes, Streams
<1>2. CASE GivesUp
  BY <1>2, StreamAssumption DEF GivesUp, RejectReady, CreateReadyPromise, tasks, calls,
     clients, watcherHub, Types, WatchTypes, RpcTypes, Streams
<1>3. CASE Dispose
  BY <1>3, StreamAssumption DEF Dispose, calls, clients, watcherHub, Types, WatchTypes,
     RpcTypes, Streams
<1>4. ASSUME NEW s \in Streams, HandshakeDone(s) PROVE WatchTypes'
  <2> USE <1>4
  <2>1. watch' \in [Dirs -> {"idle", "parked", "abandoned", "calling", "active", "ended", "failed"}]
    <3>1. CASE ready = "pending"
      BY <3>1 DEF HandshakeDone, ResolveReady, Types, WatchTypes
    <3>2. CASE ready # "pending"
      BY <3>2 DEF HandshakeDone, ResolveReady, Types, WatchTypes
    <3> QED
      BY <3>1, <3>2
  <2>2. unwatching' \subseteq 0..MaxSubs
    BY DEF HandshakeDone, ResolveReady, Types, WatchTypes, PageTypes
  <2>3. {<<d, name[d]>> : d \in listed} \in SUBSET (Dirs \X (0..MaxSubs))
    BY DEF Types, WatchTypes
  <2>4. todo' \in [Streams -> SUBSET (Dirs \X (0..MaxSubs))]
    BY <2>3 DEF HandshakeDone, Types, WatchTypes
  <2> QED
    BY <2>1, <2>2, <2>4 DEF HandshakeDone, Types, WatchTypes
<1>5. ASSUME NEW s \in Streams, HandshakeFails(s) PROVE WatchTypes'
  BY <1>5, StreamAssumption DEF HandshakeFails, RejectReady, connection, calls, clients,
     watcherHub, Types, WatchTypes, RpcTypes, Streams
<1>6. ASSUME NEW s \in Streams, RewatchUnsendable(s) PROVE WatchTypes'
  BY <1>6, StreamAssumption DEF RewatchUnsendable, Forget, connection, calls, clients,
     watcherHub, Types, WatchTypes, RpcTypes, Streams
<1>7. ASSUME NEW s \in Streams, Rewatched(s) PROVE WatchTypes'
  <2> USE <1>7
  <2>1. PICK c \in Callers, d \in Dirs :
           /\ name' = name \/ name' = [name EXCEPT ![d] = rpcId[c]]
           /\ unwatching' = unwatching \/ unwatching' = unwatching \cup {rpcId[c]}
           /\ UNCHANGED <<watch, listed>>
    BY RewatchedShape
  <2>2. todo' \in [Streams -> SUBSET (Dirs \X (0..MaxSubs))]
    BY DEF Rewatched, RewatchAnswered, Types, WatchTypes
  <2>3. rpcId[c] \in 0..MaxSubs
    BY DEF Types, RpcTypes
  <2> QED
    BY <2>1, <2>2, <2>3 DEF Types, WatchTypes
<1>8. ASSUME NEW s \in Streams, RewatchFails(s) PROVE WatchTypes'
  BY <1>8, StreamAssumption DEF RewatchFails, Forget, connection, clients, watcherHub,
     Types, WatchTypes, RpcTypes, Streams
<1>9. ASSUME NEW d \in Dirs, Watch(d) PROVE WatchTypes'
  BY <1>9, StreamAssumption DEF Watch, Send, connection, tasks, clients, watcherHub, Types,
     WatchTypes, RpcTypes, Streams
<1>10. ASSUME NEW d \in Dirs, Watched(d) PROVE WatchTypes'
  <2> USE <1>10
  <2>1. PICK c \in Callers :
           /\ name' = [name EXCEPT ![d] = rpcId[c]] /\ listed' = listed \cup {d}
           /\ watch' = [watch EXCEPT ![d] = "active"] /\ UNCHANGED unwatching
    BY WatchedShape
  <2>2. rpcId[c] \in 0..MaxSubs /\ UNCHANGED todo
    BY DEF Types, RpcTypes, Watched, tasks
  <2> QED
    BY <2>1, <2>2 DEF Types, WatchTypes
<1>11. ASSUME NEW d \in Dirs, WatchFails(d) PROVE WatchTypes'
  BY <1>11, StreamAssumption DEF WatchFails, connection, tasks, clients, watcherHub, Types,
     WatchTypes, RpcTypes, Streams
<1>12. ASSUME NEW d \in Dirs, Unsubscribe(d) PROVE WatchTypes'
  <2> USE <1>12
  <2>1. name[d] \in 0..MaxSubs
    BY DEF Types, WatchTypes
  <2>2. unwatching' \subseteq 0..MaxSubs
    BY <2>1 DEF Unsubscribe, Types, WatchTypes
  <2> QED
    BY <2>2 DEF Unsubscribe, tasks, Types, WatchTypes
<1>13. ASSUME NEW i \in Ids, Unwatch(i) PROVE WatchTypes'
  BY <1>13, StreamAssumption DEF Unwatch, connection, subs, tasks, calls, Types,
     WatchTypes, RpcTypes, Streams
<1>14. ASSUME NEW i \in Ids, UnwatchLost(i) PROVE WatchTypes'
  BY <1>14, StreamAssumption DEF UnwatchLost, connection, subs, tasks, calls, clients,
     watcherHub, Types, WatchTypes, RpcTypes, Streams
<1>15. CASE UNCHANGED <<watch, listed, name, todo, unwatching>>
  BY <1>15, StreamAssumption DEF Types, WatchTypes, RpcTypes, Streams
<1> QED
  BY <1>1, <1>2, <1>3, <1>4, <1>5, <1>6, <1>7, <1>8, <1>9, <1>10, <1>11, <1>12, <1>13,
     <1>14, <1>15, WhoMoves

\* the RPCs,
LEMMA RpcTypesStep ==
    ASSUME Types, [Next]_vars
    PROVE  RpcTypes'
<1>1. CASE Restart
  BY <1>1 DEF Restart, Types, RpcTypes
<1>2. ASSUME NEW s \in Streams, HandshakeDone(s) PROVE RpcTypes'
  <2> USE <1>2
  <2>1. CASE ready = "pending"
    <3>1. PICK callers : Send(callers)
      BY <2>1 DEF HandshakeDone, ResolveReady
    <3> QED
      BY <3>1, SendTypes DEF HandshakeDone, Types, RpcTypes
  <2>2. CASE ready # "pending"
    BY <2>2 DEF HandshakeDone, ResolveReady, Types, RpcTypes
  <2> QED
    BY <2>1, <2>2
<1>3. ASSUME NEW s \in Streams, Rewatch(s) PROVE RpcTypes'
  <2>1. PICK callers : Send(callers)
    BY <1>3 DEF Rewatch
  <2> QED
    BY <1>3, <2>1, SendTypes DEF Rewatch, Types, RpcTypes
<1>4. ASSUME NEW s \in Streams, Rewatched(s) PROVE RpcTypes'
  <2>1. PICK c \in Callers, d \in Dirs :
           /\ rpc' = [rpc EXCEPT ![c] = "none"]
           /\ askedOn' = askedOn \/ askedOn' = [askedOn EXCEPT ![d] = sentOn[c]]
           /\ UNCHANGED <<rpcId, sentOn>>
    BY <1>4, RewatchedShape
  <2> QED
    BY <2>1 DEF Types, RpcTypes
<1>5. ASSUME NEW d \in Dirs, Watch(d) PROVE RpcTypes'
  <2>1. PICK callers : Send(callers)
    BY <1>5 DEF Watch
  <2> QED
    BY <1>5, <2>1, SendTypes DEF Watch, Types, RpcTypes
<1>6. ASSUME NEW d \in Dirs, Watched(d) PROVE RpcTypes'
  <2>1. PICK c \in Callers :
           /\ rpc' = [rpc EXCEPT ![c] = "none"]
           /\ askedOn' = [askedOn EXCEPT ![d] = sentOn[c]]
           /\ UNCHANGED <<rpcId, sentOn>>
    BY <1>6, WatchedShape
  <2> QED
    BY <2>1 DEF Types, RpcTypes
<1>7. ASSUME NEW c \in Callers, HubWatches(c) PROVE RpcTypes'
  <2>1. Len(dirOf) + 1 \in 0..MaxSubs
    BY <1>7, HubWatchesShape DEF Ids
  <2> QED
    BY <1>7, <2>1, HubWatchesShape DEF HubWatches, Types, RpcTypes
<1>8. ASSUME NEW c \in Callers, HubRefuses(c) \/ Tracks(c) PROVE RpcTypes'
  BY <1>8 DEF HubRefuses, Tracks, Types, RpcTypes
<1>9. CASE UNCHANGED <<rpc, rpcId, sentOn, askedOn>>
  BY <1>9 DEF Types, RpcTypes
<1> QED
  BY <1>1, <1>2, <1>3, <1>4, <1>5, <1>6, <1>7, <1>8, <1>9, WhoMoves

\* the network and the daemon.
LEMMA DaemonTypesStep ==
    ASSUME Types, IdsGiven, [Next]_vars
    PROVE  DaemonTypes'
<1>1. CASE Dispose
  BY <1>1, StreamAssumption DEF Dispose, calls, clients, watcherHub, Types, DaemonTypes,
     RpcTypes, PageTypes, WatchTypes, Streams, Ids
<1>2. CASE Restart
  BY <1>2, StreamAssumption DEF Restart, connection, subs, tasks, Types, DaemonTypes,
     RpcTypes, PageTypes, WatchTypes, Streams, Ids
<1>3. ASSUME NEW s \in Streams, Registers(s) PROVE DaemonTypes'
  BY <1>3, StreamAssumption DEF Registers, subs, tasks, calls, watcherHub, Types, DaemonTypes,
     RpcTypes, PageTypes, WatchTypes, Streams, Ids
<1>4. ASSUME NEW s \in Streams, Breaks(s) PROVE DaemonTypes'
  BY <1>4, StreamAssumption DEF Breaks, connection, subs, tasks, calls, clients,
     watcherHub, Types, DaemonTypes, RpcTypes, PageTypes, WatchTypes, Streams,
     Ids
<1>5. ASSUME NEW s \in Streams, HandlerReturns(s) PROVE DaemonTypes'
  BY <1>5, StreamAssumption DEF HandlerReturns, connection, subs, tasks, calls, watcherHub,
     Types, DaemonTypes, RpcTypes, PageTypes, WatchTypes, Streams, Ids
<1>6. ASSUME NEW s \in Streams, Cleanup(s) PROVE DaemonTypes'
  BY <1>6, StreamAssumption DEF Cleanup, connection, subs, tasks, calls, Types,
     DaemonTypes, RpcTypes, PageTypes, WatchTypes, Streams, Ids
<1>7. ASSUME NEW d \in Dirs, Change(d) PROVE DaemonTypes'
  BY <1>7, StreamAssumption DEF Change, connection, subs, tasks, calls, clients, Types,
     DaemonTypes, RpcTypes, PageTypes, WatchTypes, Streams, Ids
<1>8. ASSUME NEW c \in Callers, HubWatches(c) PROVE DaemonTypes'
  <2> USE <1>8
  <2>1. /\ Len(dirOf) + 1 \in Ids /\ Len(dirOf') = Len(dirOf) + 1 /\ dirOf' \in Seq(Dirs)
        /\ hub' = hub \cup {Len(dirOf) + 1}
    BY HubWatchesShape
  <2>2. hub' \subseteq Ids
    BY <2>1 DEF Types, DaemonTypes
  <2>3. Len(dirOf') <= MaxSubs
    BY <2>1 DEF Ids
  <2> QED
    BY <2>1, <2>2, <2>3 DEF HubWatches, clients, Types, DaemonTypes
<1>9. ASSUME NEW c \in Callers, Tracks(c) PROVE DaemonTypes'
  <2> USE <1>9
  <2>1. rpcId[c] \in Given
    BY DEF Tracks, IdsGiven, Answering
  <2>2. rpcId[c] \in Ids
    BY <2>1, StreamAssumption DEF Given, Ids, Types, DaemonTypes
  <2> QED
    BY <2>2, TracksShape DEF Tracks, watcherHub, Types, DaemonTypes
<1>10. ASSUME NEW i \in Ids, Unwatch(i) PROVE DaemonTypes'
  BY <1>10, StreamAssumption DEF Unwatch, connection, subs, tasks, calls, Types,
     DaemonTypes, RpcTypes, PageTypes, WatchTypes, Streams, Ids
<1>11. ASSUME NEW i \in Ids, Flush(i) PROVE DaemonTypes'
  <2> USE <1>11
  <2>1. line' \in [Streams -> SUBSET Ids]
    BY DEF Flush, Types, DaemonTypes
  <2> QED
    BY <2>1 DEF Flush, clients, Types, DaemonTypes
<1>12. ASSUME NEW i \in Ids, RunReturns(i) PROVE DaemonTypes'
  BY <1>12, StreamAssumption DEF RunReturns, connection, subs, tasks, calls, clients,
     Types, DaemonTypes, RpcTypes, PageTypes, WatchTypes, Streams, Ids
<1>13. ASSUME NEW i \in Ids, Deliver(i) PROVE DaemonTypes'
  <2> USE <1>13
  <2>1. line' \in [Streams -> SUBSET Ids]
    BY DEF Deliver, Types, DaemonTypes
  <2>2. <<0, 0>> \in (0..MaxSubs) \X (0..MaxStreams)
    BY StreamAssumption
  <2>3. owed' \in [Dirs -> (0..MaxSubs) \X (0..MaxStreams)]
    BY <2>2 DEF Deliver, Types, DaemonTypes
  <2> QED
    BY <2>1, <2>3 DEF Deliver, clients, Types, DaemonTypes
<1>14. CASE UNCHANGED <<broken, line, registered, handler, tracked, hub, dirOf, pend, owed>>
  BY <1>14, StreamAssumption DEF Types, DaemonTypes, RpcTypes, PageTypes, WatchTypes, Streams, Ids
<1> QED
  BY <1>1, <1>2, <1>3, <1>4, <1>5, <1>6, <1>7, <1>8, <1>9, <1>10, <1>11, <1>12, <1>13,
     <1>14, WhoMoves

\* Streams open in order, and the page and the daemon know of the latest or of none.
LEMMA OrderStep ==
    ASSUME Types, Order, [Next]_vars
    PROVE  Order'
<1>1. CASE Connect
  BY <1>1 DEF Connect, subs, tasks, calls, clients, watcherHub, Types, PageTypes,
     DaemonTypes, Order, Connected, Latest, Opened, Streams
<1>2. CASE AsksAgain
  BY <1>2 DEF AsksAgain, subs, tasks, calls, clients, watcherHub, Types, PageTypes,
     DaemonTypes, Order, Connected, Latest, Opened, Streams
<1>3. CASE GivesUp
  BY <1>3 DEF GivesUp, RejectReady, CreateReadyPromise, tasks, calls, clients, watcherHub,
     Types, PageTypes, DaemonTypes, Order, Connected, Latest, Opened, Streams
<1>4. CASE Dispose
  BY <1>4 DEF Dispose, calls, clients, watcherHub, Types, PageTypes, DaemonTypes, Order,
     Connected, Latest, Opened, Streams
<1>5. CASE Restart
  BY <1>5 DEF Restart, connection, subs, tasks, Types, PageTypes, DaemonTypes, Order,
     Connected, Latest, Opened, Streams
<1>6. ASSUME NEW s \in Streams, Registers(s) PROVE Order'
  BY <1>6 DEF Registers, subs, tasks, calls, watcherHub, Types, PageTypes, DaemonTypes, Order,
     Connected, Latest, Opened, Streams
<1>7. ASSUME NEW s \in Streams, Breaks(s) PROVE Order'
  BY <1>7 DEF Breaks, connection, subs, tasks, calls, clients, watcherHub, Types,
     PageTypes, DaemonTypes, Order, Connected, Latest, Opened, Streams
<1>8. ASSUME NEW s \in Streams, HandlerReturns(s) PROVE Order'
  BY <1>8 DEF HandlerReturns, connection, subs, tasks, calls, watcherHub, Types, PageTypes,
     DaemonTypes, Order, Connected, Latest, Opened, Streams
<1>9. ASSUME NEW s \in Streams, Cleanup(s) PROVE Order'
  BY <1>9 DEF Cleanup, connection, subs, tasks, calls, Types, PageTypes, DaemonTypes,
     Order, Connected, Latest, Opened, Streams
<1>11. ASSUME NEW s \in Streams, Opens(s) PROVE Order'
  BY <1>11 DEF Opens, clients, Types, PageTypes, DaemonTypes, Order, Connected, Latest,
     Opened, Streams
<1>10. CASE UNCHANGED <<es, stream, registered, handler, broken>>
  BY <1>10 DEF Types, PageTypes, DaemonTypes, Order, Connected, Latest, Opened, Streams
<1> QED
  BY <1>1, <1>2, <1>3, <1>4, <1>5, <1>6, <1>7, <1>8, <1>9, <1>10, <1>11, WhoMoves

\* What was sent was sent on a stream that had opened.
LEMMA SentToStep ==
    ASSUME Types, Order, SentTo, [Next]_vars
    PROVE  SentTo'
<1>1. CASE Dispose
  BY <1>1 DEF Dispose, calls, clients, watcherHub, Types, PageTypes, WatchTypes, RpcTypes,
     DaemonTypes, Order, Connected, Latest, SentTo, Opened, Streams
<1>2. CASE Restart
  BY <1>2 DEF Restart, connection, subs, tasks, Types, PageTypes, WatchTypes, RpcTypes,
     DaemonTypes, Order, Connected, Latest, SentTo, Opened, Streams
<1>3. ASSUME NEW s \in Streams, Registers(s) PROVE SentTo'
  BY <1>3 DEF Registers, subs, tasks, calls, watcherHub, Types, PageTypes, WatchTypes, RpcTypes,
     DaemonTypes, Order, Connected, Latest, SentTo, Opened, Streams
<1>4. ASSUME NEW s \in Streams, HandlerReturns(s) PROVE SentTo'
  BY <1>4 DEF HandlerReturns, connection, subs, tasks, calls, watcherHub, Types, PageTypes,
     WatchTypes, RpcTypes, DaemonTypes, Order, Connected, Latest, SentTo, Opened, Streams
<1>5. ASSUME NEW s \in Streams, Cleanup(s) PROVE SentTo'
  BY <1>5 DEF Cleanup, connection, subs, tasks, calls, Types, PageTypes, WatchTypes,
     RpcTypes, DaemonTypes, Order, Connected, Latest, SentTo, Opened, Streams
<1>6. ASSUME NEW s \in Streams, HandshakeDone(s) PROVE SentTo'
  <2> USE <1>6
  <2>1. Connected => stream \in Streams /\ Opened(stream)
    BY DEF Order, Latest
  <2>2. UNCHANGED <<handler, listed, askedOn>>
    BY DEF HandshakeDone, clients
  <2>3. \A c \in Callers : \/ rpc'[c] = rpc[c] /\ sentOn'[c] = sentOn[c]
                           \/ Connected /\ rpc'[c] = "sent" /\ sentOn'[c] = stream
    BY HandshakeShape
  <2> QED
    BY <2>1, <2>2, <2>3 DEF SentTo, Opened
<1>7. ASSUME NEW s \in Streams, Rewatch(s) PROVE SentTo'
  BY <1>7 DEF Rewatch, Send, connection, subs, tasks, clients, watcherHub, Types,
     PageTypes, WatchTypes, RpcTypes, DaemonTypes, Order, Connected, Latest, SentTo,
     Opened, Streams
<1>8. ASSUME NEW s \in Streams, RewatchUnsendable(s) PROVE SentTo'
  BY <1>8 DEF RewatchUnsendable, Forget, connection, calls, clients, watcherHub, Types,
     PageTypes, WatchTypes, RpcTypes, DaemonTypes, Order, Connected, Latest, SentTo,
     Opened, Streams
<1>9. ASSUME NEW s \in Streams, Rewatched(s) PROVE SentTo'
  <2> USE <1>9
  <2>1. PICK c \in Callers, d \in Dirs :
           /\ rpc[c] = "answered" /\ rpc' = [rpc EXCEPT ![c] = "none"]
           /\ askedOn' = askedOn \/ askedOn' = [askedOn EXCEPT ![d] = sentOn[c]]
           /\ UNCHANGED <<listed, sentOn>>
    BY RewatchedShape
  <2>2. sentOn[c] \in Streams /\ Opened(sentOn[c]) /\ UNCHANGED handler
    BY <2>1 DEF SentTo, Rewatched, RewatchAnswered, clients
  <2>3. \A e \in Callers : rpc'[e] # "none" => rpc[e] # "none"
    BY <2>1 DEF Types, RpcTypes
  <2>4. \A e \in listed : askedOn'[e] = askedOn[e] \/ askedOn'[e] = sentOn[c]
    BY <2>1 DEF Types, RpcTypes, WatchTypes
  <2> QED
    BY <2>1, <2>2, <2>3, <2>4 DEF SentTo, Opened
<1>10. ASSUME NEW s \in Streams, RewatchFails(s) PROVE SentTo'
  BY <1>10 DEF RewatchFails, Forget, connection, calls, clients, watcherHub, SentTo, Opened
<1>11. ASSUME NEW d \in Dirs, Watch(d) PROVE SentTo'
  BY <1>11 DEF Watch, Send, connection, tasks, clients, watcherHub, Types, PageTypes,
     WatchTypes, RpcTypes, DaemonTypes, Order, Connected, Latest, SentTo, Opened, Streams
<1>12. ASSUME NEW d \in Dirs, Watched(d) PROVE SentTo'
  <2> USE <1>12
  <2>1. PICK c \in Callers :
           /\ rpc[c] = "answered" /\ rpc' = [rpc EXCEPT ![c] = "none"]
           /\ askedOn' = [askedOn EXCEPT ![d] = sentOn[c]]
           /\ listed' = listed \cup {d} /\ UNCHANGED sentOn
    BY WatchedShape
  <2>2. sentOn[c] \in Streams /\ Opened(sentOn[c]) /\ UNCHANGED handler
    BY <2>1 DEF SentTo, Watched, clients
  <2>3. \A e \in Callers : rpc'[e] # "none" => rpc[e] # "none"
    BY <2>1 DEF Types, RpcTypes
  <2>4. \A e \in listed' : (e \in listed /\ askedOn'[e] = askedOn[e]) \/ askedOn'[e] = sentOn[c]
    BY <2>1 DEF Types, RpcTypes, WatchTypes
  <2> QED
    BY <2>1, <2>2, <2>3, <2>4 DEF SentTo, Opened
<1>14. ASSUME NEW d \in Dirs, Unsubscribe(d) PROVE SentTo'
  BY <1>14 DEF Unsubscribe, connection, tasks, calls, clients, watcherHub, Types,
     PageTypes, WatchTypes, RpcTypes, DaemonTypes, Order, Connected, Latest, SentTo,
     Opened, Streams
<1>15. ASSUME NEW c \in Callers, HubWatches(c) PROVE SentTo'
  BY <1>15 DEF HubWatches, connection, subs, tasks, clients, Types, PageTypes, WatchTypes,
     RpcTypes, DaemonTypes, Order, Connected, Latest, SentTo, Opened, Streams
<1>16. ASSUME NEW c \in Callers, HubRefuses(c) PROVE SentTo'
  BY <1>16 DEF HubRefuses, connection, subs, tasks, clients, watcherHub, Types, PageTypes,
     WatchTypes, RpcTypes, DaemonTypes, Order, Connected, Latest, SentTo, Opened, Streams
<1>17. ASSUME NEW c \in Callers, Tracks(c) PROVE SentTo'
  BY <1>17 DEF Tracks, connection, subs, tasks, watcherHub, Types, PageTypes, WatchTypes,
     RpcTypes, DaemonTypes, Order, Connected, Latest, SentTo, Opened, Streams
<1>18. CASE UNCHANGED <<rpc, sentOn, listed, askedOn, handler>>
  BY <1>18 DEF Types, PageTypes, WatchTypes, RpcTypes, DaemonTypes, Order, Connected,
     Latest, SentTo, Opened, Streams
<1> QED
  BY <1>1, <1>2, <1>3, <1>4, <1>5, <1>6, <1>7, <1>8, <1>9, <1>10, <1>11, <1>12,
     <1>14, <1>15, <1>16, <1>17, <1>18, WhoMoves

\* Ids come from the hub.
LEMMA IdsGivenStep ==
    ASSUME Types, ListedWatches, IdsGiven, [Next]_vars
    PROVE  IdsGiven'
<1>1. CASE ConnectThrows
  BY <1>1 DEF ConnectThrows, RejectReady, tasks, calls, clients, watcherHub, Types,
     WatchTypes, RpcTypes, DaemonTypes, ListedWatches, IdsGiven, Given, Answering, Doomed
<1>2. CASE GivesUp
  BY <1>2 DEF GivesUp, RejectReady, CreateReadyPromise, tasks, calls, clients, watcherHub,
     Types, WatchTypes, RpcTypes, DaemonTypes, ListedWatches, IdsGiven, Given, Answering,
     Doomed
<1>3. CASE Dispose
  BY <1>3 DEF Dispose, calls, clients, watcherHub, Types, WatchTypes, RpcTypes,
     DaemonTypes, ListedWatches, IdsGiven, Given, Answering, Doomed
<1>4. CASE Restart
  BY <1>4 DEF Restart, connection, subs, tasks, Types, WatchTypes, RpcTypes, DaemonTypes,
     ListedWatches, IdsGiven, Given, Answering, Doomed
<1>5. ASSUME NEW s \in Streams, Cleanup(s) PROVE IdsGiven'
  BY <1>5 DEF Cleanup, connection, subs, tasks, calls, Types, WatchTypes, RpcTypes,
     DaemonTypes, ListedWatches, IdsGiven, Given, Answering, Doomed
<1>6. ASSUME NEW s \in Streams, HandshakeDone(s) PROVE IdsGiven'
  BY <1>6, HandshakeShape DEF HandshakeDone, connection, clients, watcherHub, Types,
     PageTypes, WatchTypes, RpcTypes, DaemonTypes, IdsGiven, Given, Answering
<1>7. ASSUME NEW s \in Streams, HandshakeFails(s) PROVE IdsGiven'
  BY <1>7 DEF HandshakeFails, RejectReady, connection, calls, clients, watcherHub, Types,
     WatchTypes, RpcTypes, DaemonTypes, ListedWatches, IdsGiven, Given, Answering, Doomed
<1>8. ASSUME NEW s \in Streams, Rewatch(s) PROVE IdsGiven'
  BY <1>8 DEF Rewatch, Send, connection, subs, tasks, clients, watcherHub, Types,
     WatchTypes, RpcTypes, DaemonTypes, ListedWatches, IdsGiven, Given, Answering, Doomed
<1>9. ASSUME NEW s \in Streams, RewatchUnsendable(s) PROVE IdsGiven'
  BY <1>9 DEF RewatchUnsendable, Forget, connection, calls, clients, watcherHub, Types,
     WatchTypes, RpcTypes, DaemonTypes, ListedWatches, IdsGiven, Given, Answering, Doomed
<1>10. ASSUME NEW s \in Streams, Rewatched(s) PROVE IdsGiven'
  <2> USE <1>10
  <2>1. PICK c \in Callers, d \in Dirs :
           /\ rpc[c] = "answered" /\ rpc' = [rpc EXCEPT ![c] = "none"]
           /\ name' = name \/ name' = [name EXCEPT ![d] = rpcId[c]]
           /\ unwatching' = unwatching \/ unwatching' = unwatching \cup {rpcId[c]}
           /\ UNCHANGED <<watch, unwatches, rpcId, dirOf, hub, tracked>>
    BY RewatchedShape
  <2>2. rpcId[c] \in Given
    BY <2>1 DEF IdsGiven, Answering
  <2>3. \A e \in Callers : Answering(e)' => Answering(e)
    BY <2>1 DEF Answering, Types, RpcTypes
  <2>4. \A e \in Dirs : name'[e] = name[e] \/ name'[e] = rpcId[c]
    BY <2>1 DEF Types, WatchTypes
  <2>5. Doomed' \subseteq Doomed \cup {rpcId[c]}
    BY <2>1 DEF Doomed
  <2> QED
    BY <2>1, <2>2, <2>3, <2>4, <2>5 DEF IdsGiven, Given
<1>11. ASSUME NEW s \in Streams, RewatchFails(s) PROVE IdsGiven'
  BY <1>11 DEF RewatchFails, Forget, calls, clients, watcherHub, IdsGiven, Given, Answering,
     Doomed
<1>12. ASSUME NEW d \in Dirs, Watch(d) PROVE IdsGiven'
  BY <1>12 DEF Watch, Send, connection, tasks, clients, watcherHub, Types, WatchTypes,
     RpcTypes, DaemonTypes, ListedWatches, IdsGiven, Given, Answering, Doomed
<1>13. ASSUME NEW d \in Dirs, Watched(d) PROVE IdsGiven'
  <2> USE <1>13
  <2>1. PICK c \in Callers :
           /\ rpc[c] = "answered" /\ rpc' = [rpc EXCEPT ![c] = "none"]
           /\ name' = [name EXCEPT ![d] = rpcId[c]]
           /\ watch' = [watch EXCEPT ![d] = "active"]
           /\ UNCHANGED <<unwatching, unwatches, rpcId, dirOf, hub, tracked>>
    BY WatchedShape
  <2>2. rpcId[c] \in Given
    BY <2>1 DEF IdsGiven, Answering
  <2>3. \A e \in Callers : Answering(e)' => Answering(e)
    BY <2>1 DEF Answering, Types, RpcTypes
  <2>4. \A e \in Dirs : name'[e] = IF e = d THEN rpcId[c] ELSE name[e]
    BY <2>1 DEF Types, WatchTypes
  <2>5. \A e \in Dirs : watch'[e] = "active" => watch[e] = "active" \/ e = d
    BY <2>1 DEF Types, WatchTypes
  <2> QED
    BY <2>1, <2>2, <2>3, <2>4, <2>5 DEF IdsGiven, Given, Doomed
<1>14. ASSUME NEW d \in Dirs, WatchFails(d) PROVE IdsGiven'
  BY <1>14 DEF WatchFails, calls, clients, watcherHub, Types, WatchTypes, IdsGiven, Given,
     Answering, Doomed
<1>15. ASSUME NEW d \in Dirs, Unsubscribe(d) PROVE IdsGiven'
  <2> USE <1>15
  <2>1. name[d] \in Given
    BY DEF Unsubscribe, IdsGiven
  <2>2. UNCHANGED <<rpc, rpcId, name, dirOf, hub, tracked>>
    BY DEF Unsubscribe, calls, clients, watcherHub
  <2>3. Doomed' \subseteq Doomed \cup {name[d]}
    BY DEF Unsubscribe, Doomed
  <2>4. \A e \in Dirs : watch'[e] = "active" => watch[e] = "active"
    BY DEF Unsubscribe, Types, WatchTypes
  <2> QED
    BY <2>1, <2>2, <2>3, <2>4 DEF IdsGiven, Given, Answering
<1>16. ASSUME NEW c \in Callers, HubWatches(c) PROVE IdsGiven'
  <2> USE <1>16
  <2>1. /\ Given \subseteq Given' /\ Len(dirOf) + 1 \in Given'
    BY HubWatchesShape DEF Given
  <2>2. \A e \in Callers : Answering(e)' => rpcId'[e] \in Given'
    BY <2>1, HubWatchesShape DEF Types, RpcTypes, IdsGiven, Answering
  <2>3. UNCHANGED <<watch, name, unwatching, unwatches, tracked>> /\ hub' = hub \cup {Len(dirOf) + 1}
    BY HubWatchesShape DEF HubWatches, subs, clients
  <2> QED
    BY <2>1, <2>2, <2>3 DEF IdsGiven, Doomed
<1>17. ASSUME NEW c \in Callers, HubRefuses(c) PROVE IdsGiven'
  BY <1>17 DEF HubRefuses, connection, subs, tasks, clients, watcherHub, Types, WatchTypes,
     RpcTypes, DaemonTypes, ListedWatches, IdsGiven, Given, Answering, Doomed
<1>18. ASSUME NEW c \in Callers, Tracks(c) PROVE IdsGiven'
  <2> USE <1>18
  <2>1. rpcId[c] \in Given
    BY DEF Tracks, IdsGiven, Answering
  <2>2. rpcId[c] \in Ids
    BY <2>1, StreamAssumption DEF Given, Ids, Types, DaemonTypes
  <2>3. \A e \in Callers : Answering(e)' => Answering(e)
    BY <2>2, TracksShape DEF Types, RpcTypes, Answering
  <2>4. UNCHANGED <<rpcId, watch, name, unwatching, unwatches, hub, dirOf>>
    BY DEF Tracks, subs, watcherHub
  <2>5. \A s \in Streams : tracked'[s] \subseteq Given
    BY <2>1, <2>2, TracksShape DEF IdsGiven
  <2> QED
    BY <2>3, <2>4, <2>5 DEF IdsGiven, Given, Doomed
<1>19. ASSUME NEW i \in Ids, Unwatch(i) PROVE IdsGiven'
  BY <1>19 DEF Unwatch, connection, subs, tasks, calls, Types, WatchTypes, RpcTypes,
     DaemonTypes, ListedWatches, IdsGiven, Given, Answering, Doomed
<1>20. ASSUME NEW i \in Ids, UnwatchLost(i) PROVE IdsGiven'
  BY <1>20 DEF UnwatchLost, connection, subs, tasks, calls, clients, watcherHub, Types,
     WatchTypes, RpcTypes, DaemonTypes, ListedWatches, IdsGiven, Given, Answering, Doomed
<1>21. CASE UNCHANGED <<rpc, rpcId, watch, listed, name, unwatching, unwatches, hub, tracked, dirOf>>
  BY <1>21 DEF Types, WatchTypes, RpcTypes, DaemonTypes, ListedWatches, IdsGiven, Given,
     Answering, Doomed
<1> QED
  BY <1>1, <1>2, <1>3, <1>4, <1>5, <1>6, <1>7, <1>8, <1>9, <1>10, <1>11, <1>12, <1>13,
     <1>14, <1>15, <1>16, <1>17, <1>18, <1>19, <1>20, <1>21, WhoMoves

\* An id is on its way to one caller, or names one watch, or is to be unwatched.
LEMMA OneOwnerStep ==
    ASSUME Types, ListedWatches, IdsGiven, OneOwner, [Next]_vars
    PROVE  OneOwner'
<1>1. CASE ConnectThrows
  BY <1>1, StreamAssumption DEF ConnectThrows, RejectReady, tasks, calls, clients,
     watcherHub, Types, WatchTypes, RpcTypes, ListedWatches, IdsGiven, OneOwner, Given,
     Answering, Doomed
<1>2. CASE GivesUp
  BY <1>2, StreamAssumption DEF GivesUp, RejectReady, CreateReadyPromise, tasks, calls,
     clients, watcherHub, Types, WatchTypes, RpcTypes, ListedWatches, IdsGiven, OneOwner,
     Given, Answering, Doomed
<1>3. CASE Dispose
  BY <1>3, StreamAssumption DEF Dispose, calls, clients, watcherHub, Types, WatchTypes,
     RpcTypes, ListedWatches, IdsGiven, OneOwner, Given, Answering, Doomed
<1>4. CASE Restart
  BY <1>4, StreamAssumption DEF Restart, connection, subs, tasks, Types, WatchTypes,
     RpcTypes, ListedWatches, IdsGiven, OneOwner, Given, Answering, Doomed
<1>5. ASSUME NEW s \in Streams, HandshakeDone(s) PROVE OneOwner'
  <2> USE <1>5
  <2>1. UNCHANGED <<rpcId, name, listed>>
    BY DEF HandshakeDone
  <2>2. \A c \in Callers : Answering(c)' => Answering(c)
    BY HandshakeShape DEF Answering
  <2>3. Doomed' \subseteq Doomed
    BY HandshakeShape
  <2> QED
    BY <2>1, <2>2, <2>3 DEF OneOwner
<1>6. ASSUME NEW s \in Streams, HandshakeFails(s) PROVE OneOwner'
  BY <1>6, StreamAssumption DEF HandshakeFails, RejectReady, connection, calls, clients,
     watcherHub, Types, WatchTypes, RpcTypes, ListedWatches, IdsGiven, OneOwner, Given,
     Answering, Doomed
<1>7. ASSUME NEW s \in Streams, Rewatch(s) PROVE OneOwner'
  BY <1>7, StreamAssumption DEF Rewatch, Send, connection, subs, tasks, clients,
     watcherHub, Types, WatchTypes, RpcTypes, ListedWatches, IdsGiven, OneOwner, Given,
     Answering, Doomed
<1>8. ASSUME NEW s \in Streams, RewatchUnsendable(s) PROVE OneOwner'
  BY <1>8, StreamAssumption DEF RewatchUnsendable, Forget, connection, calls, clients,
     watcherHub, Types, WatchTypes, RpcTypes, ListedWatches, IdsGiven, OneOwner, Given,
     Answering, Doomed
<1>9. ASSUME NEW s \in Streams, Rewatched(s) PROVE OneOwner'
  <2> USE <1>9
  <2>1. PICK c \in Callers, d \in Dirs :
           /\ rpc[c] = "answered" /\ rpc' = [rpc EXCEPT ![c] = "none"]
           /\ \/ /\ name' = [name EXCEPT ![d] = rpcId[c]]
                 /\ UNCHANGED unwatching
              \/ /\ unwatching' = unwatching \cup {rpcId[c]}
                 /\ UNCHANGED name
           /\ UNCHANGED <<listed, unwatches, rpcId>>
    BY RewatchedShape
  <2>2. /\ Answering(c)
        /\ \A e \in Callers : Answering(e)' => Answering(e) /\ e # c
    BY <2>1 DEF Answering, Types, RpcTypes
  <2>3. rpcId[c] # 0 /\ \A e \in Dirs : name[e] # rpcId[c]
    BY <2>2 DEF IdsGiven, OneOwner, Given
  <2>4. /\ rpcId[c] \notin Doomed
        /\ \A e \in Callers : Answering(e) /\ e # c => rpcId[e] # rpcId[c]
    BY <2>2 DEF OneOwner
  <2>5. listed \subseteq Dirs
    BY DEF Types, WatchTypes
  <2>6. CASE name' = [name EXCEPT ![d] = rpcId[c]] /\ UNCHANGED unwatching
    <3>1. \A e \in Dirs : name'[e] = IF e = d THEN rpcId[c] ELSE name[e]
      BY <2>6 DEF Types, WatchTypes
    <3>2. Doomed' = Doomed
      BY <2>1, <2>6 DEF Doomed
    <3> QED
      BY <2>1, <2>2, <2>3, <2>4, <2>5, <3>1, <3>2 DEF OneOwner
  <2>7. CASE unwatching' = unwatching \cup {rpcId[c]} /\ UNCHANGED name
    <3>1. Doomed' = Doomed \cup {rpcId[c]}
      BY <2>1, <2>7 DEF Doomed
    <3> QED
      BY <2>1, <2>2, <2>3, <2>4, <2>5, <2>7, <3>1 DEF OneOwner
  <2> QED
    BY <2>1, <2>6, <2>7
<1>10. ASSUME NEW s \in Streams, RewatchFails(s) PROVE OneOwner'
  BY <1>10 DEF RewatchFails, Forget, calls, OneOwner, Answering, Doomed
<1>11. ASSUME NEW d \in Dirs, Watch(d) PROVE OneOwner'
  BY <1>11, StreamAssumption DEF Watch, Send, connection, tasks, clients, watcherHub,
     Types, WatchTypes, RpcTypes, ListedWatches, IdsGiven, OneOwner, Given, Answering,
     Doomed
<1>12. ASSUME NEW d \in Dirs, Watched(d) PROVE OneOwner'
  <2> USE <1>12
  <2>1. PICK c \in Callers :
           /\ rpc[c] = "answered" /\ rpc' = [rpc EXCEPT ![c] = "none"]
           /\ name' = [name EXCEPT ![d] = rpcId[c]]
           /\ listed' = listed \cup {d}
           /\ UNCHANGED <<unwatching, unwatches, rpcId>>
    BY WatchedShape
  <2>2. /\ Answering(c)
        /\ \A e \in Callers : Answering(e)' => Answering(e) /\ e # c
    BY <2>1 DEF Answering, Types, RpcTypes
  <2>3. rpcId[c] # 0 /\ \A e \in Dirs : name[e] # rpcId[c]
    BY <2>2 DEF IdsGiven, OneOwner, Given
  <2>4. /\ rpcId[c] \notin Doomed
        /\ \A e \in Callers : Answering(e) /\ e # c => rpcId[e] # rpcId[c]
    BY <2>2 DEF OneOwner
  <2>5. listed \subseteq Dirs
    BY DEF Types, WatchTypes
  <2>6. \A e \in Dirs : name'[e] = IF e = d THEN rpcId[c] ELSE name[e]
    BY <2>1 DEF Types, WatchTypes
  <2>7. Doomed' = Doomed
    BY <2>1 DEF Doomed
  <2> QED
    BY <2>1, <2>2, <2>3, <2>4, <2>5, <2>6, <2>7 DEF OneOwner
<1>13. ASSUME NEW d \in Dirs, WatchFails(d) PROVE OneOwner'
  BY <1>13 DEF WatchFails, calls, OneOwner, Answering, Doomed
<1>14. ASSUME NEW d \in Dirs, Unsubscribe(d) PROVE OneOwner'
  BY <1>14, StreamAssumption DEF Unsubscribe, connection, tasks, calls, clients,
     watcherHub, Types, WatchTypes, RpcTypes, ListedWatches, IdsGiven, OneOwner, Given,
     Answering, Doomed
<1>15. ASSUME NEW c \in Callers, HubWatches(c) PROVE OneOwner'
  BY <1>15, StreamAssumption DEF HubWatches, connection, subs, tasks, clients, Types,
     WatchTypes, RpcTypes, ListedWatches, IdsGiven, OneOwner, Given, Answering, Doomed
<1>16. ASSUME NEW c \in Callers, HubRefuses(c) PROVE OneOwner'
  BY <1>16, StreamAssumption DEF HubRefuses, connection, subs, tasks, clients, watcherHub,
     Types, WatchTypes, RpcTypes, ListedWatches, IdsGiven, OneOwner, Given, Answering,
     Doomed
<1>17. ASSUME NEW c \in Callers, Tracks(c) PROVE OneOwner'
  BY <1>17, StreamAssumption DEF Tracks, connection, subs, tasks, watcherHub, Types,
     WatchTypes, RpcTypes, ListedWatches, IdsGiven, OneOwner, Given, Answering, Doomed
<1>18. ASSUME NEW i \in Ids, Unwatch(i) PROVE OneOwner'
  BY <1>18, StreamAssumption DEF Unwatch, connection, subs, tasks, calls, Types,
     WatchTypes, RpcTypes, ListedWatches, IdsGiven, OneOwner, Given, Answering, Doomed
<1>19. ASSUME NEW i \in Ids, UnwatchLost(i) PROVE OneOwner'
  BY <1>19, StreamAssumption DEF UnwatchLost, connection, subs, tasks, calls, clients,
     watcherHub, Types, WatchTypes, RpcTypes, ListedWatches, IdsGiven, OneOwner, Given,
     Answering, Doomed
<1>20. CASE UNCHANGED <<rpc, rpcId, watch, listed, name, unwatching, unwatches, dirOf>>
  BY <1>20, StreamAssumption DEF Types, WatchTypes, RpcTypes, ListedWatches, IdsGiven,
     OneOwner, Given, Answering, Doomed
<1> QED
  BY <1>1, <1>2, <1>3, <1>4, <1>5, <1>6, <1>7, <1>8, <1>9, <1>10, <1>11, <1>12, <1>13,
     <1>14, <1>15, <1>16, <1>17, <1>18, <1>19, <1>20, WhoMoves

\* What was asked for on the present stream lives as long as that does.
LEMMA AskedAreAliveStep ==
    ASSUME Types, Order, ListedWatches, SentTo, IdsGiven, OneOwner, AskedAreAlive, [Next]_vars
    PROVE  AskedAreAlive'
<1>1. CASE Connect
  BY <1>1 DEF Connect, subs, tasks, calls, clients, watcherHub, Types, WatchTypes,
     RpcTypes, DaemonTypes, Order, ListedWatches, SentTo, IdsGiven, OneOwner,
     AskedAreAlive, Works, Latest, Opened, Alive, Given, Answering, Doomed, Streams
<1>2. CASE AsksAgain
  BY <1>2 DEF AsksAgain, subs, tasks, calls, clients, watcherHub, Types, WatchTypes,
     RpcTypes, DaemonTypes, Order, ListedWatches, SentTo, IdsGiven, OneOwner,
     AskedAreAlive, Works, Latest, Opened, Alive, Given, Answering, Doomed, Streams
<1>4. CASE Dispose
  BY <1>4 DEF Dispose, calls, clients, watcherHub, Types, WatchTypes, RpcTypes,
     DaemonTypes, Order, ListedWatches, SentTo, IdsGiven, OneOwner, AskedAreAlive, Works,
     Latest, Opened, Alive, Given, Answering, Doomed, Streams
<1>5. CASE Restart
  BY <1>5 DEF Restart, connection, subs, tasks, Types, WatchTypes, RpcTypes, DaemonTypes,
     Order, ListedWatches, SentTo, IdsGiven, OneOwner, AskedAreAlive, Works,
     Latest, Opened, Alive, Given, Answering, Doomed, Streams
<1>6. ASSUME NEW s \in Streams, Registers(s) PROVE AskedAreAlive'
  BY <1>6, ZenonT(60) DEF Registers, subs, tasks, calls, watcherHub, Types, WatchTypes, RpcTypes, DaemonTypes,
     Order, ListedWatches, SentTo, IdsGiven, OneOwner, AskedAreAlive, Works,
     Latest, Opened, Alive, Given, Answering, Doomed, Streams
<1>7. ASSUME NEW s \in Streams, Breaks(s) PROVE AskedAreAlive'
  BY <1>7 DEF Breaks, connection, subs, tasks, calls, clients, watcherHub, Types,
     WatchTypes, RpcTypes, DaemonTypes, Order, ListedWatches, SentTo, IdsGiven, OneOwner,
     AskedAreAlive, Works, Latest, Opened, Alive, Given, Answering, Doomed, Streams
<1>8. ASSUME NEW s \in Streams, Cleanup(s) PROVE AskedAreAlive'
  <2> USE <1>8
  <2>1. UNCHANGED <<es, stream, broken, rpc, rpcId, sentOn, listed, name, askedOn>>
    BY DEF Cleanup, connection, subs, calls
  <2>2. Works => s # stream
    BY DEF Cleanup, Works, Order
  <2>3. hub' = hub \ tracked[s] /\ \A r \in Streams : tracked'[r] \subseteq tracked[r]
    BY DEF Cleanup, Types, DaemonTypes
  <2>4. ASSUME NEW i, Works, Alive(i) PROVE Alive(i)'
    BY <2>1, <2>2, <2>3, <2>4 DEF Alive
  <2> QED
    BY <2>1, <2>4 DEF AskedAreAlive, Works, Answering
<1>9. ASSUME NEW s \in Streams, HandshakeDone(s) PROVE AskedAreAlive'
  BY <1>9, HandshakeShape DEF HandshakeDone, connection, clients, watcherHub, Types,
     PageTypes, WatchTypes, RpcTypes, DaemonTypes, AskedAreAlive, Alive, Works, Answering
<1>10. ASSUME NEW s \in Streams, Rewatch(s) PROVE AskedAreAlive'
  BY <1>10 DEF Rewatch, Send, connection, subs, tasks, clients, watcherHub, Types,
     WatchTypes, RpcTypes, DaemonTypes, Order, ListedWatches, SentTo, IdsGiven, OneOwner,
     AskedAreAlive, Works, Latest, Opened, Alive, Given, Answering, Doomed, Streams
<1>11. ASSUME NEW s \in Streams, RewatchUnsendable(s) PROVE AskedAreAlive'
  BY <1>11 DEF RewatchUnsendable, Forget, connection, calls, clients, watcherHub, Types,
     WatchTypes, RpcTypes, DaemonTypes, Order, ListedWatches, SentTo, IdsGiven, OneOwner,
     AskedAreAlive, Works, Latest, Opened, Alive, Given, Answering, Doomed, Streams
<1>12. ASSUME NEW s \in Streams, Rewatched(s) PROVE AskedAreAlive'
  <2> USE <1>12
  <2>1. PICK c \in Callers, d \in Dirs :
           /\ rpc[c] = "answered" /\ rpc' = [rpc EXCEPT ![c] = "none"]
           /\ \/ /\ name' = [name EXCEPT ![d] = rpcId[c]]
                 /\ askedOn' = [askedOn EXCEPT ![d] = sentOn[c]]
              \/ UNCHANGED <<name, askedOn>>
           /\ UNCHANGED <<listed, rpcId, sentOn, hub, tracked>>
    BY RewatchedShape
  <2>2. UNCHANGED <<stream, broken>> /\ listed \subseteq Dirs
    BY DEF Rewatched, RewatchAnswered, connection, Types, WatchTypes
  <2>3. Answering(c) /\ \A e \in Callers : Answering(e)' => Answering(e)
    BY <2>1 DEF Answering, Types, RpcTypes
  <2>4. \A e \in Dirs : \/ name'[e] = name[e] /\ askedOn'[e] = askedOn[e]
                        \/ name'[e] = rpcId[c] /\ askedOn'[e] = sentOn[c]
    BY <2>1 DEF Types, WatchTypes, RpcTypes
  <2>5. \A i : Alive(i) => Alive(i)'
    BY <2>1, <2>2 DEF Alive
  <2> QED
    BY <2>1, <2>2, <2>3, <2>4, <2>5 DEF AskedAreAlive, Works
<1>13. ASSUME NEW s \in Streams, RewatchFails(s) PROVE AskedAreAlive'
  BY <1>13 DEF RewatchFails, Forget, connection, calls, clients, watcherHub, AskedAreAlive,
     Works, Alive, Answering
<1>14. ASSUME NEW d \in Dirs, Watch(d) PROVE AskedAreAlive'
  BY <1>14 DEF Watch, Send, connection, tasks, clients, watcherHub, Types, WatchTypes,
     RpcTypes, DaemonTypes, Order, ListedWatches, SentTo, IdsGiven, OneOwner,
     AskedAreAlive, Works, Latest, Opened, Alive, Given, Answering, Doomed, Streams
<1>15. ASSUME NEW d \in Dirs, Watched(d) PROVE AskedAreAlive'
  <2> USE <1>15
  <2>1. PICK c \in Callers :
           /\ rpc[c] = "answered" /\ rpc' = [rpc EXCEPT ![c] = "none"]
           /\ name' = [name EXCEPT ![d] = rpcId[c]]
           /\ askedOn' = [askedOn EXCEPT ![d] = sentOn[c]]
           /\ listed' = listed \cup {d}
           /\ UNCHANGED <<rpcId, sentOn, hub, tracked>>
    BY WatchedShape
  <2>2. UNCHANGED <<stream, broken>> /\ listed \subseteq Dirs
    BY DEF Watched, connection, Types, WatchTypes
  <2>3. Answering(c) /\ \A e \in Callers : Answering(e)' => Answering(e)
    BY <2>1 DEF Answering, Types, RpcTypes
  <2>4. \A e \in listed' : \/ e \in listed /\ name'[e] = name[e] /\ askedOn'[e] = askedOn[e]
                           \/ name'[e] = rpcId[c] /\ askedOn'[e] = sentOn[c]
    BY <2>1, <2>2 DEF Types, WatchTypes, RpcTypes
  <2>5. \A i : Alive(i) => Alive(i)'
    BY <2>1, <2>2 DEF Alive
  <2> QED
    BY <2>1, <2>2, <2>3, <2>4, <2>5 DEF AskedAreAlive, Works
<1>17. ASSUME NEW d \in Dirs, Unsubscribe(d) PROVE AskedAreAlive'
  BY <1>17 DEF Unsubscribe, connection, tasks, calls, clients, watcherHub, Types,
     WatchTypes, RpcTypes, DaemonTypes, Order, ListedWatches, SentTo, IdsGiven, OneOwner,
     AskedAreAlive, Works, Latest, Opened, Alive, Given, Answering, Doomed, Streams
<1>18. ASSUME NEW c \in Callers, HubWatches(c) PROVE AskedAreAlive'
  <2> USE <1>18
  <2>1. UNCHANGED <<es, stream, broken, sentOn, listed, name, askedOn, tracked>>
    BY DEF HubWatches, connection, subs, clients
  <2>2. /\ \A e \in Callers : e # c => rpc'[e] = rpc[e] /\ rpcId'[e] = rpcId[e]
        /\ rpcId'[c] = Len(dirOf) + 1 /\ hub' = hub \cup {Len(dirOf) + 1}
    BY HubWatchesShape DEF Types, RpcTypes
  <2>3. \A i : Alive(i) => Alive(i)'
    BY <2>1, <2>2 DEF Alive
  <2>4. Len(dirOf) + 1 \notin Given
    BY HubWatchesShape DEF Given
  <2>5. Alive(rpcId[c])'
    <3>1. \A r \in Streams : rpcId'[c] \notin tracked'[r]
      BY <2>1, <2>2, <2>4 DEF IdsGiven
    <3> QED
      BY <2>2, <3>1 DEF Alive
  <2> QED
    BY <2>1, <2>2, <2>3, <2>5 DEF AskedAreAlive, Works, Answering
<1>19. ASSUME NEW c \in Callers, HubRefuses(c) PROVE AskedAreAlive'
  BY <1>19 DEF HubRefuses, connection, subs, tasks, clients, watcherHub, Types, WatchTypes,
     RpcTypes, DaemonTypes, Order, ListedWatches, SentTo, IdsGiven, OneOwner,
     AskedAreAlive, Works, Latest, Opened, Alive, Given, Answering, Doomed, Streams
<1>20. ASSUME NEW c \in Callers, Tracks(c) PROVE AskedAreAlive'
  <2> USE <1>20
  <2>1. UNCHANGED <<es, stream, broken, rpcId, sentOn, listed, name, askedOn, hub>>
    BY DEF Tracks, connection, subs, watcherHub
  <2>2. rpcId[c] \in Ids /\ Answering(c)
    <3>1. rpcId[c] \in Given /\ Answering(c)
      BY DEF Tracks, IdsGiven, Answering
    <3> QED
      BY <3>1, StreamAssumption DEF Given, Ids, Types, DaemonTypes
  <2>3. /\ \A s \in Streams : s # registered => tracked'[s] = tracked[s]
        /\ \A s \in Streams : tracked'[s] \subseteq tracked[s] \cup {rpcId[c]}
    BY <2>2, TracksShape
  <2>4. \A e \in Callers : Answering(e)' => Answering(e)
    BY <2>2, TracksShape DEF Types, RpcTypes, Answering
  <2>5. Works => registered \in {0, stream}
    <3>1. Works => stream \in Nat /\ registered \in Nat /\ stream # 0
      BY DEF Types, PageTypes, DaemonTypes, Order, Works
    <3>2. Works /\ registered # 0 => ~(registered > stream) /\ ~(stream > registered)
      BY DEF Works, Order, Latest
    <3> QED
      BY <3>1, <3>2
  <2>6. \A i : Works /\ Alive(i) => Alive(i)'
    <3>1. 0 \notin Streams
      BY DEF Streams
    <3> QED
      BY <2>1, <2>3, <2>5, <3>1 DEF Alive
  <2> QED
    BY <2>1, <2>4, <2>6 DEF AskedAreAlive, Works
<1>21. ASSUME NEW i \in Ids, Unwatch(i) PROVE AskedAreAlive'
  <2> USE <1>21
  <2>1. UNCHANGED <<es, stream, broken, rpc, rpcId, sentOn, listed, name, askedOn>>
    BY DEF Unwatch, connection, subs, calls
  <2>2. hub' = hub \ {i} /\ \A s \in Streams : tracked'[s] \subseteq tracked[s]
    BY DEF Unwatch, Types, DaemonTypes
  <2>3. \A j : Alive(j) /\ j # i => Alive(j)'
    BY <2>1, <2>2 DEF Alive
  <2>4. i \in Doomed
    BY DEF Unwatch, Doomed
  <2>5. /\ \A c \in Callers : Answering(c) => rpcId[c] # i
        /\ \A d \in listed : name[d] # i
    BY <2>4 DEF OneOwner
  <2> QED
    BY <2>1, <2>3, <2>5 DEF AskedAreAlive, Works, Answering
<1>22. CASE UNCHANGED <<stream, broken, rpc, sentOn, rpcId, hub, tracked, listed, askedOn, name>>
  BY <1>22 DEF Types, WatchTypes, RpcTypes, DaemonTypes, Order, ListedWatches, SentTo,
     IdsGiven, OneOwner, AskedAreAlive, Works, Latest, Opened, Alive, Given,
     Answering, Doomed, Streams
<1> QED
  BY <1>1, <1>2, <1>4, <1>5, <1>6, <1>7, <1>8, <1>9, <1>10, <1>11, <1>12, <1>13, <1>14,
     <1>15, <1>17, <1>18, <1>19, <1>20, <1>21, <1>22, WhoMoves

HubInv == Types /\ Order /\ SentTo /\ IdsGiven /\ OneOwner /\ AskedAreAlive

LEMMA InitHubInv == Init => HubInv
<1> SUFFICES ASSUME Init PROVE HubInv
  OBVIOUS
<1>1. 0 \in 0..MaxStreams /\ 0 \in 0..MaxAttempts /\ 0 \in 0..MaxSubs
  BY StreamAssumption
<1>2. dirOf = <<>> /\ <<>> \in Seq(Dirs) /\ Len(dirOf) = 0 /\ MaxSubs \in Nat
  BY StreamAssumption DEF Init
<1>3. PageTypes
  BY <1>1 DEF Init, PageTypes
<1>4. WatchTypes
  BY <1>1 DEF Init, WatchTypes
<1>5. RpcTypes
  BY <1>1 DEF Init, RpcTypes
<1>6. DaemonTypes
  <2>1. owed \in [Dirs -> (0..MaxSubs) \X (0..MaxStreams)]
    BY <1>1 DEF Init
  <2> QED
    BY <1>1, <1>2, <2>1 DEF Init, DaemonTypes
<1>7. Order
  BY DEF Init, Order, Connected, Opened
<1>8. SentTo
  BY DEF Init, SentTo
<1>9. IdsGiven
  BY <1>2 DEF Init, IdsGiven, Answering, Doomed
<1>10. OneOwner
  BY DEF Init, OneOwner, Answering
<1>11. AskedAreAlive
  BY DEF Init, AskedAreAlive, Works
<1> QED
  BY <1>3, <1>4, <1>5, <1>6, <1>7, <1>8, <1>9, <1>10, <1>11 DEF HubInv, Types

LEMMA NextHubInv == ListedWatches /\ HubInv /\ [Next]_vars => HubInv'
<1> SUFFICES ASSUME ListedWatches, HubInv, [Next]_vars PROVE HubInv'
  OBVIOUS
<1> USE DEF HubInv
<1>1. Types'
  BY PageTypesStep, WatchTypesStep, RpcTypesStep, DaemonTypesStep DEF Types
<1>2. Order'
  BY OrderStep
<1>3. SentTo'
  BY SentToStep
<1>4. IdsGiven'
  BY IdsGivenStep
<1>5. OneOwner'
  BY OneOwnerStep
<1>6. AskedAreAlive'
  BY AskedAreAliveStep
<1> QED
  BY <1>1, <1>2, <1>3, <1>4, <1>5, <1>6

\* Owner, page and hub agree on what is watched: what the page lists is its owner's, and
\* while the stream works on which its watch was asked for, alive in the hub.  No cleanup
\* of an earlier stream (server.go:1270), no overlap of two re-watches
\* (remote-host-system.ts:926) and no unsubscribe() ends the watch of a subscription that
\* goes on.
THEOREM WatchesAlwaysAgree == Spec => []WatchesAgree
<1>1. Init => IInv /\ HubInv
  BY InitIInv, InitHubInv
<1>2. IInv => ListedWatches
  BY DEF IInv
<1>3. (IInv /\ HubInv) /\ [Next]_vars => (IInv /\ HubInv)'
  BY <1>2, NextIInv, NextHubInv
<1>4. IInv /\ HubInv => WatchesAgree
  <2> SUFFICES ASSUME IInv, HubInv PROVE WatchesAgree
    OBVIOUS
  <2>1. TypeOK
    BY DEF HubInv, Types, PageTypes, WatchTypes, RpcTypes, DaemonTypes, TypeOK
  <2>2. ListedIsActive
    BY DEF IInv, DisposedIsQuiet, ListedWatches, ListedIsActive
  <2>3. FollowedIsWatched
    BY DEF HubInv, Order, AskedAreAlive, Alive, Works, Follows, FollowedIsWatched
  <2> QED
    BY <2>1, <2>2, <2>3 DEF WatchesAgree
<1> QED
  BY <1>1, <1>3, <1>4, PTL DEF Spec
=============================================================================
