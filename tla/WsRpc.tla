-------------------------------- MODULE WsRpc --------------------------------
(***************************************************************************)
(* The WebSocket RPC channel: the browser's WsRpcChannel                   *)
(* (src/core/host/ws-rpc-channel.ts) with the requests RemoteHostSystem    *)
(* gives it, and the daemon's wsConn (internal/server/ws_rpc.go) at the    *)
(* other end of each connection.                                           *)
(*                                                                         *)
(* External: the network, which keeps each direction of a connection in    *)
(* order and may die without either end being told; the browser's socket,  *)
(* which delivers nothing once close() was called; the handlers behind     *)
(* dispatch(), and the HTTP transport taken when the socket is not open.   *)
(*                                                                         *)
(* The keepalive interval (20 s) exceeds its timeout (10 s), so at most    *)
(* one ping is outstanding and one name stands for all of them; the        *)
(* interval runs exactly while the current socket is open.                 *)
(***************************************************************************)
EXTENDS WsFrames, FiniteSets

CONSTANTS Requests,        \* the requests made, each once
          Reply,           \* the text of each one's response
          Ping,            \* the id of a $/ping
          MaxAttempts,     \* maxReconnectAttempts
          MaxConns         \* bound on the connections

ASSUME RpcAssumption == /\ IsFiniteSet(Requests) /\ Ping \notin Requests
                        /\ MaxAttempts \in Nat /\ MaxConns \in Nat \ {0}
                        /\ \A r \in Requests : Reply[r] \in Seq(DOMAIN Width) \ {<<>>}

Ids == Requests \cup {Ping}
Conns == 1..MaxConns

VARIABLES
  \* the browser
  current,         \* the connection of _socket, 0 if null
  sock,            \* readyState of each connection's socket
  pending,         \* _pending
  chunks,          \* _chunks
  attempts,        \* _reconnectAttempts
  timer,           \* _reconnectTimer is set
  disposed,        \* _disposed
  outcome,         \* of each request's promise
  got,             \* the text a request was answered with
  \* the network
  up, down,        \* frames in flight, per connection
  dead,            \* connections the network has lost, until their sockets close
  \* the daemon
  conn,            \* each connection: "none", "live", "cancelled" (ctx), "closed"
  streams, wake,   \* per connection
  pump,            \* writePump(): "check" (nextFrame), "select", "stopped"
  work,            \* each request's goroutine
  home,            \* the connection it came by
  executed,        \* history: how many times a handler ran to its end
  lag              \* history: frames written since each id's stream had a turn

client == <<current, sock, pending, chunks, attempts, timer, disposed, outcome, got>>
network == <<up, down, dead>>
queue == <<streams, wake, lag>>
server == <<conn, pump, work, home, executed, queue>>
vars == <<client, network, server>>

Init ==
    /\ current = 0 /\ sock = [c \in Conns |-> "unused"]
    /\ pending = {} /\ chunks = [i \in Ids |-> NoParts]
    /\ attempts = 0 /\ timer = TRUE /\ disposed = FALSE
    /\ outcome = [r \in Requests |-> "unsent"] /\ got = [r \in Requests |-> <<>>]
    /\ up = [c \in Conns |-> <<>>] /\ down = [c \in Conns |-> <<>>] /\ dead = {}
    /\ conn = [c \in Conns |-> "none"]
    /\ streams = [c \in Conns |-> <<>>] /\ wake = [c \in Conns |-> FALSE]
    /\ pump = [c \in Conns |-> "stopped"]
    /\ work = [r \in Requests |-> "none"] /\ home = [r \in Requests |-> 0]
    /\ executed = [r \in Requests |-> 0] /\ lag = [i \in Ids |-> 0]

-----------------------------------------------------------------------------
(* The browser: connecting, and losing the connection. *)

IsOpen == current # 0 /\ sock[current] = "open"

ScheduleReconnect ==
    IF disposed \/ timer \/ attempts >= MaxAttempts
    THEN UNCHANGED <<timer, attempts>>
    ELSE timer' = TRUE /\ attempts' = attempts + 1

\* What is sent on a lost connection goes nowhere.
Send(msg) == up' = [up EXCEPT ![current] = IF current \in dead THEN @ ELSE Append(@, msg)]

FailPendingReplaying ==
    /\ pending' = {}
    /\ outcome' = [r \in Requests |-> IF r \in pending THEN "unsent" ELSE outcome[r]]

\* What arrives at a socket that was closed goes nowhere either.
Deafen(c) == down' = [down EXCEPT ![c] = <<>>]

\* _failPending
FailPending ==
    /\ pending' = {}
    /\ outcome' = [r \in Requests |-> IF r \in pending THEN "failed" ELSE outcome[r]]

\* connect(), from the timer or for the first time; the factory may throw.
Connect ==
    /\ timer
    /\ \E c \in Conns :
         /\ sock[c] = "unused" /\ \A b \in Conns : b < c => sock[b] # "unused"
         /\ current' = c
         /\ sock' = [sock EXCEPT ![c] = "connecting"]
    /\ timer' = FALSE
    /\ UNCHANGED <<pending, chunks, attempts, disposed, outcome, got, network, server>>

ConnectThrows ==
    /\ timer /\ \E c \in Conns : sock[c] = "unused"
    /\ timer' = (attempts < MaxAttempts)
    /\ attempts' = IF timer' THEN attempts + 1 ELSE attempts
    /\ UNCHANGED <<current, sock, pending, chunks, disposed, outcome, got, network, server>>

\* The upgrade succeeds: handleWS starts serving, and the browser is told.
Opens(c) ==
    /\ sock[c] = "connecting"
    /\ sock' = [sock EXCEPT ![c] = "open"]
    /\ attempts' = 0
    /\ conn' = [conn EXCEPT ![c] = "live"]
    /\ pump' = [pump EXCEPT ![c] = "check"]
    /\ UNCHANGED <<current, pending, chunks, timer, disposed, outcome, got, network,
                   work, home, executed, queue>>

HandleCloseOnce(c) ==
    /\ sock' = [sock EXCEPT ![c] = "closed"]
    /\ current' = 0
    /\ chunks' = [i \in Ids |-> NoParts]
    /\ FailPending
    /\ IF sock[c] = "connecting" THEN UNCHANGED <<timer, attempts>> ELSE ScheduleReconnect
    /\ UNCHANGED <<disposed, got>>

\* _handleClose: the only thing told of a connection that never opened, too.
HandleClose(c) ==
    /\ sock' = [sock EXCEPT ![c] = "closed"]
    /\ current' = 0
    /\ chunks' = [i \in Ids |-> NoParts]
    /\ FailPending
    /\ ScheduleReconnect
    /\ UNCHANGED <<disposed, got>>

\* The handshake fails, close() is through, or the daemon closed its end.
SocketCloses(c) ==
    /\ \/ sock[c] = "connecting" /\ conn[c] = "none"
       \/ sock[c] = "closing"
       \/ sock[c] = "open" /\ conn[c] = "closed" /\ c \notin dead /\ down[c] = <<>>
    /\ HandleClose(c)
    /\ Deafen(c)
    /\ dead' = dead \ {c}
    /\ UNCHANGED <<up, server>>

\* The browser may, or may not, notice by itself that the network is gone.
LossIsNoticed(c) ==
    /\ c \in dead /\ sock[c] = "open"
    /\ HandleClose(c)
    /\ Deafen(c)
    /\ dead' = dead \ {c}
    /\ UNCHANGED <<up, server>>

Dispose ==
    /\ ~disposed
    /\ disposed' = TRUE
    /\ timer' = FALSE
    /\ current' = 0
    /\ sock' = IF current = 0 THEN sock ELSE [sock EXCEPT ![current] = "closing"]
    /\ FailPending
    /\ IF current = 0 THEN UNCHANGED down ELSE Deafen(current)
    /\ UNCHANGED <<chunks, attempts, got, up, dead, server>>

-----------------------------------------------------------------------------
(* The browser: requests. *)

\* request(), over HTTP when the socket is not open.
Request(r) ==
    /\ ~disposed /\ outcome[r] = "unsent"
    /\ IF IsOpen
       THEN /\ pending' = pending \cup {r}
            /\ outcome' = [outcome EXCEPT ![r] = "waiting"]
            /\ Send([kind |-> "request", id |-> r])
            /\ UNCHANGED executed
       ELSE /\ outcome' = [outcome EXCEPT ![r] = "http"]
            /\ executed' = [executed EXCEPT ![r] = @ + 1]
            /\ UNCHANGED <<pending, up>>
    /\ UNCHANGED <<current, sock, chunks, attempts, timer, disposed, got,
                   down, dead, conn, pump, work, home, queue>>

\* The caller's signal, or the request's timeout: $/cancelRequest, then onAbort.
Abort(r) ==
    /\ outcome[r] = "waiting"
    /\ IF IsOpen THEN Send([kind |-> "cancel", id |-> r]) ELSE UNCHANGED up
    /\ pending' = pending \ {r}
    /\ chunks' = [chunks EXCEPT ![r] = NoParts]
    /\ outcome' = [outcome EXCEPT ![r] = "aborted"]
    /\ UNCHANGED <<current, sock, attempts, timer, disposed, got, down, dead, server>>

\* _ping, from the keepalive interval
SendPing ==
    /\ IsOpen /\ Ping \notin pending
    /\ pending' = pending \cup {Ping}
    /\ Send([kind |-> "ping", id |-> Ping])
    /\ UNCHANGED <<current, sock, chunks, attempts, timer, disposed, outcome, got,
                   down, dead, server>>

PingTimesOutQuietly ==
    /\ Ping \in pending
    /\ pending' = pending \ {Ping}
    /\ UNCHANGED <<current, sock, chunks, attempts, timer, disposed, outcome, got,
                   network, server>>

\* keepaliveTimeoutMs have passed: the ping is aborted and its socket closed.
PingTimesOut ==
    /\ Ping \in pending
    /\ pending' = pending \ {Ping}
    /\ sock' = [sock EXCEPT ![current] = "closing"]
    /\ Deafen(current)
    /\ UNCHANGED <<current, chunks, attempts, timer, disposed, outcome, got,
                   up, dead, server>>

\* _settle
Settle(id, result, text) ==
    /\ pending' = pending \ {id}
    /\ IF id \in pending \cap Requests
       THEN /\ outcome' = [outcome EXCEPT ![id] = result]
            /\ got' = [got EXCEPT ![id] = text]
       ELSE UNCHANGED <<outcome, got>>

HandleChunkTogether(f) ==
    LET parts == AddPart(chunks[Ping], f)
    IN IF f.last
       THEN /\ chunks' = [chunks EXCEPT ![Ping] = NoParts]
            /\ Settle(f.id, "answered", FlattenSeq(parts))
       ELSE /\ chunks' = [chunks EXCEPT ![Ping] = parts]
            /\ UNCHANGED <<pending, outcome, got>>

\* _handleChunk; what does not parse rejects the request, if it is still there.
HandleChunk(f) ==
    LET parts == AddPart(chunks[f.id], f)
    IN IF f.last
       THEN /\ chunks' = [chunks EXCEPT ![f.id] = NoParts]
            /\ IF Complete(parts) THEN Settle(f.id, "answered", FlattenSeq(parts))
                                  ELSE Settle(f.id, "failed", <<>>)
       ELSE /\ chunks' = [chunks EXCEPT ![f.id] = parts]
            /\ UNCHANGED <<pending, outcome, got>>

\* _handleMessage
Receive(c) ==
    /\ sock[c] = "open" /\ down[c] # <<>>
    /\ down' = [down EXCEPT ![c] = Tail(@)]
    /\ LET f == Head(down[c])
       IN IF f.chunk THEN HandleChunk(f)
          ELSE Settle(f.id, "answered", f.data) /\ UNCHANGED chunks
    /\ UNCHANGED <<current, sock, attempts, timer, disposed, up, dead, server>>

-----------------------------------------------------------------------------
(* The network loses a connection, with what was on its way. *)
LinkDies(c) ==
    /\ sock[c] \in {"open", "closing"} /\ c \notin dead
    /\ dead' = dead \cup {c}
    /\ up' = [up EXCEPT ![c] = <<>>]
    /\ down' = [down EXCEPT ![c] = <<>>]
    /\ UNCHANGED <<client, server>>

-----------------------------------------------------------------------------
(* The daemon. *)

\* Streams given to a pump that has stopped stay where they are; they are left out.
Push(c, id, frames) ==
    /\ streams' = IF pump[c] = "stopped" THEN streams
                  ELSE [streams EXCEPT ![c] = Append(@, frames)]
    /\ lag' = [lag EXCEPT ![id] = 0]

\* enqueue: wake is a channel with room for one signal.
Enqueue(c, id, frames) ==
    /\ Push(c, id, frames)
    /\ wake' = [wake EXCEPT ![c] = @ \/ pump[c] # "stopped"]

\* The ids of c.inflight: set when the goroutine starts, deleted when it ends.
Inflight(c) == {r \in Requests : home[r] = c /\ work[r] \in {"running", "cancelled"}}

\* handleFrame.  A cancel whose request is not in flight is ignored.
HandleFrame(c, msg) ==
    CASE msg.kind = "ping" ->
           /\ Enqueue(c, Ping, <<Plain(Ping, <<>>)>>)
           /\ UNCHANGED <<work, home>>
      [] msg.kind = "cancel" ->
           /\ work' = IF msg.id \in Inflight(c)
                      THEN [work EXCEPT ![msg.id] = "cancelled"] ELSE work
           /\ UNCHANGED <<home, queue>>
      [] OTHER ->
           /\ work' = [work EXCEPT ![msg.id] = "spawned"]
           /\ home' = [home EXCEPT ![msg.id] = c]
           /\ UNCHANGED queue

\* serve(): the read loop takes one frame, whether or not the pump still runs.
ReadFrame(c) ==
    /\ conn[c] \in {"live", "cancelled"} /\ up[c] # <<>>
    /\ up' = [up EXCEPT ![c] = Tail(@)]
    /\ HandleFrame(c, Head(up[c]))
    /\ UNCHANGED <<client, down, dead, conn, pump, executed>>

\* serve() returns: the read failed, or Server.Close() closed the connection, which
\* it may do at any time.
ReadLoopEnds(c) ==
    /\ conn[c] \in {"live", "cancelled"}
    /\ conn' = [conn EXCEPT ![c] = "closed"]
    /\ up' = [up EXCEPT ![c] = <<>>]
    /\ UNCHANGED <<client, down, dead, pump, work, home, executed, queue>>

\* dispatchRequest registers its id, under a context derived from the connection's.
StartWork(r) ==
    /\ work[r] = "spawned"
    /\ work' = [work EXCEPT ![r] = IF conn[home[r]] = "live" THEN "running" ELSE "cancelled"]
    /\ UNCHANGED <<client, network, conn, pump, home, executed, queue>>

\* The handler ends by itself, cancelled or not, and its response is queued.
FinishWork(r) ==
    /\ work[r] \in {"running", "cancelled"}
    /\ work' = [work EXCEPT ![r] = "done"]
    /\ executed' = [executed EXCEPT ![r] = @ + 1]
    /\ Enqueue(home[r], r, Split(r, Reply[r]))
    /\ UNCHANGED <<client, network, conn, pump, home>>

\* Its context is cancelled: it stops with an error, which is its response.
StopWork(r) ==
    /\ \/ work[r] = "cancelled"
       \/ work[r] = "running" /\ conn[home[r]] # "live"
    /\ work' = [work EXCEPT ![r] = "stopped"]
    /\ Enqueue(home[r], r, <<Plain(r, <<>>)>>)
    /\ UNCHANGED <<client, network, conn, pump, home, executed>>

\* nextFrame takes a frame of the first stream and sends the rest of it to the back.
Rest(c) == LET s == Tail(Head(streams[c])) IN IF s = <<>> THEN <<>> ELSE <<s>>

Waiting(queued) == {queued[i][1].id : i \in DOMAIN queued}

Turn(c) == lag' = [i \in Ids |-> IF i \in Waiting(Tail(streams[c])) THEN lag[i] + 1
                                ELSE IF i = Head(streams[c])[1].id THEN 0 ELSE lag[i]]

NextFrameKeepingTurn(c) ==
    /\ streams[c] # <<>>
    /\ streams' = [streams EXCEPT ![c] = Rest(c) \o Tail(@)]
    /\ Turn(c)

NextFrame(c) ==
    /\ streams[c] # <<>>
    /\ streams' = [streams EXCEPT ![c] = Tail(@) \o Rest(c)]
    /\ Turn(c)

\* A frame for a browser that no longer listens arrives nowhere.
PumpWrites(c) ==
    /\ pump[c] = "check" /\ conn[c] # "closed"
    /\ NextFrame(c)
    /\ down' = IF c \in dead \/ sock[c] # "open" THEN down
               ELSE [down EXCEPT ![c] = Append(@, Head(streams[c])[1])]
    /\ UNCHANGED <<client, up, dead, conn, pump, work, home, executed, wake>>

StopPump(c) ==
    /\ pump' = [pump EXCEPT ![c] = "stopped"]
    /\ streams' = [streams EXCEPT ![c] = <<>>]
    /\ wake' = [wake EXCEPT ![c] = FALSE]
    /\ lag' = [i \in Ids |-> IF i \in Waiting(streams[c]) THEN 0 ELSE lag[i]]

\* A write fails, or is not through in wsWriteWait: the context is cancelled,
\* but the connection stays open and the read loop goes on.
WriteFails(c) ==
    /\ pump[c] = "check" /\ streams[c] # <<>>
    /\ StopPump(c)
    /\ conn' = [conn EXCEPT ![c] = IF @ = "live" THEN "cancelled" ELSE @]
    /\ UNCHANGED <<client, network, work, home, executed>>

\* nextFrame has nothing; then the select, which another goroutine may precede.
PumpFindsNothing(c) ==
    /\ pump[c] = "check" /\ streams[c] = <<>>
    /\ pump' = [pump EXCEPT ![c] = "select"]
    /\ UNCHANGED <<client, network, conn, work, home, executed, queue>>

PumpWakes(c) ==
    /\ pump[c] = "select" /\ wake[c]
    /\ pump' = [pump EXCEPT ![c] = "check"]
    /\ wake' = [wake EXCEPT ![c] = FALSE]
    /\ UNCHANGED <<client, network, conn, work, home, executed, streams, lag>>

PumpEnds(c) ==
    /\ pump[c] = "select" /\ conn[c] # "live"
    /\ StopPump(c)
    /\ UNCHANGED <<client, network, conn, work, home, executed>>

-----------------------------------------------------------------------------
Browser == \/ Connect \/ ConnectThrows \/ Dispose \/ SendPing \/ PingTimesOut
           \/ \E r \in Requests : Request(r) \/ Abort(r)
           \/ \E c \in Conns : Opens(c) \/ SocketCloses(c) \/ LossIsNoticed(c) \/ Receive(c)

Daemon == \/ \E r \in Requests : StartWork(r) \/ FinishWork(r) \/ StopWork(r)
          \/ \E c \in Conns : \/ ReadFrame(c) \/ ReadLoopEnds(c) \/ WriteFails(c)
                              \/ PumpWrites(c) \/ PumpFindsNothing(c)
                              \/ PumpWakes(c) \/ PumpEnds(c)

Next == Browser \/ Daemon \/ \E c \in Conns : LinkDies(c)

Spec == Init /\ [][Next]_vars

\* Timers fire, the browser ends what was closed, the daemon's goroutines run, its
\* handlers end, and a connection that is up delivers.  Nobody has to notice by
\* itself that one is not, and no request has to time out or be aborted.
Fairness ==
    /\ WF_vars(Connect \/ SendPing \/ PingTimesOut)
    /\ \A c \in Conns :
         /\ WF_vars(Opens(c) \/ SocketCloses(c))
         /\ WF_vars(Receive(c)) /\ WF_vars(ReadFrame(c))
         /\ WF_vars(\/ PumpWrites(c) \/ WriteFails(c) \/ PumpFindsNothing(c)
                    \/ PumpWakes(c) \/ PumpEnds(c))
    /\ \A r \in Requests : WF_vars(StartWork(r) \/ FinishWork(r) \/ StopWork(r))

FairSpec == Spec /\ Fairness

-----------------------------------------------------------------------------
\* Types; no empty stream stays queued, and the browser holds the resolvers of
\* exactly the requests that wait on the connection.
TypeOK ==
    /\ current \in Conns \cup {0} /\ attempts \in 0..MaxAttempts
    /\ {timer, disposed} \subseteq BOOLEAN /\ pending \subseteq Ids
    /\ sock \in [Conns -> {"unused", "connecting", "open", "closing", "closed"}]
    /\ outcome \in [Requests -> {"unsent", "waiting", "http", "answered", "failed", "aborted"}]
    /\ conn \in [Conns -> {"none", "live", "cancelled", "closed"}]
    /\ pump \in [Conns -> {"check", "select", "stopped"}] /\ wake \in [Conns -> BOOLEAN]
    /\ work \in [Requests -> {"none", "spawned", "running", "cancelled", "done", "stopped"}]
    /\ home \in [Requests -> Conns \cup {0}] /\ dead \subseteq Conns
    /\ lag \in [Ids -> Nat] /\ executed \in [Requests -> Nat]
    /\ \A c \in Conns : \A i \in DOMAIN streams[c] : streams[c][i] # <<>>
    /\ pending \cap Requests = {r \in Requests : outcome[r] = "waiting"}

-----------------------------------------------------------------------------
(* Properties. *)

\* ws-rpc-channel.ts, "Correlate responses to requests by id, including reassembling
\* responses": a request is answered by the text its own handler produced.
AnswersAreIntact == \A r \in Requests : outcome[r] = "answered" =>
                        got[r] = Reply[r] /\ executed[r] = 1

\* "They are deliberately not replayed over HTTP": no handler runs twice for one
\* request, whatever is lost and whenever.
NeverReplayed == \A r \in Requests : executed[r] <= 1

\* "Interleaved round-robin ... to keep a multi-megabyte file read from blocking":
\* between two turns of a response every other one gets at most one.
LongResponsesYield == \A i \in Ids : lag[i] < Cardinality(Ids)

\* The pump never sleeps on a queue that holds frames with no signal to wake it.
NoLostWake == \A c \in Conns :
    pump[c] = "select" /\ streams[c] # <<>> => wake[c] \/ conn[c] # "live"

\* The channel comes back until it gave up: nothing but dispose() or too many
\* consecutive failures leaves it without a socket and without a timer.
ComesBack == current = 0 /\ ~timer => disposed \/ attempts = MaxAttempts

\* After dispose() no socket, timer or request of the channel is left to act.
DisposeIsFinal == disposed => current = 0 /\ ~timer /\ pending = {}

\* Every request ends, though its timeout is not counted on: by its response, or by
\* the keepalive, which finds out a connection that no longer answers.
EveryRequestSettles == \A r \in Requests : outcome[r] = "waiting" ~> outcome[r] # "waiting"

\* The write pump serves every stream of frames: it never sleeps on one, and never
\* lets a long one go first time after time.
PumpServesAll == TypeOK /\ NoLostWake /\ LongResponsesYield

\* The channel is connected, on its way to be, or over; once disposed it is over.
UpOrOver == ComesBack /\ DisposeIsFinal
=============================================================================
