----------------------------- MODULE WsRpcProofs -----------------------------
(***************************************************************************)
(* The safety properties of WsRpc, proved for every set of requests, every *)
(* number of connections and attempts, every chunk size and every reply.   *)
(*                                                                         *)
(* Two inductive invariants. Steady is about who holds what: the browser's *)
(* one socket, requests on their way, the handlers that ran, the pump and  *)
(* the queue of streams. Delivery is about what the frames say: a stream   *)
(* is the rest of its response, the frames on their way continue what the  *)
(* browser has collected, and what a promise resolves to is their joining. *)
(* Delivery needs the frames of a response to join to its text, Joins(r);  *)
(* where ChunkSize cuts a character they do not (the run on                *)
(* MCWsAccents.cfg shows one), so the theorem assumes it, and a second one *)
(* discharges it for the responses no cut can hurt.                        *)
(***************************************************************************)
EXTENDS WsRpc, FiniteSetTheorems, SequenceTheorems, TLAPS

Messages == [kind : {"request", "cancel"}, id : Requests] \cup {[kind |-> "ping", id |-> Ping]}
Letters == DOMAIN Width \cup {Replacement}
Frames == [id : Ids, chunk : BOOLEAN, seq : Nat, last : BOOLEAN, data : Seq(Letters)]

BrowserTypes ==
    /\ current \in Conns \cup {0}
    /\ sock \in [Conns -> {"unused", "connecting", "open", "closing", "closed"}]
    /\ attempts \in 0..MaxAttempts
    /\ timer \in BOOLEAN
    /\ disposed \in BOOLEAN
    /\ pending \in SUBSET Ids
    /\ outcome \in [Requests -> {"unsent", "waiting", "http", "answered", "failed", "aborted"}]

FrameTypes ==
    /\ chunks \in [Ids -> Seq(Seq(Letters))]
    /\ got \in [Requests -> Seq(Letters)]
    /\ up \in [Conns -> Seq(Messages)]
    /\ down \in [Conns -> Seq(Frames)]
    /\ streams \in [Conns -> Seq(Seq(Frames) \ {<<>>})]

DaemonTypes ==
    /\ dead \in SUBSET Conns
    /\ conn \in [Conns -> {"none", "live", "cancelled", "closed"}]
    /\ wake \in [Conns -> BOOLEAN]
    /\ pump \in [Conns -> {"check", "select", "stopped"}]
    /\ work \in [Requests -> {"none", "spawned", "running", "cancelled", "done", "stopped"}]
    /\ home \in [Requests -> Conns \cup {0}]
    /\ executed \in [Requests -> Nat]
    /\ lag \in [Ids -> Nat]

Types == BrowserTypes /\ FrameTypes /\ DaemonTypes

\* The browser keeps one socket, and a timer only while it has none.
Sockets ==
    /\ \A c \in Conns : sock[c] \in {"connecting", "open"} => current = c
    /\ current # 0 => sock[current] \in {"connecting", "open", "closing"}
    /\ ~disposed => \A c \in Conns : sock[c] = "closing" => current = c
    /\ timer => current = 0 /\ ~disposed
    /\ disposed => current = 0
    /\ pending # {} => current # 0 /\ sock[current] \in {"open", "closing"}
    /\ current = 0 /\ ~timer /\ ~disposed => attempts = MaxAttempts
    /\ \A r \in Requests : r \in pending <=> outcome[r] = "waiting"

\* A connection carries nothing before it opens and is not served before that; the
\* requests that reached the daemon came by one that did open.
Opened ==
    /\ \A c \in Conns :
          sock[c] \in {"unused", "connecting"} =>
              /\ conn[c] = "none"
              /\ up[c] = <<>> /\ down[c] = <<>> /\ streams[c] = <<>>
              /\ c \notin dead
    /\ \A c \in Conns : conn[c] = "none" => pump[c] = "stopped"
    /\ \A r \in Requests :
          work[r] # "none" => home[r] \in Conns /\ conn[home[r]] # "none"

\* A request's frame is on its way once, and before any handler has heard of it.
SentOnce ==
    /\ \A c, d \in Conns : \A i \in 1..Len(up[c]), j \in 1..Len(up[d]) :
          up[c][i].kind = "request" /\ up[d][j] = up[c][i] => c = d /\ i = j
    /\ \A c \in Conns : \A i \in 1..Len(up[c]) :
          up[c][i].kind = "request" =>
              /\ work[up[c][i].id] = "none"
              /\ outcome[up[c][i].id] \notin {"unsent", "http"}

\* A handler has run for a request over the connection or over HTTP, not both.
RunOnce ==
    \A r \in Requests :
        /\ work[r] # "none" => outcome[r] \notin {"unsent", "http"}
        /\ executed[r] = IF work[r] = "done" \/ outcome[r] = "http" THEN 1 ELSE 0

\* A pump that has stopped holds nothing; one that sleeps has a signal or nothing to do.
PumpsWake ==
    \A c \in Conns :
        /\ pump[c] = "stopped" => streams[c] = <<>>
        /\ conn[c] = "cancelled" => pump[c] = "stopped"
        /\ pump[c] = "select" /\ streams[c] # <<>> => wake[c] \/ conn[c] # "live"

IdOf(s) == s[1].id

\* Where an id's stream may stand.
InPlace ==
    \A c \in Conns : \A p \in 1..Len(streams[c]) :
        /\ \A k \in 1..Len(streams[c][p]) : streams[c][p][k].id = IdOf(streams[c][p])
        /\ \A q \in 1..Len(streams[c]) : IdOf(streams[c][p]) = IdOf(streams[c][q]) => p = q
        /\ IdOf(streams[c][p]) = Ping => Len(streams[c][p]) = 1
        /\ IdOf(streams[c][p]) # Ping =>
              home[IdOf(streams[c][p])] = c /\ work[IdOf(streams[c][p])] \in {"done", "stopped"}

\* One ping at a time travels a connection, as a message, in the queue, or as a frame.
PingsUp(c) == {i \in 1..Len(up[c]) : up[c][i].kind = "ping"}
PingsQueued(c) == {p \in 1..Len(streams[c]) : IdOf(streams[c][p]) = Ping}
PingsDown(c) == {i \in 1..Len(down[c]) : down[c][i].id = Ping}
OnePing ==
    \A c \in Conns :
        /\ \A i, j \in PingsUp(c) : i = j
        /\ \A i, j \in PingsDown(c) : i = j
        /\ PingsUp(c) = {} \/ PingsQueued(c) = {}
        /\ PingsUp(c) = {} \/ PingsDown(c) = {}
        /\ PingsQueued(c) = {} \/ PingsDown(c) = {}
        /\ sock[c] = "open" /\ Ping \notin pending =>
              PingsUp(c) = {} /\ PingsQueued(c) = {} /\ PingsDown(c) = {}

\* The ids whose streams are served before i's.
Ahead(i) == {j \in Ids : \E c \in Conns : \E p, q \in 1..Len(streams[c]) :
                 p < q /\ IdOf(streams[c][p]) = j /\ IdOf(streams[c][q]) = i}
TurnsCome == \A i \in Ids : lag[i] + Cardinality(Ahead(i)) < Cardinality(Ids)

\* The frames of r's response, and what may be left of them.
Answer(r) == Split(r, Reply[r])
RestOf(s, r) == \E a \in Nat : /\ a + Len(s) = Len(Answer(r))
                               /\ \A k \in 1..Len(s) : s[k] = Answer(r)[a + k]

\* A cancel is for a request nobody waits for any more.
Unwanted ==
    \A c \in Conns : \A i \in 1..Len(up[c]) :
        up[c][i].kind = "cancel" => outcome[up[c][i].id] \notin {"unsent", "waiting", "http"}

\* So is the end of a handler, unless what it answers will not arrive.
Stops ==
    \A r \in Requests :
        outcome[r] = "waiting" /\ work[r] \in {"cancelled", "stopped"} =>
            conn[home[r]] \in {"cancelled", "closed"}

\* Nothing of a response is collected before there is one.
Early ==
    \A r \in Requests :
        outcome[r] = "unsent" \/ (outcome[r] = "waiting" /\ work[r] # "done") => chunks[r] = <<>>

\* A stream is the rest of its response, or tells of an end that nobody will hear of.
Queued ==
    \A c \in Conns : \A p \in 1..Len(streams[c]) : \A r \in Requests :
        IdOf(streams[c][p]) = r =>
            \/ work[r] = "done" /\ RestOf(streams[c][p], r)
            \/ work[r] = "stopped" /\ (outcome[r] # "waiting" \/ conn[c] = "closed")

\* Frame i of those on their way to a request that waits: it follows what was collected,
\* or another one of them, and the later ones come after it.
InTurn(c, i, r) ==
    /\ down[c][i].seq + 1 \in 1..Len(Answer(r))
    /\ down[c][i] = Answer(r)[down[c][i].seq + 1]
    /\ down[c][i].seq >= Len(chunks[r])
    /\ down[c][i].seq > Len(chunks[r]) =>
          \E j \in 1..Len(down[c]) :
              j < i /\ down[c][j].id = r /\ down[c][j].seq + 1 = down[c][i].seq
    /\ \A j \in 1..Len(down[c]) :
          i < j /\ down[c][j].id = r => down[c][i].seq < down[c][j].seq

InFlight ==
    \A c \in Conns : \A i \in 1..Len(down[c]) : \A r \in Requests :
        down[c][i].id = r =>
            /\ work[r] \in {"done", "stopped"}
            /\ home[r] = c
            /\ outcome[r] = "waiting" => work[r] = "done" /\ InTurn(c, i, r)

\* The stream of a request that waits goes on where its frames on the way end.
GoesOn(c, p, r) ==
    /\ streams[c][p][1].seq >= Len(chunks[r])
    /\ streams[c][p][1].seq > Len(chunks[r]) =>
          \E j \in 1..Len(down[c]) :
              down[c][j].id = r /\ down[c][j].seq + 1 = streams[c][p][1].seq
    /\ \A j \in 1..Len(down[c]) : down[c][j].id = r => down[c][j].seq < streams[c][p][1].seq

ToCome ==
    \A c \in Conns : \A p \in 1..Len(streams[c]) : \A r \in Requests :
        IdOf(streams[c][p]) = r /\ outcome[r] = "waiting" /\ work[r] = "done"
            /\ sock[c] = "open" /\ c \notin dead => GoesOn(c, p, r)

\* What was collected is the response's first chunks, though not all.
Collected ==
    \A r \in Requests :
        outcome[r] = "waiting" /\ work[r] = "done" =>
            /\ Len(chunks[r]) < Len(Answer(r))
            /\ \A i \in 1..Len(chunks[r]) : chunks[r][i] = Answer(r)[i].data

\* A promise resolved is the response of a handler that ran to its end.
Answers == \A r \in Requests : outcome[r] = "answered" => work[r] = "done" /\ got[r] = Reply[r]
\* Induction over the naturals, said of a set: the numbers up to one that is
\* missing would be mapped one to one, and not onto, themselves.
LEMMA InductionOverNat ==
    ASSUME NEW S, 0 \in S, \A n \in Nat : n \in S => n + 1 \in S
    PROVE  \A n \in Nat : n \in S
<1> SUFFICES ASSUME NEW n \in Nat, n \notin S PROVE FALSE
  OBVIOUS
<1> DEFINE T == {k \in 0..n : k \in S}
           f == [k \in T |-> k + 1]
<1>1. IsFiniteSet(T)
  <2>1. IsFiniteSet(0..n)
    BY FS_Interval
  <2>2. T \in SUBSET (0..n)
    OBVIOUS
  <2> QED
    BY <2>1, <2>2, FS_Subset
<1>2. \A k \in T : k + 1 \in T
  OBVIOUS
<1>3. f \in Injection(T, T)
  BY <1>2 DEF Injection, IsInjective
<1>4. 0 \in T /\ \A k \in T : f[k] # 0
  OBVIOUS
<1> HIDE DEF T, f
<1>5. f \in Surjection(T, T)
  BY <1>1, <1>3, FS_Injection
<1> QED
  BY <1>4, <1>5 DEF Surjection

\* The function FlattenSeq recurses by, for a sequence of sequences.
Joining(seqs, g) ==
    g = [i \in 1..Len(seqs) |-> IF i = 1 THEN seqs[i] ELSE g[i - 1] \o seqs[i]]

\* The community modules define FlattenSeq by a recursive function, in a LET: any
\* function g that obeys its recursion gives its value.
LEMMA FlattenUnfolds ==
    ASSUME NEW S, NEW seqs \in Seq(S), seqs # <<>>, NEW g, Joining(seqs, g)
    PROVE  FlattenSeq(seqs) = g[Len(seqs)]
<1> DEFINE h == CHOOSE h : Joining(seqs, h)
           Same == {n \in Nat : n \in 1..Len(seqs) => h[n] = g[n]}
<1>1. Joining(seqs, h)
  OBVIOUS
<1>2. FlattenSeq(seqs) = h[Len(seqs)]
  BY DEF FlattenSeq, Joining
<1> HIDE DEF h
<1>3. Len(seqs) \in Nat \ {0}
  OBVIOUS
<1>4. 0 \in Same
  OBVIOUS
<1>5. \A n \in Nat : n \in Same => n + 1 \in Same
  <2> SUFFICES ASSUME NEW n \in Nat, n \in Same, n + 1 \in 1..Len(seqs)
               PROVE  h[n + 1] = g[n + 1]
    OBVIOUS
  <2>0. Len(seqs) \in Nat
    BY <1>3
  <2>1. h[n + 1] = IF n + 1 = 1 THEN seqs[n + 1] ELSE h[(n + 1) - 1] \o seqs[n + 1]
    BY <1>1, <1>3 DEF Joining
  <2>2. g[n + 1] = IF n + 1 = 1 THEN seqs[n + 1] ELSE g[(n + 1) - 1] \o seqs[n + 1]
    BY <1>3 DEF Joining
  <2>3. (n + 1) - 1 = n /\ (n + 1 # 1 => n \in 1..Len(seqs))
    BY <1>3
  <2>4. n + 1 # 1 => h[n] = g[n]
    BY <2>3
  <2> QED
    BY <2>1, <2>2, <2>3, <2>4
<1>6. Len(seqs) \in Same
  <2> HIDE DEF Same
  <2> QED BY <1>3, <1>4, <1>5, InductionOverNat
<1> QED
  BY <1>2, <1>3, <1>6

\* Joining texts gives a text.
LEMMA FlattenType ==
    ASSUME NEW S, NEW seqs \in Seq(Seq(S))
    PROVE  FlattenSeq(seqs) \in Seq(S)
<1>1. CASE seqs = <<>>
  BY <1>1 DEF FlattenSeq
<1>2. CASE seqs # <<>>
  <2> DEFINE Start(n, g) == /\ DOMAIN g = 1..n
                            /\ \A i \in 1..n : g[i] \in Seq(S)
                            /\ \A i \in 1..n : g[i] = IF i = 1 THEN seqs[i] ELSE g[i - 1] \o seqs[i]
             Starts == {n \in Nat : n <= Len(seqs) => \E g : Start(n, g)}
  <2>1. 0 \in Starts
    <3>1. Start(0, [i \in 1..0 |-> i])
      OBVIOUS
    <3> QED BY <3>1
  <2>2. \A n \in Nat : n \in Starts => n + 1 \in Starts
    <3> SUFFICES ASSUME NEW n \in Nat, n \in Starts PROVE n + 1 \in Starts
      OBVIOUS
    <3> SUFFICES ASSUME n + 1 <= Len(seqs) PROVE \E g : Start(n + 1, g)
      <4> HIDE DEF Start
      <4> QED OBVIOUS
    <3>1. PICK g : Start(n, g)
      <4>1. n <= Len(seqs)
        OBVIOUS
      <4> HIDE DEF Start
      <4> QED BY <4>1
    <3> DEFINE last == IF n = 0 THEN seqs[1] ELSE g[n] \o seqs[n + 1]
               h == [i \in 1..(n + 1) |-> IF i = n + 1 THEN last ELSE g[i]]
    <3>2. last \in Seq(S)
      <4>1. seqs[n + 1] \in Seq(S) /\ seqs[1] \in Seq(S)
        OBVIOUS
      <4>2. n # 0 => g[n] \in Seq(S)
        BY <3>1
      <4> QED
        BY <4>1, <4>2
    <3>3. \A i \in 1..(n + 1) : h[i] \in Seq(S)
      BY <3>1, <3>2
    <3>4. \A i \in 1..n : h[i] = g[i] /\ (i # 1 => h[i - 1] = g[i - 1])
      OBVIOUS
    <3>5. h[n + 1] = IF n + 1 = 1 THEN seqs[n + 1] ELSE h[(n + 1) - 1] \o seqs[n + 1]
      <4>1. h[n + 1] = last
        OBVIOUS
      <4>2. n # 0 => h[n] = g[n]
        OBVIOUS
      <4>3. (n + 1) - 1 = n
        OBVIOUS
      <4> HIDE DEF h
      <4> QED BY <4>1, <4>2, <4>3
    <3>6. \A i \in 1..(n + 1) : h[i] = IF i = 1 THEN seqs[i] ELSE h[i - 1] \o seqs[i]
      <4> SUFFICES ASSUME NEW i \in 1..(n + 1)
                   PROVE  h[i] = IF i = 1 THEN seqs[i] ELSE h[i - 1] \o seqs[i]
        OBVIOUS
      <4>0. DOMAIN h = 1..(n + 1)
        OBVIOUS
      <4> HIDE DEF h
      <4>1. CASE i = n + 1
        BY <4>1, <3>5
      <4>2. CASE i # n + 1
        <5>1. i \in 1..n
          BY <4>2
        <5>2. g[i] = IF i = 1 THEN seqs[i] ELSE g[i - 1] \o seqs[i]
          BY <5>1, <3>1
        <5> QED BY <5>1, <5>2, <3>4
      <4> QED BY <4>1, <4>2
    <3>7. DOMAIN h = 1..(n + 1)
      OBVIOUS
    <3> HIDE DEF h
    <3> QED BY <3>3, <3>6, <3>7
  <2>3. Len(seqs) \in Nat /\ Len(seqs) # 0
    BY <1>2
  <2>4. Len(seqs) \in Starts
    <3> HIDE DEF Starts
    <3> QED BY <2>1, <2>2, <2>3, InductionOverNat
  <2>5. PICK g : Start(Len(seqs), g)
    BY <2>3, <2>4
  <2> DEFINE h == [i \in 1..Len(seqs) |-> g[i]]
  <2>6. Joining(seqs, h)
    <3>1. \A i \in 1..Len(seqs) : i # 1 => i - 1 \in 1..Len(seqs)
      BY <2>3
    <3>2. \A i \in 1..Len(seqs) : h[i] = IF i = 1 THEN seqs[i] ELSE h[i - 1] \o seqs[i]
      BY <2>5, <3>1
    <3>3. h = [i \in 1..Len(seqs) |-> h[i]]
      OBVIOUS
    <3> HIDE DEF h
    <3> QED BY <3>2, <3>3 DEF Joining
  <2>7. FlattenSeq(seqs) = h[Len(seqs)]
    <3> HIDE DEF h
    <3> QED BY <1>2, <2>6, FlattenUnfolds
  <2> QED
    BY <2>3, <2>5, <2>7
<1> QED
  BY <1>1, <1>2

-----------------------------------------------------------------------------
(* How a response is cut into frames. *)

\* Encoding: each character becomes the numbered bytes it is wide.
LEMMA Utf8Type ==
    ASSUME NEW text \in Seq(DOMAIN Width)
    PROVE  Utf8(text) \in Seq((DOMAIN Width) \X Nat)
<1> DEFINE pieces == [i \in DOMAIN text |-> [k \in 1..Width[text[i]] |-> <<text[i], k>>]]
<1>1. \A i \in DOMAIN text : pieces[i] \in Seq((DOMAIN Width) \X Nat)
  BY FramesAssumption
<1>2. pieces \in Seq(Seq((DOMAIN Width) \X Nat))
  <2> HIDE DEF pieces
  <2>1. Len(text) \in Nat /\ DOMAIN text = 1..Len(text)
    OBVIOUS
  <2>2. pieces = [i \in 1..Len(text) |-> pieces[i]]
    BY <2>1 DEF pieces
  <2> QED
    BY <1>1, <2>1, <2>2
<1> QED
  BY <1>2, FlattenType DEF Utf8

\* Decoding the bytes of a chunk gives letters, the replacement character among them.
LEMMA JsonStringType ==
    ASSUME NEW bytes \in Seq((DOMAIN Width) \X Nat)
    PROVE  JsonString(bytes) \in Seq(Letters)
<1> DEFINE pieces == [i \in DOMAIN bytes |->
                         IF ~Whole(bytes, i) THEN <<Replacement>>
                         ELSE IF bytes[i][2] = 1 THEN <<bytes[i][1]>> ELSE <<>>]
<1>1. \A i \in DOMAIN bytes : pieces[i] \in Seq(Letters)
  <2> SUFFICES ASSUME NEW i \in DOMAIN bytes PROVE pieces[i] \in Seq(Letters)
    OBVIOUS
  <2>1. bytes[i][1] \in Letters /\ Replacement \in Letters
    BY DEF Letters
  <2>2. <<bytes[i][1]>> \in Seq(Letters) /\ <<Replacement>> \in Seq(Letters) /\ <<>> \in Seq(Letters)
    BY <2>1
  <2> QED
    BY <2>2
<1>2. pieces \in Seq(Seq(Letters))
  <2>1. Len(bytes) \in Nat /\ DOMAIN bytes = 1..Len(bytes)
    OBVIOUS
  <2>2. pieces = [i \in 1..Len(bytes) |-> pieces[i]]
    BY <2>1
  <2> HIDE DEF pieces
  <2> QED
    BY <1>1, <2>1, <2>2
<1> QED
  BY <1>2, FlattenType DEF JsonString

\* A response is one whole frame, or the numbered chunks of it.
LEMMA SplitShape ==
    ASSUME NEW id \in Ids, NEW text \in Seq(DOMAIN Width)
    PROVE  /\ Split(id, text) \in Seq(Frames)
           /\ Len(Split(id, text)) \in Nat \ {0}
           /\ DOMAIN Split(id, text) = 1..Len(Split(id, text))
           /\ \A i \in DOMAIN Split(id, text) :
                 /\ Split(id, text)[i].id = id
                 /\ Split(id, text)[i].seq = i - 1
                 /\ Split(id, text)[i].last <=> i = Len(Split(id, text))
           /\ \/ Split(id, text) = <<Plain(id, text)>>
              \/ \A i \in DOMAIN Split(id, text) : Split(id, text)[i].chunk
<1> DEFINE bytes == Utf8(text)
           n == (Len(bytes) + ChunkSize - 1) \div ChunkSize
           End(i) == IF i = n THEN Len(bytes) ELSE i * ChunkSize
           Part(i) == SubSeq(bytes, (i - 1) * ChunkSize + 1, End(i))
           chunked == [i \in 1..n |->
                         [id |-> id, chunk |-> TRUE, seq |-> i - 1, last |-> i = n,
                          data |-> JsonString(Part(i))]]
<1>1. bytes \in Seq((DOMAIN Width) \X Nat)
  BY Utf8Type
<1> HIDE DEF bytes
<1>2. Len(bytes) \in Nat /\ ChunkSize \in Nat \ {0}
  BY <1>1, FramesAssumption
<1>3. CASE Len(bytes) <= ChunkSize
  <2>1. Split(id, text) = <<Plain(id, text)>>
    BY <1>3 DEF Split, bytes
  <2>2. Plain(id, text) \in Frames
    <3>1. text \in Seq(Letters)
      BY DEF Letters
    <3> QED
      BY <3>1 DEF Plain, Frames
  <2> QED
    BY <2>1, <2>2 DEF Plain
<1>4. CASE ~(Len(bytes) <= ChunkSize)
  <2>1. Split(id, text) = chunked
    BY <1>4 DEF Split, bytes
  <2>2. n \in Nat \ {0} /\ (n - 1) * ChunkSize < Len(bytes) /\ Len(bytes) <= n * ChunkSize
    <3>1. ASSUME NEW L \in Nat, NEW K \in Nat \ {0}, ~(L <= K),
                 NEW m, m = (L + K - 1) \div K
          PROVE  m \in Nat \ {0} /\ (m - 1) * K < L /\ L <= m * K
      BY <3>1
    <3> HIDE DEF n
    <3> QED
      BY <1>2, <1>4, <3>1 DEF n
  <2> HIDE DEF n
  <2>3. \A i \in 1..n : JsonString(Part(i)) \in Seq(Letters)
    <3> SUFFICES ASSUME NEW i \in 1..n PROVE JsonString(Part(i)) \in Seq(Letters)
      OBVIOUS
    <3>1. (i - 1) * ChunkSize \in Nat /\ i * ChunkSize \in Nat
          /\ (i # n => i * ChunkSize <= (n - 1) * ChunkSize)
      BY <1>2, <2>2
    <3>2. \A k \in (i - 1) * ChunkSize + 1 .. End(i) : k \in 1..Len(bytes)
      BY <1>2, <2>2, <3>1
    <3>3. Part(i) \in Seq((DOMAIN Width) \X Nat)
      BY <1>1, <1>2, <3>1, <3>2, SubSeqProperties
    <3> QED
      BY <3>3, JsonStringType
  <2>4. chunked \in Seq(Frames)
    <3>1. \A i \in 1..n : chunked[i] \in Frames
      BY <2>2, <2>3 DEF Frames
    <3>2. chunked = [i \in 1..n |-> chunked[i]]
      OBVIOUS
    <3> HIDE DEF chunked
    <3> QED
      BY <2>2, <3>1, <3>2
  <2>5. Len(chunked) = n /\ DOMAIN chunked = 1..n
    BY <2>2
  <2>6. \A i \in 1..n : /\ chunked[i].id = id
                        /\ chunked[i].seq = i - 1
                        /\ chunked[i].last <=> i = n
                        /\ chunked[i].chunk
    OBVIOUS
  <2> HIDE DEF chunked
  <2> QED
    BY <2>1, <2>2, <2>4, <2>5, <2>6
<1> QED
  BY <1>3, <1>4

-----------------------------------------------------------------------------
(* Which actions change what. *)

\* What each action leaves alone.
LEMMA Leaves ==
    /\ (Connect => UNCHANGED <<pending, chunks, attempts, disposed, outcome, got, up, down, dead, conn, streams, wake, pump, work, home, executed, lag>>)
    /\ (ConnectThrows => UNCHANGED <<current, sock, pending, chunks, disposed, outcome, got, up, down, dead, conn, streams, wake, pump, work, home, executed, lag>>)
    /\ (Dispose => UNCHANGED <<chunks, attempts, got, up, dead, conn, streams, wake, pump, work, home, executed, lag>>)
    /\ (SendPing => UNCHANGED <<current, sock, chunks, attempts, timer, disposed, outcome, got, down, dead, conn, streams, wake, pump, work, home, executed, lag>>)
    /\ (PingTimesOut => UNCHANGED <<current, chunks, attempts, timer, disposed, outcome, got, up, dead, conn, streams, wake, pump, work, home, executed, lag>>)
    /\ (\A r \in Requests : Request(r) => UNCHANGED <<current, sock, chunks, attempts, timer, disposed, got, down, dead, conn, streams, wake, pump, work, home, lag>>)
    /\ (\A r \in Requests : Abort(r) => UNCHANGED <<current, sock, attempts, timer, disposed, got, down, dead, conn, streams, wake, pump, work, home, executed, lag>>)
    /\ (\A c \in Conns : Opens(c) => UNCHANGED <<current, pending, chunks, timer, disposed, outcome, got, up, down, dead, streams, wake, work, home, executed, lag>>)
    /\ (\A c \in Conns : SocketCloses(c) => UNCHANGED <<disposed, got, up, conn, streams, wake, pump, work, home, executed, lag>>)
    /\ (\A c \in Conns : LossIsNoticed(c) => UNCHANGED <<disposed, got, up, conn, streams, wake, pump, work, home, executed, lag>>)
    /\ (\A c \in Conns : Receive(c) => UNCHANGED <<current, sock, attempts, timer, disposed, up, dead, conn, streams, wake, pump, work, home, executed, lag>>)
    /\ (\A r \in Requests : StartWork(r) => UNCHANGED <<current, sock, pending, chunks, attempts, timer, disposed, outcome, got, up, down, dead, conn, streams, wake, pump, home, executed, lag>>)
    /\ (\A r \in Requests : FinishWork(r) => UNCHANGED <<current, sock, pending, chunks, attempts, timer, disposed, outcome, got, up, down, dead, conn, pump, home>>)
    /\ (\A r \in Requests : StopWork(r) => UNCHANGED <<current, sock, pending, chunks, attempts, timer, disposed, outcome, got, up, down, dead, conn, pump, home, executed>>)
    /\ (\A c \in Conns : ReadFrame(c) => UNCHANGED <<current, sock, pending, chunks, attempts, timer, disposed, outcome, got, down, dead, conn, pump, executed>>)
    /\ (\A c \in Conns : ReadLoopEnds(c) => UNCHANGED <<current, sock, pending, chunks, attempts, timer, disposed, outcome, got, down, dead, streams, wake, pump, work, home, executed, lag>>)
    /\ (\A c \in Conns : WriteFails(c) => UNCHANGED <<current, sock, pending, chunks, attempts, timer, disposed, outcome, got, up, down, dead, work, home, executed>>)
    /\ (\A c \in Conns : PumpWrites(c) => UNCHANGED <<current, sock, pending, chunks, attempts, timer, disposed, outcome, got, up, dead, conn, wake, pump, work, home, executed>>)
    /\ (\A c \in Conns : PumpFindsNothing(c) => UNCHANGED <<current, sock, pending, chunks, attempts, timer, disposed, outcome, got, up, down, dead, conn, streams, wake, work, home, executed, lag>>)
    /\ (\A c \in Conns : PumpWakes(c) => UNCHANGED <<current, sock, pending, chunks, attempts, timer, disposed, outcome, got, up, down, dead, conn, streams, work, home, executed, lag>>)
    /\ (\A c \in Conns : PumpEnds(c) => UNCHANGED <<current, sock, pending, chunks, attempts, timer, disposed, outcome, got, up, down, dead, conn, work, home, executed>>)
    /\ (\A c \in Conns : LinkDies(c) => UNCHANGED <<current, sock, pending, chunks, attempts, timer, disposed, outcome, got, conn, streams, wake, pump, work, home, executed, lag>>)
<1>1. Connect => UNCHANGED <<pending, chunks, attempts, disposed, outcome, got, up, down, dead, conn, streams, wake, pump, work, home, executed, lag>>
  BY DEF Connect, client, network, queue, server
<1>2. ConnectThrows => UNCHANGED <<current, sock, pending, chunks, disposed, outcome, got, up, down, dead, conn, streams, wake, pump, work, home, executed, lag>>
  BY DEF ConnectThrows, client, network, queue, server
<1>3. Dispose => UNCHANGED <<chunks, attempts, got, up, dead, conn, streams, wake, pump, work, home, executed, lag>>
  BY DEF Dispose, FailPending, Deafen, client, network, queue, server
<1>4. SendPing => UNCHANGED <<current, sock, chunks, attempts, timer, disposed, outcome, got, down, dead, conn, streams, wake, pump, work, home, executed, lag>>
  BY DEF SendPing, IsOpen, Send, client, network, queue, server
<1>5. PingTimesOut => UNCHANGED <<current, chunks, attempts, timer, disposed, outcome, got, up, dead, conn, streams, wake, pump, work, home, executed, lag>>
  BY DEF PingTimesOut, Deafen, client, network, queue, server
<1>6. \A r \in Requests : Request(r) => UNCHANGED <<current, sock, chunks, attempts, timer, disposed, got, down, dead, conn, streams, wake, pump, work, home, lag>>
  BY DEF Request, IsOpen, Send, client, network, queue, server
<1>7. \A r \in Requests : Abort(r) => UNCHANGED <<current, sock, attempts, timer, disposed, got, down, dead, conn, streams, wake, pump, work, home, executed, lag>>
  BY DEF Abort, IsOpen, Send, client, network, queue, server
<1>8. \A c \in Conns : Opens(c) => UNCHANGED <<current, pending, chunks, timer, disposed, outcome, got, up, down, dead, streams, wake, work, home, executed, lag>>
  BY DEF Opens, client, network, queue, server
<1>9. \A c \in Conns : SocketCloses(c) => UNCHANGED <<disposed, got, up, conn, streams, wake, pump, work, home, executed, lag>>
  BY DEF SocketCloses, HandleClose, FailPending, ScheduleReconnect, Deafen, client, network, queue, server
<1>10. \A c \in Conns : LossIsNoticed(c) => UNCHANGED <<disposed, got, up, conn, streams, wake, pump, work, home, executed, lag>>
  BY DEF LossIsNoticed, HandleClose, FailPending, ScheduleReconnect, Deafen, client, network, queue, server
<1>11. \A c \in Conns : Receive(c) => UNCHANGED <<current, sock, attempts, timer, disposed, up, dead, conn, streams, wake, pump, work, home, executed, lag>>
  BY DEF Receive, HandleChunk, Settle, client, network, queue, server
<1>12. \A r \in Requests : StartWork(r) => UNCHANGED <<current, sock, pending, chunks, attempts, timer, disposed, outcome, got, up, down, dead, conn, streams, wake, pump, home, executed, lag>>
  BY DEF StartWork, client, network, queue, server
<1>13. \A r \in Requests : FinishWork(r) => UNCHANGED <<current, sock, pending, chunks, attempts, timer, disposed, outcome, got, up, down, dead, conn, pump, home>>
  BY DEF FinishWork, Enqueue, Push, client, network, queue, server
<1>14. \A r \in Requests : StopWork(r) => UNCHANGED <<current, sock, pending, chunks, attempts, timer, disposed, outcome, got, up, down, dead, conn, pump, home, executed>>
  BY DEF StopWork, Enqueue, Push, client, network, queue, server
<1>15. \A c \in Conns : ReadFrame(c) => UNCHANGED <<current, sock, pending, chunks, attempts, timer, disposed, outcome, got, down, dead, conn, pump, executed>>
  BY DEF ReadFrame, HandleFrame, Enqueue, Push, client, network, queue, server
<1>16. \A c \in Conns : ReadLoopEnds(c) => UNCHANGED <<current, sock, pending, chunks, attempts, timer, disposed, outcome, got, down, dead, streams, wake, pump, work, home, executed, lag>>
  BY DEF ReadLoopEnds, client, network, queue, server
<1>17. \A c \in Conns : WriteFails(c) => UNCHANGED <<current, sock, pending, chunks, attempts, timer, disposed, outcome, got, up, down, dead, work, home, executed>>
  BY DEF WriteFails, StopPump, client, network, queue, server
<1>18. \A c \in Conns : PumpWrites(c) => UNCHANGED <<current, sock, pending, chunks, attempts, timer, disposed, outcome, got, up, dead, conn, wake, pump, work, home, executed>>
  BY DEF PumpWrites, NextFrame, Rest, Turn, client, network, queue, server
<1>19. \A c \in Conns : PumpFindsNothing(c) => UNCHANGED <<current, sock, pending, chunks, attempts, timer, disposed, outcome, got, up, down, dead, conn, streams, wake, work, home, executed, lag>>
  BY DEF PumpFindsNothing, client, network, queue, server
<1>20. \A c \in Conns : PumpWakes(c) => UNCHANGED <<current, sock, pending, chunks, attempts, timer, disposed, outcome, got, up, down, dead, conn, streams, work, home, executed, lag>>
  BY DEF PumpWakes, client, network, queue, server
<1>21. \A c \in Conns : PumpEnds(c) => UNCHANGED <<current, sock, pending, chunks, attempts, timer, disposed, outcome, got, up, down, dead, conn, work, home, executed>>
  BY DEF PumpEnds, StopPump, client, network, queue, server
<1>22. \A c \in Conns : LinkDies(c) => UNCHANGED <<current, sock, pending, chunks, attempts, timer, disposed, outcome, got, conn, streams, wake, pump, work, home, executed, lag>>
  BY DEF LinkDies, client, network, queue, server
<1> QED
  BY <1>1, <1>2, <1>3, <1>4, <1>5, <1>6, <1>7, <1>8, <1>9, <1>10, <1>11, <1>12,
     <1>13, <1>14, <1>15, <1>16, <1>17, <1>18, <1>19, <1>20, <1>21, <1>22

\* For each variable, the actions that may change it.
LEMMA WhoWrites ==
    ASSUME [Next]_vars
    PROVE  /\ \/ UNCHANGED current
              \/ Connect
              \/ Dispose
              \/ (\E c \in Conns : SocketCloses(c) \/ LossIsNoticed(c))
           /\ \/ UNCHANGED sock
              \/ Connect
              \/ Dispose
              \/ PingTimesOut
              \/ (\E c \in Conns : Opens(c) \/ SocketCloses(c) \/ LossIsNoticed(c))
           /\ \/ UNCHANGED pending
              \/ Dispose
              \/ SendPing
              \/ PingTimesOut
              \/ (\E r \in Requests : Request(r) \/ Abort(r))
              \/ (\E c \in Conns : SocketCloses(c) \/ LossIsNoticed(c) \/ Receive(c))
           /\ \/ UNCHANGED chunks
              \/ (\E r \in Requests : Abort(r))
              \/ (\E c \in Conns : SocketCloses(c) \/ LossIsNoticed(c) \/ Receive(c))
           /\ \/ UNCHANGED attempts
              \/ ConnectThrows
              \/ (\E c \in Conns : Opens(c) \/ SocketCloses(c) \/ LossIsNoticed(c))
           /\ \/ UNCHANGED timer
              \/ Connect
              \/ ConnectThrows
              \/ Dispose
              \/ (\E c \in Conns : SocketCloses(c) \/ LossIsNoticed(c))
           /\ \/ UNCHANGED disposed
              \/ Dispose
           /\ \/ UNCHANGED outcome
              \/ Dispose
              \/ (\E r \in Requests : Request(r) \/ Abort(r))
              \/ (\E c \in Conns : SocketCloses(c) \/ LossIsNoticed(c) \/ Receive(c))
           /\ \/ UNCHANGED got
              \/ (\E c \in Conns : Receive(c))
           /\ \/ UNCHANGED up
              \/ SendPing
              \/ (\E r \in Requests : Request(r) \/ Abort(r))
              \/ (\E c \in Conns : ReadFrame(c) \/ ReadLoopEnds(c) \/ LinkDies(c))
           /\ \/ UNCHANGED down
              \/ Dispose
              \/ PingTimesOut
              \/ (\E c \in Conns : SocketCloses(c) \/ LossIsNoticed(c) \/ Receive(c) \/ PumpWrites(c) \/ LinkDies(c))
           /\ \/ UNCHANGED dead
              \/ (\E c \in Conns : SocketCloses(c) \/ LossIsNoticed(c) \/ LinkDies(c))
           /\ \/ UNCHANGED conn
              \/ (\E c \in Conns : Opens(c) \/ ReadLoopEnds(c) \/ WriteFails(c))
           /\ \/ UNCHANGED streams
              \/ (\E r \in Requests : FinishWork(r) \/ StopWork(r))
              \/ (\E c \in Conns : ReadFrame(c) \/ WriteFails(c) \/ PumpWrites(c) \/ PumpEnds(c))
           /\ \/ UNCHANGED wake
              \/ (\E r \in Requests : FinishWork(r) \/ StopWork(r))
              \/ (\E c \in Conns : ReadFrame(c) \/ WriteFails(c) \/ PumpWakes(c) \/ PumpEnds(c))
           /\ \/ UNCHANGED pump
              \/ (\E c \in Conns : Opens(c) \/ WriteFails(c) \/ PumpFindsNothing(c) \/ PumpWakes(c) \/ PumpEnds(c))
           /\ \/ UNCHANGED work
              \/ (\E r \in Requests : StartWork(r) \/ FinishWork(r) \/ StopWork(r))
              \/ (\E c \in Conns : ReadFrame(c))
           /\ \/ UNCHANGED home
              \/ (\E c \in Conns : ReadFrame(c))
           /\ \/ UNCHANGED executed
              \/ (\E r \in Requests : Request(r) \/ FinishWork(r))
           /\ \/ UNCHANGED lag
              \/ (\E r \in Requests : FinishWork(r) \/ StopWork(r))
              \/ (\E c \in Conns : ReadFrame(c) \/ WriteFails(c) \/ PumpWrites(c) \/ PumpEnds(c))
<1>1. UNCHANGED vars => UNCHANGED <<current, sock, pending, chunks, attempts, timer, disposed, outcome, got, up, down, dead, conn, streams, wake, pump, work, home, executed, lag>>
  BY DEF vars, client, network, queue, server
<1> QED
  BY <1>1, Leaves DEF Next, Browser, Daemon


-----------------------------------------------------------------------------
(* Types. *)

\* What is assumed of the constants, named apart.
LEMMA Constants ==
    /\ IsFiniteSet(Requests) /\ Ping \notin Requests
    /\ MaxAttempts \in Nat /\ MaxConns \in Nat \ {0}
    /\ \A r \in Requests : Reply[r] \in Seq(DOMAIN Width)
BY RpcAssumption

\* The shape of a sequence without its first element.
LEMMA TailShape ==
    ASSUME NEW S, NEW t \in Seq(S), t # <<>>
    PROVE  /\ Len(t) \in Nat \ {0}
           /\ Tail(t) \in Seq(S)
           /\ Len(Tail(t)) = Len(t) - 1
           /\ Head(t) = t[1] /\ t[1] \in S
           /\ \A i \in 1..(Len(t) - 1) : Tail(t)[i] = t[i + 1]
           /\ Tail(t) = <<>> <=> Len(t) = 1
<1>1. Len(t) \in Nat \ {0} /\ Tail(t) \in Seq(S) /\ Len(Tail(t)) = Len(t) - 1
  OBVIOUS
<1>2. Tail(t) = <<>> <=> Len(Tail(t)) = 0
  BY <1>1, EmptySeq
<1> QED
  BY <1>1, <1>2

\* The shape of a sequence with one more element.
LEMMA LastShape ==
    ASSUME NEW S, NEW s \in Seq(S), NEW x \in S
    PROVE  /\ s \o <<x>> \in Seq(S)
           /\ Len(s \o <<x>>) = Len(s) + 1
           /\ (s \o <<x>>)[Len(s) + 1] = x
           /\ \A i \in 1..Len(s) : (s \o <<x>>)[i] = s[i]
OBVIOUS

\* splitResponse numbers the frames of a response and marks the last; one that fits
\* is sent plain.
LEMMA AnswerShape ==
    ASSUME NEW r \in Requests
    PROVE  /\ Answer(r) \in Seq(Frames) \ {<<>>}
           /\ Len(Answer(r)) \in Nat \ {0}
           /\ DOMAIN Answer(r) = 1..Len(Answer(r))
           /\ \A i \in DOMAIN Answer(r) :
                 /\ Answer(r)[i].id = r
                 /\ Answer(r)[i].seq = i - 1
                 /\ Answer(r)[i].last <=> i = Len(Answer(r))
           /\ \/ Answer(r) = <<Plain(r, Reply[r])>>
              \/ \A i \in DOMAIN Answer(r) : Answer(r)[i].chunk
<1>1. r \in Ids /\ Reply[r] \in Seq(DOMAIN Width)
  BY Constants DEF Ids
<1> DEFINE F == Split(r, Reply[r])
<1>2. /\ F \in Seq(Frames)
      /\ Len(F) \in Nat \ {0}
      /\ DOMAIN F = 1..Len(F)
      /\ \A i \in DOMAIN F : F[i].id = r /\ F[i].seq = i - 1 /\ (F[i].last <=> i = Len(F))
      /\ F = <<Plain(r, Reply[r])>> \/ \A i \in DOMAIN F : F[i].chunk
  BY <1>1, SplitShape
<1>3. F # <<>>
  BY <1>2
<1> QED
  BY <1>2, <1>3 DEF Answer

\* handleChunk stores a frame that comes in turn behind those it has.
LEMMA AddPartShape ==
    ASSUME NEW parts \in Seq(Seq(Letters)), NEW f \in Frames
    PROVE  /\ AddPart(parts, f) \in Seq(Seq(Letters))
           /\ f.seq = Len(parts) =>
                 /\ Len(AddPart(parts, f)) = Len(parts) + 1
                 /\ AddPart(parts, f)[Len(parts) + 1] = f.data
                 /\ \A i \in 1..Len(parts) : AddPart(parts, f)[i] = parts[i]
<1>1. f.seq \in Nat /\ f.data \in Seq(Letters) /\ Len(parts) \in Nat
  BY DEF Frames
<1> DEFINE n == IF Len(parts) > f.seq THEN Len(parts) ELSE f.seq + 1
           Item(i) == IF i = f.seq + 1 THEN f.data
                      ELSE IF i <= Len(parts) THEN parts[i] ELSE <<>>
<1>2. n \in Nat
  BY <1>1
<1>3. AddPart(parts, f) = [i \in 1..n |-> Item(i)]
  BY DEF AddPart
<1>4. \A i \in 1..n : Item(i) \in Seq(Letters)
  BY <1>1, <1>2
<1>5. f.seq = Len(parts) => n = Len(parts) + 1
  BY <1>1
<1>6. f.seq = Len(parts) => Item(Len(parts) + 1) = f.data
  BY <1>1
<1>7. f.seq = Len(parts) => \A i \in 1..Len(parts) : Item(i) = parts[i]
  BY <1>1
<1> HIDE DEF n, Item
<1> QED
  BY <1>1, <1>2, <1>3, <1>4, <1>5, <1>6, <1>7

\* A plain frame alone is a stream.
LEMMA PlainType ==
    ASSUME NEW id \in Ids
    PROVE  <<Plain(id, <<>>)>> \in Seq(Frames) \ {<<>>}
BY DEF Plain, Frames

\* The types, at the start and, one group of variables a lemma, after a step.
LEMMA InitTypes == Init => Types
<1> SUFFICES ASSUME Init PROVE Types
  OBVIOUS
<1>1. BrowserTypes
  <2>1. 0 \in 0..MaxAttempts
    BY Constants
  <2> QED
    BY <2>1 DEF Init, BrowserTypes
<1>2. FrameTypes
  BY DEF Init, FrameTypes, NoParts
<1>3. DaemonTypes
  BY DEF Init, DaemonTypes
<1> QED
  BY <1>1, <1>2, <1>3 DEF Types

LEMMA BrowserTypesStep ==
    ASSUME Types, [Next]_vars
    PROVE  BrowserTypes'
<1>1. CASE Connect
  <2>1. PICK c \in Conns : /\ current' = c
                           /\ sock' = [sock EXCEPT ![c] = "connecting"]
    BY <1>1 DEF Connect
  <2>2. /\ timer' = FALSE
        /\ UNCHANGED <<pending, attempts, disposed, outcome>>
    BY <1>1 DEF Connect
  <2> QED
    BY <2>1, <2>2 DEF Types, BrowserTypes, Conns
<1>2. CASE ConnectThrows
  <2>0. attempts \in 0..MaxAttempts
    BY DEF Types, BrowserTypes
  <2>1. CASE attempts < MaxAttempts
    <3>1. timer' = TRUE /\ attempts' = attempts + 1
      BY <1>2, <2>1 DEF ConnectThrows
    <3>2. timer' \in BOOLEAN /\ attempts' \in 0..MaxAttempts
      BY <2>0, <2>1, <3>1, Constants
    <3>3. UNCHANGED <<current, sock, disposed, pending, outcome>>
      BY <1>2 DEF ConnectThrows
    <3> QED
      BY <3>2, <3>3 DEF Types, BrowserTypes
  <2>2. CASE ~(attempts < MaxAttempts)
    <3>1. attempts' = attempts
      <4>1. ~timer'
        BY <1>2, <2>2 DEF ConnectThrows
      <4> QED
        BY <1>2, <4>1 DEF ConnectThrows
    <3>2. timer' \in BOOLEAN
      BY <1>2 DEF ConnectThrows
    <3>3. UNCHANGED <<current, sock, disposed, pending, outcome>>
      BY <1>2 DEF ConnectThrows
    <3> QED
      BY <3>1, <3>2, <3>3 DEF Types, BrowserTypes
  <2> QED
    BY <2>1, <2>2
<1>3. CASE Dispose
  BY <1>3, Constants DEF Dispose, FailPending, Deafen, Types, BrowserTypes, Ids, Conns, client, network, queue, server
<1>4. CASE SendPing
  BY <1>4, Constants DEF SendPing, IsOpen, Send, Types, BrowserTypes, Ids, Conns, client, network, queue, server
<1>5. CASE PingTimesOut
  BY <1>5, Constants DEF PingTimesOut, Deafen, Types, BrowserTypes, Ids, Conns, client, network, queue, server
<1>6. ASSUME NEW r \in Requests, Request(r) PROVE BrowserTypes'
  BY <1>6, Constants DEF Request, IsOpen, Send, Types, BrowserTypes, Ids, Conns, client, network, queue, server
<1>7. ASSUME NEW r \in Requests, Abort(r) PROVE BrowserTypes'
  BY <1>7, Constants DEF Abort, IsOpen, Send, Types, BrowserTypes, Ids, Conns, client, network, queue, server
<1>8. ASSUME NEW c \in Conns, Opens(c) PROVE BrowserTypes'
  BY <1>8, Constants DEF Opens, Types, BrowserTypes, Ids, Conns, client, network, queue, server
<1>9. ASSUME NEW c \in Conns, SocketCloses(c) PROVE BrowserTypes'
  <2>1. HandleClose(c)
    BY <1>9 DEF SocketCloses
  <2>2. timer' \in BOOLEAN /\ attempts' \in 0..MaxAttempts
    <3>1. \/ timer' = timer /\ attempts' = attempts
          \/ timer' = TRUE /\ attempts' = attempts + 1 /\ attempts < MaxAttempts
      <4>1. attempts \in 0..MaxAttempts
        BY DEF Types, BrowserTypes
      <4>2. ~(attempts >= MaxAttempts) => attempts < MaxAttempts
        BY <4>1, Constants
      <4> QED
        BY <2>1, <4>2 DEF HandleClose, ScheduleReconnect
    <3>2. timer \in BOOLEAN /\ attempts \in 0..MaxAttempts
      BY DEF Types, BrowserTypes
    <3>3. timer' \in BOOLEAN
      BY <3>1, <3>2
    <3>4. attempts' \in 0..MaxAttempts
      <4>1. attempts < MaxAttempts => attempts + 1 \in 0..MaxAttempts
        BY <3>2, Constants
      <4> QED
        BY <3>1, <3>2, <4>1
    <3> QED
      BY <3>3, <3>4
  <2>3. /\ sock' = [sock EXCEPT ![c] = "closed"]
        /\ current' = 0
        /\ pending' = {}
        /\ outcome' = [r \in Requests |-> IF r \in pending THEN "failed" ELSE outcome[r]]
        /\ disposed' = disposed
    BY <2>1 DEF HandleClose, FailPending
  <2> QED
    BY <2>2, <2>3 DEF Types, BrowserTypes
<1>10. ASSUME NEW c \in Conns, LossIsNoticed(c) PROVE BrowserTypes'
  <2>1. HandleClose(c)
    BY <1>10 DEF LossIsNoticed
  <2>2. timer' \in BOOLEAN /\ attempts' \in 0..MaxAttempts
    <3>1. \/ timer' = timer /\ attempts' = attempts
          \/ timer' = TRUE /\ attempts' = attempts + 1 /\ attempts < MaxAttempts
      <4>1. attempts \in 0..MaxAttempts
        BY DEF Types, BrowserTypes
      <4>2. ~(attempts >= MaxAttempts) => attempts < MaxAttempts
        BY <4>1, Constants
      <4> QED
        BY <2>1, <4>2 DEF HandleClose, ScheduleReconnect
    <3>2. timer \in BOOLEAN /\ attempts \in 0..MaxAttempts
      BY DEF Types, BrowserTypes
    <3>3. timer' \in BOOLEAN
      BY <3>1, <3>2
    <3>4. attempts' \in 0..MaxAttempts
      <4>1. attempts < MaxAttempts => attempts + 1 \in 0..MaxAttempts
        BY <3>2, Constants
      <4> QED
        BY <3>1, <3>2, <4>1
    <3> QED
      BY <3>3, <3>4
  <2>3. /\ sock' = [sock EXCEPT ![c] = "closed"]
        /\ current' = 0
        /\ pending' = {}
        /\ outcome' = [r \in Requests |-> IF r \in pending THEN "failed" ELSE outcome[r]]
        /\ disposed' = disposed
    BY <2>1 DEF HandleClose, FailPending
  <2> QED
    BY <2>2, <2>3 DEF Types, BrowserTypes
<1>11. ASSUME NEW c \in Conns, Receive(c) PROVE BrowserTypes'
  BY <1>11, Constants DEF Receive, HandleChunk, Settle, Types, BrowserTypes, Ids, Conns, client, network, queue, server
<1>12. CASE UNCHANGED <<current, sock, attempts, timer, disposed, pending, outcome>>
  BY <1>12 DEF Types, BrowserTypes, Ids, Conns
<1> QED
  BY <1>1, <1>2, <1>3, <1>4, <1>5, <1>6, <1>7, <1>8, <1>9, <1>10, <1>11, <1>12, WhoWrites

LEMMA DaemonTypesStep ==
    ASSUME Types, [Next]_vars
    PROVE  DaemonTypes'
<1>1. ASSUME NEW r \in Requests, Request(r) PROVE DaemonTypes'
  BY <1>1 DEF Request, IsOpen, Send, Types, FrameTypes, DaemonTypes, Ids, client, network, queue, server
<1>2. ASSUME NEW c \in Conns, Opens(c) PROVE DaemonTypes'
  BY <1>2 DEF Opens, Types, FrameTypes, DaemonTypes, Ids, client, network, queue, server
<1>3. ASSUME NEW c \in Conns, SocketCloses(c) PROVE DaemonTypes'
  BY <1>3 DEF SocketCloses, HandleClose, FailPending, ScheduleReconnect, Deafen, Types, FrameTypes, DaemonTypes, Ids, client, network, queue, server
<1>4. ASSUME NEW c \in Conns, LossIsNoticed(c) PROVE DaemonTypes'
  BY <1>4 DEF LossIsNoticed, HandleClose, FailPending, ScheduleReconnect, Deafen, Types, FrameTypes, DaemonTypes, Ids, client, network, queue, server
<1>5. ASSUME NEW r \in Requests, StartWork(r) PROVE DaemonTypes'
  BY <1>5 DEF StartWork, Types, FrameTypes, DaemonTypes, Ids, client, network, queue, server
<1>6. ASSUME NEW r \in Requests, FinishWork(r) PROVE DaemonTypes'
  <2>1. /\ work' = [work EXCEPT ![r] = "done"]
        /\ executed' = [executed EXCEPT ![r] = executed[r] + 1]
        /\ wake' = [wake EXCEPT ![home[r]] = wake[home[r]] \/ pump[home[r]] # "stopped"]
        /\ lag' = [lag EXCEPT ![r] = 0]
        /\ UNCHANGED <<dead, conn, pump, home>>
    BY <1>6 DEF FinishWork, Enqueue, Push, client, network
  <2>2. DaemonTypes
    BY DEF Types
  <2>3. executed' \in [Requests -> Nat]
    <3>1. executed[r] + 1 \in Nat /\ executed \in [Requests -> Nat]
      BY <2>2 DEF DaemonTypes
    <3> QED
      BY <2>1, <3>1
  <2> QED
    BY <2>1, <2>2, <2>3 DEF DaemonTypes
<1>7. ASSUME NEW r \in Requests, StopWork(r) PROVE DaemonTypes'
  BY <1>7 DEF StopWork, Enqueue, Push, Types, FrameTypes, DaemonTypes, Ids, client, network, queue, server
<1>8. ASSUME NEW c \in Conns, ReadFrame(c) PROVE DaemonTypes'
  <2>1. DaemonTypes /\ up[c] \in Seq(Messages) /\ up[c] # <<>>
    BY <1>8 DEF ReadFrame, Types, FrameTypes
  <2>2. Head(up[c]) \in Messages
    BY <2>1
  <2>3. UNCHANGED <<dead, conn, pump, executed>>
    BY <1>8 DEF ReadFrame, network, client
  <2>4. CASE Head(up[c]).kind = "ping"
    <3>1. Enqueue(c, Ping, <<Plain(Ping, <<>>)>>) /\ UNCHANGED <<work, home>>
      BY <1>8, <2>4 DEF ReadFrame, HandleFrame
    <3> QED
      BY <2>1, <2>3, <3>1 DEF Enqueue, Push, DaemonTypes, Ids
  <2>5. CASE Head(up[c]).kind = "cancel"
    <3>1. /\ work' \in {work, [work EXCEPT ![Head(up[c]).id] = "cancelled"]}
          /\ UNCHANGED <<home, wake, lag>>
      BY <1>8, <2>5 DEF ReadFrame, HandleFrame, queue
    <3>2. Head(up[c]).id \in Requests
      BY <2>2, <2>5 DEF Messages
    <3> QED
      BY <2>1, <2>3, <3>1, <3>2 DEF DaemonTypes
  <2>6. CASE Head(up[c]).kind = "request"
    <3>1. /\ work' = [work EXCEPT ![Head(up[c]).id] = "spawned"]
          /\ home' = [home EXCEPT ![Head(up[c]).id] = c]
          /\ UNCHANGED <<wake, lag>>
      BY <1>8, <2>6 DEF ReadFrame, HandleFrame, queue
    <3>2. Head(up[c]).id \in Requests
      BY <2>2, <2>6 DEF Messages
    <3> QED
      BY <2>1, <2>3, <3>1, <3>2 DEF DaemonTypes
  <2> QED
    BY <2>2, <2>4, <2>5, <2>6 DEF Messages
<1>9. ASSUME NEW c \in Conns, ReadLoopEnds(c) PROVE DaemonTypes'
  BY <1>9 DEF ReadLoopEnds, Types, FrameTypes, DaemonTypes, Ids, client, network, queue, server
<1>10. ASSUME NEW c \in Conns, WriteFails(c) PROVE DaemonTypes'
  <2>1. /\ pump' = [pump EXCEPT ![c] = "stopped"]
        /\ wake' = [wake EXCEPT ![c] = FALSE]
        /\ lag' = [i \in Ids |-> IF i \in Waiting(streams[c]) THEN 0 ELSE lag[i]]
        /\ UNCHANGED <<dead, work, home, executed>>
        /\ conn' \in {conn, [conn EXCEPT ![c] = IF conn[c] = "live" THEN "cancelled" ELSE conn[c]]}
    BY <1>10 DEF WriteFails, StopPump, client, network
  <2> QED
    BY <2>1 DEF Types, DaemonTypes
<1>11. ASSUME NEW c \in Conns, PumpWrites(c) PROVE DaemonTypes'
  <2>1. /\ UNCHANGED <<dead, conn, pump, work, home, executed, wake>>
        /\ Turn(c)
    BY <1>11 DEF PumpWrites, NextFrame, client
  <2> QED
    BY <2>1 DEF Turn, Types, DaemonTypes
<1>12. ASSUME NEW c \in Conns, PumpFindsNothing(c) PROVE DaemonTypes'
  BY <1>12 DEF PumpFindsNothing, Types, FrameTypes, DaemonTypes, Ids, client, network, queue, server
<1>13. ASSUME NEW c \in Conns, PumpWakes(c) PROVE DaemonTypes'
  BY <1>13 DEF PumpWakes, Types, FrameTypes, DaemonTypes, Ids, client, network, queue, server
<1>14. ASSUME NEW c \in Conns, PumpEnds(c) PROVE DaemonTypes'
  <2>1. /\ pump' = [pump EXCEPT ![c] = "stopped"]
        /\ wake' = [wake EXCEPT ![c] = FALSE]
        /\ lag' = [i \in Ids |-> IF i \in Waiting(streams[c]) THEN 0 ELSE lag[i]]
        /\ UNCHANGED <<dead, work, home, executed>>
        /\ conn' \in {conn, [conn EXCEPT ![c] = IF conn[c] = "live" THEN "cancelled" ELSE conn[c]]}
    BY <1>14 DEF PumpEnds, StopPump, client, network
  <2> QED
    BY <2>1 DEF Types, DaemonTypes
<1>15. ASSUME NEW c \in Conns, LinkDies(c) PROVE DaemonTypes'
  BY <1>15 DEF LinkDies, Types, FrameTypes, DaemonTypes, Ids, client, network, queue, server
<1>16. CASE UNCHANGED <<dead, conn, wake, pump, work, home, executed, lag>>
  BY <1>16 DEF Types, FrameTypes, DaemonTypes, Ids
<1> QED
  BY <1>1, <1>2, <1>3, <1>4, <1>5, <1>6, <1>7, <1>8, <1>9, <1>10, <1>11, <1>12, <1>13, <1>14, <1>15, <1>16, WhoWrites

\* What the browser sends are messages.
LEMMA MessageTypes ==
    /\ \A r \in Requests : /\ [kind |-> "request", id |-> r] \in Messages
                           /\ [kind |-> "cancel", id |-> r] \in Messages
    /\ [kind |-> "ping", id |-> Ping] \in Messages
BY DEF Messages

\* send() appends to the current connection, unless the other end has gone.
LEMMA SendShape ==
    ASSUME Types, NEW m \in Messages, IsOpen, Send(m)
    PROVE  /\ current \in Conns
           /\ up' = [up EXCEPT ![current] = IF current \in dead THEN up[current]
                                            ELSE Append(up[current], m)]
           /\ up' \in [Conns -> Seq(Messages)]
<1>1. current \in Conns
  BY DEF Types, BrowserTypes, IsOpen
<1>2. up \in [Conns -> Seq(Messages)] /\ up[current] \in Seq(Messages)
  BY <1>1 DEF Types, FrameTypes
<1>3. Append(up[current], m) \in Seq(Messages)
  BY <1>2
<1> QED
  BY <1>1, <1>2, <1>3 DEF Send

LEMMA UpTypesStep ==
    ASSUME Types, [Next]_vars
    PROVE  up' \in [Conns -> Seq(Messages)]
<1>1. CASE SendPing
  BY <1>1, MessageTypes, SendShape DEF SendPing
<1>2. ASSUME NEW r \in Requests, Request(r) PROVE up' \in [Conns -> Seq(Messages)]
  <2>1. CASE IsOpen
    BY <1>2, <2>1, MessageTypes, SendShape DEF Request
  <2>2. CASE ~IsOpen
    BY <1>2, <2>2 DEF Request, Types, FrameTypes
  <2> QED
    BY <2>1, <2>2
<1>3. ASSUME NEW r \in Requests, Abort(r) PROVE up' \in [Conns -> Seq(Messages)]
  <2>1. CASE IsOpen
    BY <1>3, <2>1, MessageTypes, SendShape DEF Abort
  <2>2. CASE ~IsOpen
    BY <1>3, <2>2 DEF Abort, Types, FrameTypes
  <2> QED
    BY <2>1, <2>2
<1>4. ASSUME NEW c \in Conns, ReadFrame(c) PROVE up' \in [Conns -> Seq(Messages)]
  <2>1. up[c] \in Seq(Messages) /\ up[c] # <<>> /\ up' = [up EXCEPT ![c] = Tail(up[c])]
    BY <1>4 DEF ReadFrame, Types, FrameTypes
  <2>2. Tail(up[c]) \in Seq(Messages)
    BY <2>1
  <2> QED
    BY <2>1, <2>2 DEF Types, FrameTypes
<1>5. ASSUME NEW c \in Conns, ReadLoopEnds(c) PROVE up' \in [Conns -> Seq(Messages)]
  BY <1>5 DEF ReadLoopEnds, Types, FrameTypes, client, network, queue, server
<1>6. ASSUME NEW c \in Conns, LinkDies(c) PROVE up' \in [Conns -> Seq(Messages)]
  BY <1>6 DEF LinkDies, Types, FrameTypes, client, network, queue, server
<1>7. CASE UNCHANGED <<up>>
  BY <1>7 DEF Types, FrameTypes
<1> QED
  BY <1>1, <1>2, <1>3, <1>4, <1>5, <1>6, <1>7, WhoWrites

LEMMA DownTypesStep ==
    ASSUME Types, [Next]_vars
    PROVE  down' \in [Conns -> Seq(Frames)]
<1>1. CASE Dispose
  <2>1. down' \in {down, [down EXCEPT ![current] = <<>>]}
    BY <1>1 DEF Dispose, Deafen
  <2>2. <<>> \in Seq(Frames)
    OBVIOUS
  <2> QED
    BY <2>1, <2>2 DEF Types, FrameTypes
<1>2. CASE PingTimesOut
  <2>1. down' \in {down, [down EXCEPT ![current] = <<>>]}
    BY <1>2 DEF PingTimesOut, Deafen
  <2>2. <<>> \in Seq(Frames)
    OBVIOUS
  <2> QED
    BY <2>1, <2>2 DEF Types, FrameTypes
<1>3. ASSUME NEW c \in Conns, SocketCloses(c) PROVE down' \in [Conns -> Seq(Frames)]
  BY <1>3 DEF SocketCloses, HandleClose, FailPending, ScheduleReconnect, Deafen, Types, FrameTypes, BrowserTypes, client, network, queue, server
<1>4. ASSUME NEW c \in Conns, LossIsNoticed(c) PROVE down' \in [Conns -> Seq(Frames)]
  BY <1>4 DEF LossIsNoticed, HandleClose, FailPending, ScheduleReconnect, Deafen, Types, FrameTypes, BrowserTypes, client, network, queue, server
<1>5. ASSUME NEW c \in Conns, Receive(c) PROVE down' \in [Conns -> Seq(Frames)]
  <2>1. down[c] \in Seq(Frames) /\ down[c] # <<>> /\ down' = [down EXCEPT ![c] = Tail(down[c])]
    BY <1>5 DEF Receive, Types, FrameTypes
  <2>2. Tail(down[c]) \in Seq(Frames)
    BY <2>1
  <2> QED
    BY <2>1, <2>2 DEF Types, FrameTypes
<1>6. ASSUME NEW c \in Conns, PumpWrites(c) PROVE down' \in [Conns -> Seq(Frames)]
  <2>1. streams[c] \in Seq(Seq(Frames) \ {<<>>}) /\ streams[c] # <<>> /\ down[c] \in Seq(Frames)
    BY <1>6 DEF PumpWrites, NextFrame, Types, FrameTypes
  <2>2. Head(streams[c]) \in Seq(Frames) \ {<<>>}
    BY <2>1
  <2>3. Head(streams[c])[1] \in Frames
    BY <2>2
  <2>4. Append(down[c], Head(streams[c])[1]) \in Seq(Frames)
    BY <2>1, <2>3
  <2>5. down' \in {down, [down EXCEPT ![c] = Append(down[c], Head(streams[c])[1])]}
    BY <1>6 DEF PumpWrites
  <2> QED
    BY <2>4, <2>5 DEF Types, FrameTypes
<1>7. ASSUME NEW c \in Conns, LinkDies(c) PROVE down' \in [Conns -> Seq(Frames)]
  BY <1>7 DEF LinkDies, Types, FrameTypes, BrowserTypes, client, network, queue, server
<1>8. CASE UNCHANGED <<down>>
  BY <1>8 DEF Types, FrameTypes, BrowserTypes
<1> QED
  BY <1>1, <1>2, <1>3, <1>4, <1>5, <1>6, <1>7, <1>8, WhoWrites

\* enqueue() appends a stream, and drops it once the pump has stopped.
LEMMA PushShape ==
    ASSUME Types, NEW c \in Conns, NEW id, NEW s \in Seq(Frames) \ {<<>>}, Push(c, id, s)
    PROVE  /\ streams' \in [Conns -> Seq(Seq(Frames) \ {<<>>})]
           /\ pump[c] = "stopped" => streams' = streams
           /\ pump[c] # "stopped" => streams' = [streams EXCEPT ![c] = Append(streams[c], s)]
<1>1. streams \in [Conns -> Seq(Seq(Frames) \ {<<>>})] /\ streams[c] \in Seq(Seq(Frames) \ {<<>>})
  BY DEF Types, FrameTypes
<1>2. Append(streams[c], s) \in Seq(Seq(Frames) \ {<<>>})
  BY <1>1
<1> QED
  BY <1>1, <1>2 DEF Push

\* What the pump leaves of a queue: the others move up, and the rest of the first
\* stream, if there is one, goes behind them.
LEMMA NextFrameShape ==
    ASSUME Types, NEW c \in Conns, NextFrame(c)
    PROVE  /\ streams[c] \in Seq(Seq(Frames) \ {<<>>})
           /\ Len(streams[c]) \in Nat \ {0}
           /\ Head(streams[c]) = streams[c][1]
           /\ streams[c][1] \in Seq(Frames) \ {<<>>}
           /\ Head(streams[c])[1] \in Frames
           /\ streams' = [streams EXCEPT ![c] = streams'[c]]
           /\ streams'[c] \in Seq(Seq(Frames) \ {<<>>})
           /\ \A i \in 1..(Len(streams[c]) - 1) : streams'[c][i] = streams[c][i + 1]
           /\ Len(streams[c][1]) = 1 => Len(streams'[c]) = Len(streams[c]) - 1
           /\ Len(streams[c][1]) # 1 => /\ Len(streams'[c]) = Len(streams[c])
                                       /\ streams'[c][Len(streams[c])] = Tail(streams[c][1])
<1> DEFINE Streams == Seq(Frames) \ {<<>>}
<1>1. PICK s \in Seq(Streams) : s = streams[c] /\ s # <<>>
  BY DEF NextFrame, Types, FrameTypes
<1>2. /\ Len(s) \in Nat \ {0} /\ Head(s) = s[1] /\ s[1] \in Streams
      /\ Tail(s) \in Seq(Streams) /\ Len(Tail(s)) = Len(s) - 1
      /\ \A i \in 1..(Len(s) - 1) : Tail(s)[i] = s[i + 1]
  <2> HIDE DEF Streams
  <2> QED
    BY <1>1, TailShape
<1>3. PICK t \in Seq(Frames) : t = s[1] /\ t # <<>>
  BY <1>2
<1>4. /\ Len(t) \in Nat \ {0} /\ t[1] \in Frames
      /\ Tail(t) \in Seq(Frames) /\ (Tail(t) = <<>> <=> Len(t) = 1)
  BY <1>3, TailShape
<1>5. Rest(c) = IF Len(t) = 1 THEN <<>> ELSE <<Tail(t)>>
  BY <1>1, <1>2, <1>3, <1>4 DEF Rest
<1>6. streams' = [streams EXCEPT ![c] = Tail(s) \o Rest(c)] /\ streams'[c] = Tail(s) \o Rest(c)
  BY <1>1 DEF NextFrame, Types, FrameTypes
<1>7. CASE Len(t) = 1
  <2>1. Tail(s) \o Rest(c) = Tail(s)
    BY <1>2, <1>5, <1>7
  <2> QED
    BY <1>1, <1>2, <1>3, <1>4, <1>6, <1>7, <2>1
<1>8. CASE Len(t) # 1
  <2>1. Tail(t) \in Streams
    BY <1>4, <1>8
  <2>2. Rest(c) = <<Tail(t)>>
    BY <1>5, <1>8
  <2> HIDE DEF Streams
  <2>3. /\ Tail(s) \o <<Tail(t)>> \in Seq(Streams)
        /\ Len(Tail(s) \o <<Tail(t)>>) = Len(Tail(s)) + 1
        /\ (Tail(s) \o <<Tail(t)>>)[Len(Tail(s)) + 1] = Tail(t)
        /\ \A i \in 1..Len(Tail(s)) : (Tail(s) \o <<Tail(t)>>)[i] = Tail(s)[i]
    BY <1>2, <2>1, LastShape
  <2>4. Len(Tail(s)) + 1 = Len(s)
    BY <1>2
  <2>5. /\ streams'[c] \in Seq(Streams) /\ Len(streams'[c]) = Len(s)
        /\ streams'[c][Len(s)] = Tail(t)
        /\ \A i \in 1..(Len(s) - 1) : streams'[c][i] = s[i + 1]
    <3>1. streams'[c] = Tail(s) \o <<Tail(t)>>
      BY <1>6, <2>2
    <3>2. 1..Len(Tail(s)) = 1..(Len(s) - 1)
      BY <1>2
    <3> QED
      BY <1>2, <2>3, <2>4, <3>1, <3>2
  <2>6. streams' = [streams EXCEPT ![c] = streams'[c]]
    BY <1>6
  <2>7. Head(streams[c])[1] \in Frames
    BY <1>1, <1>2, <1>3, <1>4
  <2> USE DEF Streams
  <2> QED
    BY <1>1, <1>2, <1>3, <1>8, <2>5, <2>6, <2>7
<1> QED
  BY <1>4, <1>7, <1>8

LEMMA StreamsTypesStep ==
    ASSUME Types, Opened, [Next]_vars
    PROVE  streams' \in [Conns -> Seq(Seq(Frames) \ {<<>>})]
<1>1. ASSUME NEW r \in Requests, FinishWork(r) PROVE streams' \in [Conns -> Seq(Seq(Frames) \ {<<>>})]
  <2>1. Push(home[r], r, Answer(r)) /\ home[r] \in Conns
    BY <1>1 DEF FinishWork, Enqueue, Answer, Opened
  <2> QED
    BY <2>1, AnswerShape, PushShape
<1>2. ASSUME NEW r \in Requests, StopWork(r) PROVE streams' \in [Conns -> Seq(Seq(Frames) \ {<<>>})]
  <2>1. Push(home[r], r, <<Plain(r, <<>>)>>) /\ home[r] \in Conns /\ r \in Ids
    BY <1>2 DEF StopWork, Enqueue, Opened, Ids
  <2> QED
    BY <2>1, PlainType, PushShape
<1>3. ASSUME NEW c \in Conns, ReadFrame(c) PROVE streams' \in [Conns -> Seq(Seq(Frames) \ {<<>>})]
  <2>1. CASE Head(up[c]).kind = "ping"
    <3>1. Push(c, Ping, <<Plain(Ping, <<>>)>>) /\ Ping \in Ids
      BY <1>3, <2>1 DEF ReadFrame, HandleFrame, Enqueue, Ids
    <3> QED
      BY <3>1, PlainType, PushShape
  <2>2. CASE Head(up[c]).kind # "ping"
    <3>1. streams' = streams
      BY <1>3, <2>2 DEF ReadFrame, HandleFrame, queue
    <3> QED
      BY <3>1 DEF Types, FrameTypes
  <2> QED
    BY <2>1, <2>2
<1>4. ASSUME NEW c \in Conns, WriteFails(c) PROVE streams' \in [Conns -> Seq(Seq(Frames) \ {<<>>})]
  BY <1>4 DEF WriteFails, StopPump, Types, FrameTypes, client, network, queue, server
<1>5. ASSUME NEW c \in Conns, PumpWrites(c) PROVE streams' \in [Conns -> Seq(Seq(Frames) \ {<<>>})]
  <2>1. NextFrame(c)
    BY <1>5 DEF PumpWrites
  <2> QED
    BY <2>1, NextFrameShape DEF Types, FrameTypes
<1>6. ASSUME NEW c \in Conns, PumpEnds(c) PROVE streams' \in [Conns -> Seq(Seq(Frames) \ {<<>>})]
  BY <1>6 DEF PumpEnds, StopPump, Types, FrameTypes, client, network, queue, server
<1>7. CASE UNCHANGED <<streams>>
  BY <1>7 DEF Types, FrameTypes
<1> QED
  BY <1>1, <1>2, <1>3, <1>4, <1>5, <1>6, <1>7, WhoWrites

LEMMA ChunksTypesStep ==
    ASSUME Types, [Next]_vars
    PROVE  chunks' \in [Ids -> Seq(Seq(Letters))]
<1>1. ASSUME NEW r \in Requests, Abort(r) PROVE chunks' \in [Ids -> Seq(Seq(Letters))]
  <2>1. chunks' = [chunks EXCEPT ![r] = <<>>]
    BY <1>1 DEF Abort, NoParts
  <2>2. <<>> \in Seq(Seq(Letters))
    OBVIOUS
  <2> QED
    BY <2>1, <2>2 DEF Types, FrameTypes
<1>2. ASSUME NEW c \in Conns, SocketCloses(c) PROVE chunks' \in [Ids -> Seq(Seq(Letters))]
  BY <1>2 DEF SocketCloses, HandleClose, FailPending, ScheduleReconnect, Deafen, Types, FrameTypes, NoParts, client, network, queue, server
<1>3. ASSUME NEW c \in Conns, LossIsNoticed(c) PROVE chunks' \in [Ids -> Seq(Seq(Letters))]
  BY <1>3 DEF LossIsNoticed, HandleClose, FailPending, ScheduleReconnect, Deafen, Types, FrameTypes, NoParts, client, network, queue, server
<1>4. ASSUME NEW c \in Conns, Receive(c) PROVE chunks' \in [Ids -> Seq(Seq(Letters))]
  <2>1. down[c] \in Seq(Frames) /\ down[c] # <<>>
    BY <1>4 DEF Receive, Types, FrameTypes
  <2>2. Head(down[c]) \in Frames
    BY <2>1
  <2>3. Head(down[c]).id \in Ids
    BY <2>2 DEF Frames
  <2>4. AddPart(chunks[Head(down[c]).id], Head(down[c])) \in Seq(Seq(Letters))
    BY <2>2, <2>3, AddPartShape DEF Types, FrameTypes
  <2>5. chunks' \in {chunks,
                     [chunks EXCEPT ![Head(down[c]).id] = NoParts],
                     [chunks EXCEPT ![Head(down[c]).id] =
                                       AddPart(chunks[Head(down[c]).id], Head(down[c]))]}
    BY <1>4 DEF Receive, HandleChunk
  <2>6. NoParts \in Seq(Seq(Letters))
    BY DEF NoParts
  <2> QED
    BY <2>4, <2>5, <2>6 DEF Types, FrameTypes
<1>5. CASE UNCHANGED <<chunks>>
  BY <1>5 DEF Types, FrameTypes, NoParts
<1> QED
  BY <1>1, <1>2, <1>3, <1>4, <1>5, WhoWrites

LEMMA GotTypesStep ==
    ASSUME Types, [Next]_vars
    PROVE  got' \in [Requests -> Seq(Letters)]
<1>1. ASSUME NEW c \in Conns, Receive(c) PROVE got' \in [Requests -> Seq(Letters)]
  <2>1. down[c] \in Seq(Frames) /\ down[c] # <<>>
    BY <1>1 DEF Receive, Types, FrameTypes
  <2>2. Head(down[c]) \in Frames
    BY <2>1
  <2>3. Head(down[c]).id \in Ids /\ Head(down[c]).data \in Seq(Letters)
    BY <2>2 DEF Frames
  <2>4. AddPart(chunks[Head(down[c]).id], Head(down[c])) \in Seq(Seq(Letters))
    BY <2>2, <2>3, AddPartShape DEF Types, FrameTypes
  <2>5. FlattenSeq(AddPart(chunks[Head(down[c]).id], Head(down[c]))) \in Seq(Letters)
    BY <2>4, FlattenType
  <2>6. \/ got' = got
        \/ \E text \in {Head(down[c]).data, <<>>,
                        FlattenSeq(AddPart(chunks[Head(down[c]).id], Head(down[c])))} :
              got' = [got EXCEPT ![Head(down[c]).id] = text]
    BY <1>1 DEF Receive, HandleChunk, Settle
  <2>7. <<>> \in Seq(Letters)
    OBVIOUS
  <2> QED
    BY <2>3, <2>5, <2>6, <2>7 DEF Types, FrameTypes
<1>2. CASE UNCHANGED <<got>>
  BY <1>2 DEF Types, FrameTypes
<1> QED
  BY <1>1, <1>2, WhoWrites

LEMMA TypesStep ==
    ASSUME Types, Opened, [Next]_vars
    PROVE  Types'
<1>1. FrameTypes'
  BY UpTypesStep, DownTypesStep, StreamsTypesStep, ChunksTypesStep, GotTypesStep DEF FrameTypes
<1> QED
  BY <1>1, BrowserTypesStep, DaemonTypesStep DEF Types


-----------------------------------------------------------------------------
(* The sockets, the timer, and who was sent what. *)

\* What the daemon does with the first frame on its way up.
LEMMA ReadFrameSteps ==
    ASSUME Types, NEW c \in Conns, ReadFrame(c)
    PROVE  /\ conn[c] \in {"live", "cancelled"}
           /\ up[c] \in Seq(Messages) /\ Len(up[c]) \in Nat \ {0}
           /\ up' = [up EXCEPT ![c] = Tail(up[c])]
           /\ up[c][1] \in Messages
           /\ UNCHANGED <<client, down, dead, conn, pump, executed>>
           /\ \/ /\ up[c][1] = [kind |-> "ping", id |-> Ping]
                 /\ Push(c, Ping, <<Plain(Ping, <<>>)>>)
                 /\ wake' = [wake EXCEPT ![c] = wake[c] \/ pump[c] # "stopped"]
                 /\ UNCHANGED <<work, home>>
              \/ /\ up[c][1].kind = "cancel" /\ up[c][1].id \in Requests
                 /\ \/ work' = work
                    \/ /\ work[up[c][1].id] \in {"running", "cancelled"}
                       /\ home[up[c][1].id] = c
                       /\ work' = [work EXCEPT ![up[c][1].id] = "cancelled"]
                 /\ UNCHANGED <<home, queue>>
              \/ /\ up[c][1].kind = "request" /\ up[c][1].id \in Requests
                 /\ work' = [work EXCEPT ![up[c][1].id] = "spawned"]
                 /\ home' = [home EXCEPT ![up[c][1].id] = c]
                 /\ UNCHANGED queue
<1>1. /\ conn[c] \in {"live", "cancelled"} /\ up[c] # <<>>
      /\ up' = [up EXCEPT ![c] = Tail(up[c])]
      /\ HandleFrame(c, Head(up[c]))
      /\ UNCHANGED <<client, down, dead, conn, pump, executed>>
  BY DEF ReadFrame
<1>2. up[c] \in Seq(Messages)
  BY DEF Types, FrameTypes
<1>3. Len(up[c]) \in Nat \ {0} /\ Head(up[c]) = up[c][1] /\ up[c][1] \in Messages
  BY <1>1, <1>2, TailShape
<1>4. PICK m \in Messages : m = up[c][1] /\ HandleFrame(c, m)
  BY <1>1, <1>3
<1>5. CASE m.kind = "ping"
  <2>1. m = [kind |-> "ping", id |-> Ping]
    BY <1>5 DEF Messages
  <2>2. Enqueue(c, Ping, <<Plain(Ping, <<>>)>>) /\ UNCHANGED <<work, home>>
    BY <1>4, <1>5 DEF HandleFrame
  <2> QED
    BY <1>1, <1>2, <1>3, <1>4, <2>1, <2>2 DEF Enqueue
<1>6. CASE m.kind = "cancel"
  <2>1. m.id \in Requests
    BY <1>6 DEF Messages
  <2>2. /\ work' = IF m.id \in Inflight(c) THEN [work EXCEPT ![m.id] = "cancelled"] ELSE work
        /\ UNCHANGED <<home, queue>>
    BY <1>4, <1>6 DEF HandleFrame
  <2>3. m.id \in Inflight(c) => home[m.id] = c /\ work[m.id] \in {"running", "cancelled"}
    BY DEF Inflight
  <2> QED
    BY <1>1, <1>2, <1>3, <1>4, <1>6, <2>1, <2>2, <2>3
<1>7. CASE m.kind = "request"
  <2>1. m.id \in Requests
    BY <1>7 DEF Messages
  <2>2. /\ work' = [work EXCEPT ![m.id] = "spawned"]
        /\ home' = [home EXCEPT ![m.id] = c]
        /\ UNCHANGED queue
    BY <1>4, <1>7 DEF HandleFrame
  <2> QED
    BY <1>1, <1>2, <1>3, <1>4, <1>7, <2>1, <2>2
<1> QED
  BY <1>5, <1>6, <1>7 DEF Messages

\* One socket, and a timer only without it.
LEMMA SocketsStep ==
    ASSUME Types, Sockets, [Next]_vars
    PROVE  Sockets'
<1>1. CASE Connect
  <2>1. PICK c \in Conns : /\ sock[c] = "unused"
                           /\ current' = c
                           /\ sock' = [sock EXCEPT ![c] = "connecting"]
    BY <1>1 DEF Connect
  <2>2. /\ timer /\ timer' = FALSE
        /\ UNCHANGED <<pending, attempts, disposed, outcome>>
    BY <1>1 DEF Connect
  <2>3. /\ current = 0 /\ ~disposed /\ c # 0
        /\ \A d \in Conns : sock[d] \notin {"connecting", "open", "closing"}
        /\ pending = {}
    BY <2>2, Constants DEF Sockets, Types, BrowserTypes, Conns
  <2>4. \A d \in Conns : sock'[d] = IF d = c THEN "connecting" ELSE sock[d]
    BY <2>1 DEF Types, BrowserTypes
  <2> QED
    BY <2>1, <2>2, <2>3, <2>4 DEF Sockets
<1>2. CASE ConnectThrows
  <2>1. timer /\ UNCHANGED <<current, sock, pending, disposed, outcome>>
    BY <1>2 DEF ConnectThrows
  <2>2. current = 0 /\ ~disposed /\ pending = {}
    BY <2>1 DEF Sockets
  <2>3. ~timer' => attempts' = MaxAttempts
    <3>1. ~timer' => attempts' = attempts /\ ~(attempts < MaxAttempts)
      BY <1>2 DEF ConnectThrows
    <3> QED
      BY <3>1, Constants DEF Types, BrowserTypes
  <2> QED
    BY <2>1, <2>2, <2>3 DEF Sockets
<1>3. CASE Dispose
  BY <1>3, Constants DEF Dispose, FailPending, Deafen, Sockets, Types, BrowserTypes, Ids, Conns, client, network, queue, server
<1>4. CASE SendPing
  BY <1>4, Constants DEF SendPing, IsOpen, Send, Sockets, Types, BrowserTypes, Ids, Conns, client, network, queue, server
<1>5. CASE PingTimesOut
  BY <1>5, Constants DEF PingTimesOut, Deafen, Sockets, Types, BrowserTypes, Ids, Conns, client, network, queue, server
<1>6. ASSUME NEW r \in Requests, Request(r) PROVE Sockets'
  BY <1>6, Constants DEF Request, IsOpen, Send, Sockets, Types, BrowserTypes, Ids, Conns, client, network, queue, server
<1>7. ASSUME NEW r \in Requests, Abort(r) PROVE Sockets'
  BY <1>7, Constants DEF Abort, IsOpen, Send, Sockets, Types, BrowserTypes, Ids, Conns, client, network, queue, server
<1>8. ASSUME NEW c \in Conns, Opens(c) PROVE Sockets'
  BY <1>8, Constants DEF Opens, Sockets, Types, BrowserTypes, Ids, Conns, client, network, queue, server
<1>9. ASSUME NEW c \in Conns, SocketCloses(c) PROVE Sockets'
  BY <1>9, Constants DEF SocketCloses, HandleClose, FailPending, ScheduleReconnect, Deafen, Sockets, Types, BrowserTypes, Ids, Conns, client, network, queue, server
<1>10. ASSUME NEW c \in Conns, LossIsNoticed(c) PROVE Sockets'
  BY <1>10, Constants DEF LossIsNoticed, HandleClose, FailPending, ScheduleReconnect, Deafen, Sockets, Types, BrowserTypes, Ids, Conns, client, network, queue, server
<1>11. ASSUME NEW c \in Conns, Receive(c) PROVE Sockets'
  BY <1>11, Constants DEF Receive, HandleChunk, Settle, Sockets, Types, BrowserTypes, Ids, Conns, client, network, queue, server
<1>12. CASE UNCHANGED <<sock, current, disposed, timer, pending, attempts, outcome>>
  BY <1>12 DEF Sockets, Types, BrowserTypes, Ids, Conns
<1> QED
  BY <1>1, <1>2, <1>3, <1>4, <1>5, <1>6, <1>7, <1>8, <1>9, <1>10, <1>11, <1>12, WhoWrites

\* A step that opens nothing, puts nothing on what is not open, and begins no work.
LEMMA StaysOpened ==
    ASSUME Opened,
           \A c \in Conns : sock'[c] \in {"unused", "connecting"} =>
              /\ sock[c] \in {"unused", "connecting"}
              /\ conn'[c] = conn[c] /\ up'[c] = up[c] /\ streams'[c] = streams[c]
              /\ down'[c] \in {down[c], <<>>}
              /\ c \in dead' => c \in dead,
           \A c \in Conns : conn'[c] = "none" =>
              conn[c] = "none" /\ pump'[c] \in {pump[c], "stopped"},
           \A r \in Requests : work'[r] # "none" => work[r] # "none" /\ home'[r] = home[r]
    PROVE  Opened'
<1>1. \A c \in Conns : sock'[c] \in {"unused", "connecting"} =>
          /\ conn'[c] = "none"
          /\ up'[c] = <<>> /\ down'[c] = <<>> /\ streams'[c] = <<>>
          /\ c \notin dead'
  BY DEF Opened
<1>2. \A c \in Conns : conn'[c] = "none" => pump'[c] = "stopped"
  BY DEF Opened
<1>3. \A r \in Requests : work'[r] # "none" => home'[r] \in Conns /\ conn'[home'[r]] # "none"
  BY DEF Opened
<1> QED
  BY <1>1, <1>2, <1>3 DEF Opened

\* A request is answered on the connection it came by.
LEMMA AnswerKeepsOpened ==
    ASSUME Types, Opened, NEW r \in Requests, NEW frames, work[r] # "none",
           Push(home[r], r, frames),
           \A q \in Requests : q # r => work'[q] = work[q],
           UNCHANGED <<sock, conn, up, down, dead, pump, home>>
    PROVE  Opened'
<1>1. /\ home[r] \in Conns /\ conn[home[r]] # "none"
      /\ sock[home[r]] \notin {"unused", "connecting"}
  BY DEF Opened
<1>2. \A d \in Conns : d # home[r] => streams'[d] = streams[d]
  BY <1>1 DEF Push, Types, FrameTypes
<1> QED
  BY <1>1, <1>2, StaysOpened

\* Nothing travels before onopen.
LEMMA OpenedStep ==
    ASSUME Types, Opened, Sockets, [Next]_vars
    PROVE  Opened'
<1>1. CASE Connect
  BY <1>1, Constants, ZenonT(60) DEF Connect, Opened, Sockets, Types, BrowserTypes, DaemonTypes, FrameTypes, Conns, client, network, queue, server
<1>2. CASE Dispose
  <2>1. UNCHANGED <<up, dead, conn, streams, pump, work, home>>
    BY <1>2 DEF Dispose, server, queue
  <2>2. /\ sock' = IF current = 0 THEN sock ELSE [sock EXCEPT ![current] = "closing"]
        /\ down' = IF current = 0 THEN down ELSE [down EXCEPT ![current] = <<>>]
    BY <1>2 DEF Dispose, Deafen
  <2>3. \A c \in Conns : /\ sock'[c] \in {sock[c], "closing"}
                        /\ down'[c] \in {down[c], <<>>}
    BY <2>2 DEF Types, BrowserTypes, FrameTypes
  <2> QED
    BY <2>1, <2>3 DEF Opened
<1>3. CASE SendPing
  BY <1>3, Constants DEF SendPing, IsOpen, Send, Opened, Sockets, Types, BrowserTypes, DaemonTypes, FrameTypes, Conns, client, network, queue, server
<1>4. CASE PingTimesOut
  BY <1>4, Constants DEF PingTimesOut, Deafen, Opened, Sockets, Types, BrowserTypes, DaemonTypes, FrameTypes, Conns, client, network, queue, server
<1>5. ASSUME NEW r \in Requests, Request(r) PROVE Opened'
  <2>1. UNCHANGED <<sock, conn, down, streams, dead, pump, work, home>>
    BY <1>5 DEF Request, server, queue
  <2>2. CASE IsOpen
    <3>1. PICK m \in Messages : Send(m)
      BY <1>5, <2>2, MessageTypes DEF Request
    <3>2. /\ current \in Conns /\ sock[current] = "open"
          /\ \A d \in Conns : d # current => up'[d] = up[d]
      BY <2>2, <3>1, SendShape DEF IsOpen, Types, FrameTypes
    <3> QED
      BY <2>1, <3>2 DEF Opened
  <2>3. CASE ~IsOpen
    <3>1. up' = up
      BY <1>5, <2>3 DEF Request
    <3> QED
      BY <2>1, <3>1 DEF Opened
  <2> QED
    BY <2>2, <2>3
<1>6. ASSUME NEW r \in Requests, Abort(r) PROVE Opened'
  <2>1. UNCHANGED <<sock, conn, down, streams, dead, pump, work, home>>
    BY <1>6 DEF Abort, server, queue
  <2>2. CASE IsOpen
    <3>1. PICK m \in Messages : Send(m)
      BY <1>6, <2>2, MessageTypes DEF Abort
    <3>2. /\ current \in Conns /\ sock[current] = "open"
          /\ \A d \in Conns : d # current => up'[d] = up[d]
      BY <2>2, <3>1, SendShape DEF IsOpen, Types, FrameTypes
    <3> QED
      BY <2>1, <3>2 DEF Opened
  <2>3. CASE ~IsOpen
    <3>1. up' = up
      BY <1>6, <2>3 DEF Abort
    <3> QED
      BY <2>1, <3>1 DEF Opened
  <2> QED
    BY <2>2, <2>3
<1>7. ASSUME NEW c \in Conns, Opens(c) PROVE Opened'
  <2>1. /\ sock[c] = "connecting"
        /\ sock' = [sock EXCEPT ![c] = "open"]
        /\ conn' = [conn EXCEPT ![c] = "live"]
        /\ pump' = [pump EXCEPT ![c] = "check"]
        /\ UNCHANGED <<up, down, streams, dead, work, home>>
    BY <1>7 DEF Opens, network, queue
  <2>2. /\ sock'[c] = "open" /\ conn'[c] = "live"
        /\ \A d \in Conns : d # c => sock'[d] = sock[d] /\ conn'[d] = conn[d] /\ pump'[d] = pump[d]
    BY <2>1 DEF Types, BrowserTypes, DaemonTypes
  <2> QED
    BY <2>1, <2>2, StaysOpened
<1>8. ASSUME NEW c \in Conns, SocketCloses(c) PROVE Opened'
  <2>1. /\ sock' = [sock EXCEPT ![c] = "closed"]
        /\ down' = [down EXCEPT ![c] = <<>>]
        /\ dead' = dead \ {c}
        /\ UNCHANGED <<up, conn, streams, pump, work, home>>
    BY <1>8 DEF SocketCloses, HandleClose, Deafen, server, queue
  <2>2. \A d \in Conns : /\ sock'[d] \in {sock[d], "closed"}
                        /\ down'[d] \in {down[d], <<>>}
    BY <2>1 DEF Types, BrowserTypes, FrameTypes
  <2> QED
    BY <2>1, <2>2 DEF Opened
<1>9. ASSUME NEW c \in Conns, LossIsNoticed(c) PROVE Opened'
  <2>1. /\ sock' = [sock EXCEPT ![c] = "closed"]
        /\ down' = [down EXCEPT ![c] = <<>>]
        /\ dead' = dead \ {c}
        /\ UNCHANGED <<up, conn, streams, pump, work, home>>
    BY <1>9 DEF LossIsNoticed, HandleClose, Deafen, server, queue
  <2>2. \A d \in Conns : sock'[d] \in {sock[d], "closed"} /\ down'[d] \in {down[d], <<>>}
    BY <2>1 DEF Types, BrowserTypes, FrameTypes
  <2> QED
    BY <2>1, <2>2, StaysOpened
<1>10. ASSUME NEW c \in Conns, Receive(c) PROVE Opened'
  <2>1. /\ sock[c] = "open"
        /\ down' = [down EXCEPT ![c] = Tail(@)]
        /\ UNCHANGED <<sock, up, dead, conn, streams, pump, work, home>>
    BY <1>10 DEF Receive, server, queue
  <2>2. \A d \in Conns : d # c => down'[d] = down[d]
    BY <2>1 DEF Types, FrameTypes
  <2> QED
    BY <2>1, <2>2, StaysOpened
<1>11. ASSUME NEW r \in Requests, StartWork(r) PROVE Opened'
  <2>1. /\ work[r] = "spawned"
        /\ \A q \in Requests : q # r => work'[q] = work[q]
    BY <1>11 DEF StartWork, Types, DaemonTypes
  <2>2. UNCHANGED <<sock, conn, up, down, streams, dead, pump, home>>
    BY <1>11 DEF StartWork, client, network, queue
  <2> QED
    BY <2>1, <2>2, StaysOpened
<1>12. ASSUME NEW r \in Requests, FinishWork(r) PROVE Opened'
  <2>1. PICK frames : Push(home[r], r, frames)
    BY <1>12 DEF FinishWork, Enqueue
  <2>2. /\ work[r] # "none"
        /\ \A q \in Requests : q # r => work'[q] = work[q]
    BY <1>12 DEF FinishWork, Types, DaemonTypes
  <2>3. UNCHANGED <<sock, conn, up, down, dead, pump, home>>
    BY <1>12 DEF FinishWork, client, network
  <2> QED
    BY <2>1, <2>2, <2>3, AnswerKeepsOpened
<1>13. ASSUME NEW r \in Requests, StopWork(r) PROVE Opened'
  <2>1. PICK frames : Push(home[r], r, frames)
    BY <1>13 DEF StopWork, Enqueue
  <2>2. /\ work[r] # "none"
        /\ \A q \in Requests : q # r => work'[q] = work[q]
    BY <1>13 DEF StopWork, Types, DaemonTypes
  <2>3. UNCHANGED <<sock, conn, up, down, dead, pump, home>>
    BY <1>13 DEF StopWork, client, network
  <2> QED
    BY <2>1, <2>2, <2>3, AnswerKeepsOpened
<1>14. ASSUME NEW c \in Conns, ReadFrame(c) PROVE Opened'
  <2>1. /\ conn[c] \in {"live", "cancelled"}
        /\ up' = [up EXCEPT ![c] = Tail(up[c])]
        /\ UNCHANGED <<sock, conn, down, dead, pump>>
    BY <1>14, ReadFrameSteps DEF client
  <2>2. sock[c] \notin {"unused", "connecting"}
    BY <2>1 DEF Opened
  <2>3. \A d \in Conns : d # c => up'[d] = up[d]
    BY <2>1 DEF Types, FrameTypes
  <2>4. \A d \in Conns : d # c => streams'[d] = streams[d]
    <3>1. UNCHANGED streams \/ Push(c, Ping, <<Plain(Ping, <<>>)>>)
      BY <1>14, ReadFrameSteps DEF queue
    <3> QED
      BY <3>1 DEF Push, Types, FrameTypes
  <2>5. \A r \in Requests :
           \/ work'[r] = work[r] /\ home'[r] = home[r]
           \/ work[r] # "none" /\ home'[r] = home[r]
           \/ home'[r] = c
    <3>1. \/ UNCHANGED <<work, home>>
          \/ \E q \in Requests : /\ work[q] \in {"running", "cancelled"}
                               /\ work' = [work EXCEPT ![q] = "cancelled"]
                               /\ UNCHANGED home
          \/ \E q \in Requests : /\ work' = [work EXCEPT ![q] = "spawned"]
                               /\ home' = [home EXCEPT ![q] = c]
      BY <1>14, ReadFrameSteps
    <3> QED
      BY <3>1 DEF Types, DaemonTypes
  <2>6. \A r \in Requests : work'[r] # "none" => home'[r] \in Conns /\ conn'[home'[r]] # "none"
    BY <2>1, <2>5 DEF Opened
  <2>7. \A d \in Conns : sock'[d] \in {"unused", "connecting"} =>
           /\ conn'[d] = "none"
           /\ up'[d] = <<>> /\ down'[d] = <<>> /\ streams'[d] = <<>>
           /\ d \notin dead'
    BY <2>1, <2>2, <2>3, <2>4 DEF Opened
  <2> QED
    BY <2>1, <2>6, <2>7 DEF Opened
<1>15. ASSUME NEW c \in Conns, ReadLoopEnds(c) PROVE Opened'
  <2>1. /\ conn[c] # "none"
        /\ conn' = [conn EXCEPT ![c] = "closed"]
        /\ up' = [up EXCEPT ![c] = <<>>]
        /\ UNCHANGED <<sock, down, streams, dead, pump, work, home>>
    BY <1>15 DEF ReadLoopEnds, client, queue
  <2>2. /\ conn'[c] = "closed"
        /\ \A d \in Conns : d # c => conn'[d] = conn[d] /\ up'[d] = up[d]
    BY <2>1 DEF Types, FrameTypes, DaemonTypes
  <2>3. sock[c] \notin {"unused", "connecting"}
    BY <2>1 DEF Opened
  <2> QED
    BY <2>1, <2>2, <2>3, StaysOpened
<1>16. ASSUME NEW c \in Conns, WriteFails(c) PROVE Opened'
  <2>1. /\ pump' = [pump EXCEPT ![c] = "stopped"]
        /\ streams' = [streams EXCEPT ![c] = <<>>]
        /\ conn' = [conn EXCEPT ![c] = IF @ = "live" THEN "cancelled" ELSE @]
        /\ streams[c] # <<>>
        /\ UNCHANGED <<sock, up, down, dead, work, home>>
    BY <1>16 DEF WriteFails, StopPump, client, network
  <2>2. /\ conn'[c] = "none" => conn[c] = "none"
        /\ \A d \in Conns : /\ pump'[d] \in {pump[d], "stopped"}
                            /\ d # c => conn'[d] = conn[d] /\ streams'[d] = streams[d]
    BY <2>1 DEF Types, FrameTypes, DaemonTypes
  <2>3. sock[c] \notin {"unused", "connecting"}
    BY <2>1 DEF Opened
  <2> QED
    BY <2>1, <2>2, <2>3, StaysOpened
<1>17. ASSUME NEW c \in Conns, PumpWrites(c) PROVE Opened'
  <2>1. /\ streams[c] # <<>>
        /\ streams' = [streams EXCEPT ![c] = Tail(@) \o Rest(c)]
        /\ UNCHANGED <<sock, up, dead, conn, pump, work, home>>
    BY <1>17 DEF PumpWrites, NextFrame, client
  <2>2. \A d \in Conns : d # c => streams'[d] = streams[d] /\ down'[d] = down[d]
    BY <1>17, <2>1 DEF PumpWrites, Types, FrameTypes
  <2>3. sock[c] \notin {"unused", "connecting"}
    BY <2>1 DEF Opened
  <2> QED
    BY <2>1, <2>2, <2>3, StaysOpened
<1>18. ASSUME NEW c \in Conns, PumpFindsNothing(c) PROVE Opened'
  BY <1>18, Constants DEF PumpFindsNothing, Opened, Sockets, Types, BrowserTypes, DaemonTypes, FrameTypes, Conns, client, network, queue, server
<1>19. ASSUME NEW c \in Conns, PumpWakes(c) PROVE Opened'
  BY <1>19, Constants DEF PumpWakes, Opened, Sockets, Types, BrowserTypes, DaemonTypes, FrameTypes, Conns, client, network, queue, server
<1>20. ASSUME NEW c \in Conns, PumpEnds(c) PROVE Opened'
  <2>1. /\ pump[c] = "select"
        /\ pump' = [pump EXCEPT ![c] = "stopped"]
        /\ streams' = [streams EXCEPT ![c] = <<>>]
        /\ UNCHANGED <<sock, conn, up, down, dead, work, home>>
    BY <1>20 DEF PumpEnds, StopPump, client, network
  <2>2. \A d \in Conns : /\ pump'[d] \in {pump[d], "stopped"}
                        /\ streams'[d] \in {streams[d], <<>>}
    BY <2>1 DEF Types, FrameTypes, DaemonTypes
  <2>3. sock[c] \notin {"unused", "connecting"}
    BY <2>1 DEF Opened
  <2>4. \A d \in Conns : d # c => streams'[d] = streams[d]
    BY <2>1 DEF Types, FrameTypes
  <2> QED
    BY <2>1, <2>2, <2>3, <2>4, StaysOpened
<1>21. ASSUME NEW c \in Conns, LinkDies(c) PROVE Opened'
  <2>1. /\ sock[c] \in {"open", "closing"}
        /\ dead' = dead \cup {c}
        /\ up' = [up EXCEPT ![c] = <<>>]
        /\ down' = [down EXCEPT ![c] = <<>>]
        /\ UNCHANGED <<sock, conn, streams, pump, work, home>>
    BY <1>21 DEF LinkDies, client, server, queue
  <2>2. \A d \in Conns : d # c => up'[d] = up[d] /\ down'[d] = down[d]
    BY <2>1 DEF Types, FrameTypes
  <2> QED
    BY <2>1, <2>2, StaysOpened
<1>22. CASE UNCHANGED <<sock, conn, up, down, streams, dead, pump, work, home>>
  BY <1>22 DEF Opened, Sockets, Types, BrowserTypes, DaemonTypes, FrameTypes, Conns
<1> QED
  BY <1>1, <1>2, <1>3, <1>4, <1>5, <1>6, <1>7, <1>8, <1>9, <1>10, <1>11, <1>12, <1>13, <1>14, <1>15, <1>16, <1>17, <1>18, <1>19, <1>20, <1>21, <1>22, WhoWrites

\* No signal is lost between the check and the select.
LEMMA PumpsWakeStep ==
    ASSUME Types, Opened, PumpsWake, [Next]_vars
    PROVE  PumpsWake'
<1>1. ASSUME NEW c \in Conns, Opens(c) PROVE PumpsWake'
  BY <1>1, Constants DEF Opens, PumpsWake, Opened, Types, BrowserTypes, DaemonTypes, FrameTypes, client, network, queue, server
<1>2. ASSUME NEW r \in Requests, FinishWork(r) PROVE PumpsWake'
  BY <1>2, Constants DEF FinishWork, Enqueue, Push, PumpsWake, Opened, Types, BrowserTypes, DaemonTypes, FrameTypes, client, network, queue, server
<1>3. ASSUME NEW r \in Requests, StopWork(r) PROVE PumpsWake'
  BY <1>3, Constants DEF StopWork, Enqueue, Push, PumpsWake, Opened, Types, BrowserTypes, DaemonTypes, FrameTypes, client, network, queue, server
<1>4. ASSUME NEW c \in Conns, ReadFrame(c) PROVE PumpsWake'
  <2>1. UNCHANGED <<pump, conn>>
    BY <1>4, ReadFrameSteps
  <2>2. \/ UNCHANGED <<streams, wake>>
        \/ /\ pump[c] # "stopped"
           /\ wake' = [wake EXCEPT ![c] = TRUE]
           /\ \A d \in Conns : d # c => streams'[d] = streams[d]
        \/ pump[c] = "stopped" /\ streams' = streams /\ wake' = [wake EXCEPT ![c] = wake[c]]
    <3>1. wake[c] \in BOOLEAN
      BY DEF Types, DaemonTypes
    <3>2. \/ UNCHANGED queue
          \/ /\ Push(c, Ping, <<Plain(Ping, <<>>)>>)
             /\ wake' = [wake EXCEPT ![c] = wake[c] \/ pump[c] # "stopped"]
      BY <1>4, ReadFrameSteps
    <3>3. CASE UNCHANGED queue
      BY <3>3 DEF queue
    <3>4. CASE pump[c] # "stopped" /\ ~UNCHANGED queue
      BY <3>1, <3>2, <3>4 DEF Push, Types, FrameTypes
    <3>5. CASE pump[c] = "stopped" /\ ~UNCHANGED queue
      BY <3>1, <3>2, <3>5 DEF Push
    <3> QED
      BY <3>3, <3>4, <3>5
  <2>3. \A d \in Conns : \/ streams'[d] = streams[d] /\ wake'[d] = wake[d]
                         \/ pump[d] # "stopped" /\ wake'[d]
    BY <2>2 DEF Types, DaemonTypes
  <2> QED
    BY <2>1, <2>3 DEF PumpsWake
<1>5. ASSUME NEW c \in Conns, ReadLoopEnds(c) PROVE PumpsWake'
  BY <1>5, Constants DEF ReadLoopEnds, PumpsWake, Opened, Types, BrowserTypes, DaemonTypes, FrameTypes, client, network, queue, server
<1>6. ASSUME NEW c \in Conns, WriteFails(c) PROVE PumpsWake'
  BY <1>6, Constants DEF WriteFails, StopPump, PumpsWake, Opened, Types, BrowserTypes, DaemonTypes, FrameTypes, client, network, queue, server
<1>7. ASSUME NEW c \in Conns, PumpWrites(c) PROVE PumpsWake'
  BY <1>7, Constants DEF PumpWrites, NextFrame, Rest, Turn, PumpsWake, Opened, Types, BrowserTypes, DaemonTypes, FrameTypes, client, network, queue, server
<1>8. ASSUME NEW c \in Conns, PumpFindsNothing(c) PROVE PumpsWake'
  BY <1>8, Constants DEF PumpFindsNothing, PumpsWake, Opened, Types, BrowserTypes, DaemonTypes, FrameTypes, client, network, queue, server
<1>9. ASSUME NEW c \in Conns, PumpWakes(c) PROVE PumpsWake'
  BY <1>9, Constants DEF PumpWakes, PumpsWake, Opened, Types, BrowserTypes, DaemonTypes, FrameTypes, client, network, queue, server
<1>10. ASSUME NEW c \in Conns, PumpEnds(c) PROVE PumpsWake'
  BY <1>10, Constants DEF PumpEnds, StopPump, PumpsWake, Opened, Types, BrowserTypes, DaemonTypes, FrameTypes, client, network, queue, server
<1>11. CASE UNCHANGED <<pump, streams, conn, wake>>
  BY <1>11 DEF PumpsWake, Opened, Types, BrowserTypes, DaemonTypes, FrameTypes
<1> QED
  BY <1>1, <1>2, <1>3, <1>4, <1>5, <1>6, <1>7, <1>8, <1>9, <1>10, <1>11, WhoWrites


-----------------------------------------------------------------------------
(* What becomes of a request. *)

OutcomeStep(r) ==
    \/ outcome'[r] = outcome[r]
    \/ outcome[r] = "unsent" /\ outcome'[r] = "waiting" /\ IsOpen /\ Request(r)
    \/ outcome[r] = "unsent" /\ outcome'[r] = "http" /\ Request(r)
    \/ outcome[r] = "waiting" /\ outcome'[r] \in {"answered", "failed", "aborted"}

\* How a promise may change in a step.
LEMMA OutcomeSteps ==
    ASSUME Types, Sockets, [Next]_vars
    PROVE  \A q \in Requests : OutcomeStep(q)
<1>1. CASE Dispose
  <2>1. outcome' = [r \in Requests |-> IF r \in pending THEN "failed" ELSE outcome[r]]
    BY <1>1 DEF Dispose, FailPending
  <2> QED
    BY <2>1 DEF OutcomeStep, Sockets
<1>2. ASSUME NEW r \in Requests, Request(r) PROVE \A q \in Requests : OutcomeStep(q)
  <2>1. outcome[r] = "unsent"
    BY <1>2 DEF Request
  <2>2. \/ IsOpen /\ outcome' = [outcome EXCEPT ![r] = "waiting"] /\ UNCHANGED executed
        \/ outcome' = [outcome EXCEPT ![r] = "http"]
    BY <1>2 DEF Request
  <2> QED
    BY <1>2, <2>1, <2>2 DEF OutcomeStep, Types, BrowserTypes
<1>3. ASSUME NEW r \in Requests, Abort(r) PROVE \A q \in Requests : OutcomeStep(q)
  <2>1. outcome[r] = "waiting" /\ outcome' = [outcome EXCEPT ![r] = "aborted"]
    BY <1>3 DEF Abort
  <2> QED
    BY <1>3, <2>1 DEF OutcomeStep, Types, BrowserTypes
<1>4. ASSUME NEW c \in Conns, SocketCloses(c) PROVE \A q \in Requests : OutcomeStep(q)
  <2>1. outcome' = [r \in Requests |-> IF r \in pending THEN "failed" ELSE outcome[r]]
    BY <1>4 DEF SocketCloses, HandleClose, FailPending
  <2> QED
    BY <2>1 DEF OutcomeStep, Sockets
<1>5. ASSUME NEW c \in Conns, LossIsNoticed(c) PROVE \A q \in Requests : OutcomeStep(q)
  <2>1. outcome' = [r \in Requests |-> IF r \in pending THEN "failed" ELSE outcome[r]]
    BY <1>5 DEF LossIsNoticed, HandleClose, FailPending
  <2> QED
    BY <2>1 DEF OutcomeStep, Sockets
<1>6. ASSUME NEW c \in Conns, Receive(c) PROVE \A q \in Requests : OutcomeStep(q)
  <2>1. \/ outcome' = outcome
        \/ \E id \in pending \cap Requests : \E result \in {"answered", "failed"} :
               outcome' = [outcome EXCEPT ![id] = result]
    BY <1>6 DEF Receive, HandleChunk, Settle
  <2> QED
    BY <2>1 DEF OutcomeStep, Types, BrowserTypes, Sockets
<1>7. CASE UNCHANGED <<outcome>>
  BY <1>7 DEF OutcomeStep
<1> QED
  BY <1>1, <1>2, <1>3, <1>4, <1>5, <1>6, <1>7, WhoWrites

\* A request's goroutine: spawned from its frame, registered, and ended once.
WorkStep(r) ==
    \/ work'[r] = work[r] /\ home'[r] = home[r]
    \/ \E c \in Conns : /\ ReadFrame(c)
                        /\ up[c][1].kind = "request" /\ up[c][1].id = r
                        /\ work'[r] = "spawned" /\ home'[r] = c
    \/ \E c \in Conns : /\ ReadFrame(c)
                        /\ up[c][1].kind = "cancel" /\ up[c][1].id = r
                        /\ work[r] \in {"running", "cancelled"} /\ home[r] = c
                        /\ work'[r] = "cancelled" /\ home'[r] = home[r]
    \/ /\ StartWork(r) /\ work[r] = "spawned" /\ home'[r] = home[r]
       /\ work'[r] = IF conn[home[r]] = "live" THEN "running" ELSE "cancelled"
    \/ /\ FinishWork(r) /\ work[r] \in {"running", "cancelled"} /\ home'[r] = home[r]
       /\ work'[r] = "done"
    \/ /\ StopWork(r) /\ work[r] \in {"running", "cancelled"} /\ home'[r] = home[r]
       /\ work[r] = "cancelled" \/ conn[home[r]] # "live"
       /\ work'[r] = "stopped"

\* How a handler may.
LEMMA WorkSteps ==
    ASSUME Types, [Next]_vars
    PROVE  \A q \in Requests : WorkStep(q)
<1>1. ASSUME NEW r \in Requests, StartWork(r) PROVE \A q \in Requests : WorkStep(q)
  <2>1. /\ work' = [work EXCEPT ![r] = work'[r]]
        /\ home' = home
    BY <1>1 DEF StartWork, Types, DaemonTypes
  <2>2. WorkStep(r)
    BY <1>1, <2>1 DEF StartWork, WorkStep, Types, DaemonTypes
  <2>3. \A q \in Requests : q # r => work'[q] = work[q] /\ home'[q] = home[q]
    BY <2>1 DEF Types, DaemonTypes
  <2> QED
    BY <2>2, <2>3 DEF WorkStep
<1>2. ASSUME NEW r \in Requests, FinishWork(r) PROVE \A q \in Requests : WorkStep(q)
  <2>1. /\ work' = [work EXCEPT ![r] = work'[r]]
        /\ home' = home
    BY <1>2 DEF FinishWork, Types, DaemonTypes
  <2>2. WorkStep(r)
    BY <1>2, <2>1 DEF FinishWork, WorkStep, Types, DaemonTypes
  <2>3. \A q \in Requests : q # r => work'[q] = work[q] /\ home'[q] = home[q]
    BY <2>1 DEF Types, DaemonTypes
  <2> QED
    BY <2>2, <2>3 DEF WorkStep
<1>3. ASSUME NEW r \in Requests, StopWork(r) PROVE \A q \in Requests : WorkStep(q)
  <2>1. /\ work' = [work EXCEPT ![r] = work'[r]]
        /\ home' = home
    BY <1>3 DEF StopWork, Types, DaemonTypes
  <2>2. WorkStep(r)
    BY <1>3, <2>1 DEF StopWork, WorkStep, Types, DaemonTypes
  <2>3. \A q \in Requests : q # r => work'[q] = work[q] /\ home'[q] = home[q]
    BY <2>1 DEF Types, DaemonTypes
  <2> QED
    BY <2>2, <2>3 DEF WorkStep
<1>4. ASSUME NEW c \in Conns, ReadFrame(c) PROVE \A q \in Requests : WorkStep(q)
  <2> SUFFICES ASSUME NEW q \in Requests PROVE WorkStep(q)
    OBVIOUS
  <2>1. CASE UNCHANGED <<work, home>>
    BY <2>1 DEF WorkStep
  <2>2. CASE /\ up[c][1].kind = "cancel" /\ up[c][1].id \in Requests
             /\ work[up[c][1].id] \in {"running", "cancelled"}
             /\ home[up[c][1].id] = c
             /\ work' = [work EXCEPT ![up[c][1].id] = "cancelled"]
             /\ UNCHANGED home
    BY <1>4, <2>2 DEF WorkStep, Types, DaemonTypes
  <2>3. CASE /\ up[c][1].kind = "request" /\ up[c][1].id \in Requests
             /\ work' = [work EXCEPT ![up[c][1].id] = "spawned"]
             /\ home' = [home EXCEPT ![up[c][1].id] = c]
    BY <1>4, <2>3 DEF WorkStep, Types, DaemonTypes
  <2> QED
    BY <1>4, <2>1, <2>2, <2>3, ReadFrameSteps
<1>5. CASE UNCHANGED <<work, home>>
  BY <1>5 DEF WorkStep
<1> QED
  BY <1>1, <1>2, <1>3, <1>4, <1>5, WhoWrites

\* What travels to the daemon: one more message from the browser, one less for the
\* daemon's read loop, or nothing any more.
UpStep(c) ==
    \/ up'[c] = up[c]
    \/ up'[c] = <<>>
    \/ ReadFrame(c) /\ up[c] # <<>> /\ up'[c] = Tail(up[c])
    \/ /\ IsOpen /\ c = current
       /\ \E m \in Messages :
             /\ up'[c] = Append(up[c], m)
             /\ \/ SendPing /\ m = [kind |-> "ping", id |-> Ping]
                \/ \E r \in Requests : Request(r) /\ m = [kind |-> "request", id |-> r]
                \/ \E r \in Requests : Abort(r) /\ m = [kind |-> "cancel", id |-> r]

\* How a connection to the daemon may.
LEMMA UpSteps ==
    ASSUME Types, [Next]_vars
    PROVE  \A d \in Conns : UpStep(d)
<1>1. CASE SendPing
  <2>1. CASE IsOpen
    <3>1. Send([kind |-> "ping", id |-> Ping]) /\ [kind |-> "ping", id |-> Ping] \in Messages
      BY <1>1, <2>1, MessageTypes DEF SendPing
    <3>2. \A d \in Conns : \/ up'[d] = up[d]
                           \/ d = current /\ up'[d] = Append(up[d], [kind |-> "ping", id |-> Ping])
      BY <2>1, <3>1, SendShape DEF Types, FrameTypes
    <3> QED
      BY <1>1, <2>1, <3>1, <3>2 DEF UpStep
  <2>2. CASE ~IsOpen
    <3>1. up' = up
      BY <1>1, <2>2 DEF SendPing
    <3> QED
      BY <3>1 DEF UpStep
  <2> QED
    BY <2>1, <2>2
<1>2. ASSUME NEW r \in Requests, Request(r) PROVE \A d \in Conns : UpStep(d)
  <2>1. CASE IsOpen
    <3>1. Send([kind |-> "request", id |-> r]) /\ [kind |-> "request", id |-> r] \in Messages
      BY <1>2, <2>1, MessageTypes DEF Request
    <3>2. \A d \in Conns : \/ up'[d] = up[d]
                           \/ d = current /\ up'[d] = Append(up[d], [kind |-> "request", id |-> r])
      BY <2>1, <3>1, SendShape DEF Types, FrameTypes
    <3> QED
      BY <1>2, <2>1, <3>1, <3>2 DEF UpStep
  <2>2. CASE ~IsOpen
    <3>1. up' = up
      BY <1>2, <2>2 DEF Request
    <3> QED
      BY <3>1 DEF UpStep
  <2> QED
    BY <2>1, <2>2
<1>3. ASSUME NEW r \in Requests, Abort(r) PROVE \A d \in Conns : UpStep(d)
  <2>1. CASE IsOpen
    <3>1. Send([kind |-> "cancel", id |-> r]) /\ [kind |-> "cancel", id |-> r] \in Messages
      BY <1>3, <2>1, MessageTypes DEF Abort
    <3>2. \A d \in Conns : \/ up'[d] = up[d]
                           \/ d = current /\ up'[d] = Append(up[d], [kind |-> "cancel", id |-> r])
      BY <2>1, <3>1, SendShape DEF Types, FrameTypes
    <3> QED
      BY <1>3, <2>1, <3>1, <3>2 DEF UpStep
  <2>2. CASE ~IsOpen
    <3>1. up' = up
      BY <1>3, <2>2 DEF Abort
    <3> QED
      BY <3>1 DEF UpStep
  <2> QED
    BY <2>1, <2>2
<1>4. ASSUME NEW c \in Conns, ReadFrame(c) PROVE \A d \in Conns : UpStep(d)
  <2>1. /\ up[c] # <<>> /\ up' = [up EXCEPT ![c] = Tail(up[c])]
    BY <1>4 DEF ReadFrame
  <2> QED
    BY <1>4, <2>1 DEF UpStep, Types, FrameTypes
<1>5. ASSUME NEW c \in Conns, ReadLoopEnds(c) PROVE \A d \in Conns : UpStep(d)
  BY <1>5 DEF ReadLoopEnds, UpStep, Types, FrameTypes, client, network, queue, server
<1>6. ASSUME NEW c \in Conns, LinkDies(c) PROVE \A d \in Conns : UpStep(d)
  BY <1>6 DEF LinkDies, UpStep, Types, FrameTypes, client, network, queue, server
<1>7. CASE UNCHANGED <<up>>
  BY <1>7 DEF UpStep, Types, FrameTypes
<1> QED
  BY <1>1, <1>2, <1>3, <1>4, <1>5, <1>6, <1>7, WhoWrites

\* Where a message on its way stood before the step, if it was not just sent.
LEMMA UpOrigins ==
    ASSUME Types, [Next]_vars, NEW c \in Conns
    PROVE  \E n \in {0, 1} :
              /\ n = 0 => ~ReadFrame(c) \/ up'[c] = <<>>
              /\ \A i \in 1..Len(up'[c]) :
                    \/ i + n \in 1..Len(up[c]) /\ up'[c][i] = up[c][i + n]
                    \/ /\ i = Len(up[c]) + 1 /\ IsOpen /\ c = current /\ n = 0
                       /\ \/ SendPing /\ up'[c][i] = [kind |-> "ping", id |-> Ping]
                          \/ \E r \in Requests : /\ Request(r)
                                                 /\ up'[c][i] = [kind |-> "request", id |-> r]
                          \/ \E r \in Requests : /\ Abort(r)
                                                 /\ up'[c][i] = [kind |-> "cancel", id |-> r]
<1>1. up[c] \in Seq(Messages) /\ Len(up[c]) \in Nat
  BY DEF Types, FrameTypes
<1>2. CASE ReadFrame(c)
  <2>1. up[c] # <<>> /\ up'[c] = Tail(up[c])
    BY <1>2 DEF ReadFrame, Types, FrameTypes
  <2> QED
    BY <1>1, <2>1, TailShape
<1>3. CASE ~ReadFrame(c)
  <2>1. CASE up'[c] = up[c]
    BY <1>1, <1>3, <2>1
  <2>2. CASE up'[c] = <<>>
    BY <2>2
  <2>3. CASE /\ IsOpen /\ c = current
             /\ \E m \in Messages :
                   /\ up'[c] = Append(up[c], m)
                   /\ \/ SendPing /\ m = [kind |-> "ping", id |-> Ping]
                      \/ \E r \in Requests : Request(r) /\ m = [kind |-> "request", id |-> r]
                      \/ \E r \in Requests : Abort(r) /\ m = [kind |-> "cancel", id |-> r]
    <3>1. PICK m \in Messages :
             /\ up'[c] = Append(up[c], m)
             /\ \/ SendPing /\ m = [kind |-> "ping", id |-> Ping]
                \/ \E r \in Requests : Request(r) /\ m = [kind |-> "request", id |-> r]
                \/ \E r \in Requests : Abort(r) /\ m = [kind |-> "cancel", id |-> r]
      BY <2>3
    <3>2. Len(up'[c]) = Len(up[c]) + 1 /\ up'[c][Len(up[c]) + 1] = m
          /\ \A i \in 1..Len(up[c]) : up'[c][i] = up[c][i]
      BY <1>1, <3>1, AppendProperties
    <3>3. \A i \in 1..Len(up'[c]) :
             \/ i + 0 \in 1..Len(up[c]) /\ up'[c][i] = up[c][i + 0]
             \/ i = Len(up[c]) + 1 /\ up'[c][i] = m
      BY <1>1, <3>2
    <3> QED
      BY <1>3, <2>3, <3>1, <3>3
  <2> QED
    BY <1>3, <2>1, <2>2, <2>3, UpSteps DEF UpStep
<1> QED
  BY <1>2, <1>3

ExecutedStep(r) ==
    \/ /\ executed'[r] = executed[r]
       /\ work'[r] = "done" <=> work[r] = "done"
       /\ outcome'[r] = "http" <=> outcome[r] = "http"
    \/ /\ FinishWork(r)
       /\ executed'[r] = executed[r] + 1
       /\ work[r] \in {"running", "cancelled"} /\ work'[r] = "done"
       /\ outcome'[r] = outcome[r]
    \/ /\ Request(r)
       /\ executed'[r] = executed[r] + 1
       /\ outcome[r] = "unsent" /\ outcome'[r] = "http"
       /\ work'[r] = work[r]

\* A handler runs to its end in one of two steps.
LEMMA ExecutedSteps ==
    ASSUME Types, Sockets, SentOnce, [Next]_vars
    PROVE  \A q \in Requests : ExecutedStep(q)
<1>1. CASE Dispose
  <2>1. UNCHANGED <<work, executed>>
    BY <1>1 DEF Dispose, server
  <2>2. outcome' = [q \in Requests |-> IF q \in pending THEN "failed" ELSE outcome[q]]
    BY <1>1 DEF Dispose, FailPending
  <2>3. \A q \in Requests : outcome'[q] = "http" <=> outcome[q] = "http"
    BY <2>2 DEF Sockets
  <2> QED
    BY <2>1, <2>3 DEF ExecutedStep
<1>2. ASSUME NEW r \in Requests, Request(r) PROVE \A q \in Requests : ExecutedStep(q)
  <2>0. /\ outcome[r] = "unsent" /\ UNCHANGED work
        /\ outcome \in [Requests -> {"unsent", "waiting", "http", "answered", "failed", "aborted"}]
        /\ executed \in [Requests -> Nat]
    BY <1>2 DEF Request, Types, BrowserTypes, DaemonTypes
  <2>1. CASE IsOpen
    <3>1. outcome' = [outcome EXCEPT ![r] = "waiting"] /\ UNCHANGED executed
      BY <1>2, <2>1 DEF Request
    <3> QED
      BY <2>0, <3>1 DEF ExecutedStep
  <2>2. CASE ~IsOpen
    <3>1. /\ outcome' = [outcome EXCEPT ![r] = "http"]
          /\ executed' = [executed EXCEPT ![r] = executed[r] + 1]
      BY <1>2, <2>2 DEF Request
    <3> QED
      BY <1>2, <2>0, <3>1 DEF ExecutedStep
  <2> QED
    BY <2>1, <2>2
<1>3. ASSUME NEW r \in Requests, Abort(r) PROVE \A q \in Requests : ExecutedStep(q)
  <2>1. UNCHANGED <<work, executed>> /\ outcome[r] = "waiting"
        /\ outcome' = [outcome EXCEPT ![r] = "aborted"]
    BY <1>3 DEF Abort, server
  <2> QED
    BY <2>1 DEF ExecutedStep, Types, BrowserTypes
<1>4. ASSUME NEW c \in Conns, SocketCloses(c) PROVE \A q \in Requests : ExecutedStep(q)
  <2>1. UNCHANGED <<work, executed>>
    BY <1>4 DEF SocketCloses, server
  <2>2. outcome' = [q \in Requests |-> IF q \in pending THEN "failed" ELSE outcome[q]]
    BY <1>4 DEF SocketCloses, HandleClose, FailPending
  <2>3. \A q \in Requests : outcome'[q] = "http" <=> outcome[q] = "http"
    BY <2>2 DEF Sockets
  <2> QED
    BY <2>1, <2>3 DEF ExecutedStep
<1>5. ASSUME NEW c \in Conns, LossIsNoticed(c) PROVE \A q \in Requests : ExecutedStep(q)
  <2>1. UNCHANGED <<work, executed>>
    BY <1>5 DEF LossIsNoticed, server
  <2>2. outcome' = [q \in Requests |-> IF q \in pending THEN "failed" ELSE outcome[q]]
    BY <1>5 DEF LossIsNoticed, HandleClose, FailPending
  <2>3. \A q \in Requests : outcome'[q] = "http" <=> outcome[q] = "http"
    BY <2>2 DEF Sockets
  <2> QED
    BY <2>1, <2>3 DEF ExecutedStep
<1>6. ASSUME NEW c \in Conns, Receive(c) PROVE \A q \in Requests : ExecutedStep(q)
  <2>1. UNCHANGED <<work, executed>>
    BY <1>6 DEF Receive, server
  <2>2. \/ outcome' = outcome
        \/ \E id \in pending \cap Requests : \E result \in {"answered", "failed"} :
               outcome' = [outcome EXCEPT ![id] = result]
    BY <1>6 DEF Receive, HandleChunk, Settle
  <2>3. \A q \in Requests : outcome'[q] = "http" <=> outcome[q] = "http"
    BY <2>2 DEF Sockets, Types, BrowserTypes
  <2> QED
    BY <2>1, <2>3 DEF ExecutedStep
<1>7. ASSUME NEW r \in Requests, StartWork(r) PROVE \A q \in Requests : ExecutedStep(q)
  <2>1. UNCHANGED <<outcome, executed>> /\ work[r] # "done"
        /\ work' = [work EXCEPT ![r] = work'[r]] /\ work'[r] # "done"
    BY <1>7 DEF StartWork, client, Types, DaemonTypes
  <2> QED
    BY <2>1 DEF ExecutedStep, Types, DaemonTypes
<1>8. ASSUME NEW r \in Requests, FinishWork(r) PROVE \A q \in Requests : ExecutedStep(q)
  <2>1. /\ UNCHANGED outcome /\ work[r] \in {"running", "cancelled"}
        /\ work' = [work EXCEPT ![r] = "done"]
        /\ executed' = [executed EXCEPT ![r] = executed[r] + 1]
    BY <1>8 DEF FinishWork, client
  <2> QED
    BY <1>8, <2>1 DEF ExecutedStep, Types, DaemonTypes
<1>9. ASSUME NEW r \in Requests, StopWork(r) PROVE \A q \in Requests : ExecutedStep(q)
  <2>1. UNCHANGED <<outcome, executed>> /\ work[r] # "done"
        /\ work' = [work EXCEPT ![r] = work'[r]] /\ work'[r] # "done"
    BY <1>9 DEF StopWork, client, Types, DaemonTypes
  <2> QED
    BY <2>1 DEF ExecutedStep, Types, DaemonTypes
<1>10. ASSUME NEW c \in Conns, ReadFrame(c) PROVE \A q \in Requests : ExecutedStep(q)
  <2>1. UNCHANGED <<outcome, executed>>
    BY <1>10 DEF ReadFrame, client
  <2>2. \A q \in Requests : work'[q] = "done" <=> work[q] = "done"
    <3>1. \/ UNCHANGED work
          \/ \E q \in Requests : /\ work[q] # "done"
                               /\ work' = [work EXCEPT ![q] = "cancelled"]
          \/ \E q \in Requests : /\ work[q] = "none"
                               /\ work' = [work EXCEPT ![q] = "spawned"]
      <4>1. /\ up[c] \in Seq(Messages) /\ Len(up[c]) \in Nat \ {0}
            /\ up[c][1].kind = "request" => work[up[c][1].id] = "none"
        <5>1. Len(up[c]) \in Nat \ {0}
          BY <1>10, ReadFrameSteps
        <5>2. 1 \in 1..Len(up[c])
          BY <5>1
        <5> QED
          BY <1>10, <5>1, <5>2, ReadFrameSteps DEF SentOnce
      <4>2. \/ UNCHANGED work
            \/ \E q \in Requests : /\ work[q] \in {"running", "cancelled"}
                                 /\ work' = [work EXCEPT ![q] = "cancelled"]
            \/ /\ up[c][1].kind = "request" /\ up[c][1].id \in Requests
               /\ work' = [work EXCEPT ![up[c][1].id] = "spawned"]
        BY <1>10, ReadFrameSteps
      <4> QED
        BY <4>1, <4>2
    <3> QED
      BY <3>1 DEF Types, DaemonTypes
  <2> QED
    BY <2>1, <2>2 DEF ExecutedStep
<1>11. CASE UNCHANGED <<outcome, work, executed>>
  BY <1>11 DEF ExecutedStep
<1> QED
  BY <1>1, <1>2, <1>3, <1>4, <1>5, <1>6, <1>7, <1>8, <1>9, <1>10, <1>11, WhoWrites

\* A request is sent once.
LEMMA SentOnceStep ==
    ASSUME Types, Sockets, SentOnce, RunOnce, [Next]_vars
    PROVE  SentOnce'
<1> DEFINE Old(c, n, i) == i + n \in 1..Len(up[c]) /\ up'[c][i] = up[c][i + n]
           New(c, n, i) == /\ i = Len(up[c]) + 1 /\ IsOpen /\ c = current
                           /\ \E r \in Requests : /\ Request(r)
                                                  /\ up'[c][i] = [kind |-> "request", id |-> r]
<1>1. \A c \in Conns : \E n \in {0, 1} :
         /\ n = 0 => ~ReadFrame(c) \/ up'[c] = <<>>
         /\ \A i \in 1..Len(up'[c]) : up'[c][i].kind = "request" => Old(c, n, i) \/ New(c, n, i)
  <2> SUFFICES ASSUME NEW c \in Conns
               PROVE  \E n \in {0, 1} :
                         /\ n = 0 => ~ReadFrame(c) \/ up'[c] = <<>>
                         /\ \A i \in 1..Len(up'[c]) :
                               up'[c][i].kind = "request" => Old(c, n, i) \/ New(c, n, i)
    OBVIOUS
  <2>1. PICK n \in {0, 1} :
              /\ n = 0 => ~ReadFrame(c) \/ up'[c] = <<>>
              /\ \A i \in 1..Len(up'[c]) :
                    \/ i + n \in 1..Len(up[c]) /\ up'[c][i] = up[c][i + n]
                    \/ /\ i = Len(up[c]) + 1 /\ IsOpen /\ c = current /\ n = 0
                       /\ \/ SendPing /\ up'[c][i] = [kind |-> "ping", id |-> Ping]
                          \/ \E r \in Requests : /\ Request(r)
                                                 /\ up'[c][i] = [kind |-> "request", id |-> r]
                          \/ \E r \in Requests : /\ Abort(r)
                                                 /\ up'[c][i] = [kind |-> "cancel", id |-> r]
    BY UpOrigins
  <2>2. \A i \in 1..Len(up'[c]) : up'[c][i].kind = "request" => Old(c, n, i) \/ New(c, n, i)
    <3> SUFFICES ASSUME NEW i \in 1..Len(up'[c]), up'[c][i].kind = "request", ~Old(c, n, i)
                 PROVE  New(c, n, i)
      OBVIOUS
    <3>1. /\ i = Len(up[c]) + 1 /\ IsOpen /\ c = current
          /\ \/ up'[c][i] = [kind |-> "ping", id |-> Ping]
             \/ \E r \in Requests : /\ Request(r)
                                    /\ up'[c][i] = [kind |-> "request", id |-> r]
             \/ \E r \in Requests : up'[c][i] = [kind |-> "cancel", id |-> r]
      BY <2>1
    <3>2. ASSUME NEW r \in Requests, up'[c][i] = [kind |-> "cancel", id |-> r] PROVE FALSE
      <4>1. up'[c][i].kind = "cancel"
        BY <3>2
      <4> QED
        BY <4>1
    <3>3. up'[c][i] # [kind |-> "ping", id |-> Ping]
      OBVIOUS
    <3> QED
      BY <3>1, <3>2, <3>3
  <2> QED
    BY <2>1, <2>2
<1>2. \A c \in Conns : \A i \in 1..Len(up[c]) : up[c][i] \in Messages
  BY DEF Types, FrameTypes
<1>3. \A c \in Conns : Len(up[c]) \in Nat
  BY DEF Types, FrameTypes
<1>4. \A c \in Conns : ReadFrame(c) => UNCHANGED outcome /\ 1 \in 1..Len(up[c])
  BY ReadFrameSteps DEF client
<1>5. \A r \in Requests : Request(r) => outcome[r] = "unsent" /\ UNCHANGED work
  BY DEF Request
<1>6. ASSUME NEW c \in Conns, NEW d \in Conns,
             NEW i \in 1..Len(up'[c]), NEW j \in 1..Len(up'[d]),
             up'[c][i].kind = "request", up'[d][j] = up'[c][i]
      PROVE  c = d /\ i = j
  <2>1. PICK n \in {0, 1} :
           \A k \in 1..Len(up'[c]) : up'[c][k].kind = "request" => Old(c, n, k) \/ New(c, n, k)
    BY <1>1
  <2>2. PICK m \in {0, 1} : /\ c = d => m = n
           /\ \A k \in 1..Len(up'[d]) : up'[d][k].kind = "request" => Old(d, m, k) \/ New(d, m, k)
    <3> HIDE DEF Old, New
    <3>1. CASE c = d
      BY <2>1, <3>1
    <3>2. CASE c # d
      BY <1>1, <3>2
    <3> QED
      BY <3>1, <3>2
  <2>3. (Old(c, n, i) \/ New(c, n, i)) /\ (Old(d, m, j) \/ New(d, m, j))
    BY <1>6, <2>1, <2>2
  <2>4. CASE Old(c, n, i) /\ Old(d, m, j)
    <3>1. c = d /\ i + n = j + m
      BY <1>6, <2>4 DEF SentOnce
    <3> QED
      BY <2>2, <3>1
  <2>5. CASE Old(c, n, i) /\ New(d, m, j)
    <3>1. outcome[up[c][i + n].id] # "unsent"
      BY <1>6, <2>5 DEF SentOnce
    <3>2. outcome[up'[d][j].id] = "unsent"
      BY <1>5, <2>5
    <3> QED
      BY <1>6, <2>5, <3>1, <3>2
  <2>6. CASE New(c, n, i) /\ Old(d, m, j)
    <3>1. outcome[up[d][j + m].id] # "unsent"
      BY <1>6, <2>6 DEF SentOnce
    <3>2. outcome[up'[c][i].id] = "unsent"
      BY <1>5, <2>6
    <3> QED
      BY <1>6, <2>6, <3>1, <3>2
  <2>7. CASE New(c, n, i) /\ New(d, m, j)
    <3>1. c = current /\ d = current
      BY <2>7
    <3>2. i = Len(up[current]) + 1 /\ j = Len(up[current]) + 1
      BY <2>7, <3>1
    <3> QED
      BY <3>1, <3>2
  <2> QED
    BY <2>3, <2>4, <2>5, <2>6, <2>7
<1>7. ASSUME NEW c \in Conns, NEW i \in 1..Len(up'[c]), up'[c][i].kind = "request"
      PROVE  work'[up'[c][i].id] = "none" /\ outcome'[up'[c][i].id] \notin {"unsent", "http"}
  <2>1. PICK n \in {0, 1} :
           /\ n = 0 => ~ReadFrame(c) \/ up'[c] = <<>>
           /\ Old(c, n, i) \/ New(c, n, i)
    BY <1>1, <1>7
  <2>2. CASE Old(c, n, i)
    <3>1. PICK q \in Requests : q = up[c][i + n].id /\ q = up'[c][i].id
      BY <1>2, <1>7, <2>2 DEF Messages
    <3>2. work[q] = "none" /\ outcome[q] \notin {"unsent", "http"}
      BY <1>7, <2>2, <3>1 DEF SentOnce
    <3>3. work'[q] = "none"
      <4>1. ASSUME NEW d \in Conns, ReadFrame(d), up[d][1].kind = "request", up[d][1].id = q
            PROVE  FALSE
        <5>1. up[d][1] = up[c][i + n]
          BY <1>2, <1>4, <1>7, <2>2, <3>1, <4>1 DEF Messages
        <5>2. d = c /\ i + n = 1
          BY <1>4, <1>7, <2>2, <4>1, <5>1 DEF SentOnce
        <5>3. n = 0 /\ up'[c] # <<>>
          BY <1>7, <5>2
        <5> QED
          BY <2>1, <4>1, <5>2, <5>3
      <4> QED
        BY <3>2, <4>1, WorkSteps DEF WorkStep
    <3>4. outcome'[q] \notin {"unsent", "http"}
      BY <3>2, OutcomeSteps DEF OutcomeStep
    <3> QED
      BY <3>1, <3>3, <3>4
  <2>3. CASE New(c, n, i)
    <3>1. PICK q \in Requests : Request(q) /\ q = up'[c][i].id
      BY <2>3
    <3>2. outcome[q] = "unsent" /\ outcome'[q] = "waiting" /\ work' = work
      BY <2>3, <3>1 DEF Request, Types, BrowserTypes
    <3>3. work[q] = "none"
      BY <3>2 DEF RunOnce
    <3> QED
      BY <3>1, <3>2, <3>3
  <2> QED
    BY <2>1, <2>2, <2>3
<1> QED
  BY <1>6, <1>7 DEF SentOnce

\* It is served once.
LEMMA RunOnceStep ==
    ASSUME Types, Sockets, SentOnce, RunOnce, [Next]_vars
    PROVE  RunOnce'
<1> SUFFICES ASSUME NEW r \in Requests
             PROVE  /\ work'[r] # "none" => outcome'[r] \notin {"unsent", "http"}
                    /\ executed'[r] = IF work'[r] = "done" \/ outcome'[r] = "http" THEN 1 ELSE 0
  BY DEF RunOnce
<1>1. /\ work[r] # "none" => outcome[r] \notin {"unsent", "http"}
      /\ executed[r] = IF work[r] = "done" \/ outcome[r] = "http" THEN 1 ELSE 0
  BY DEF RunOnce
<1>2. OutcomeStep(r) /\ WorkStep(r) /\ ExecutedStep(r)
  BY OutcomeSteps, WorkSteps, ExecutedSteps
<1>3. work'[r] # "none" => outcome'[r] \notin {"unsent", "http"}
  <2>1. CASE work[r] # "none"
    BY <1>1, <1>2, <2>1 DEF OutcomeStep
  <2>2. CASE work[r] = "none" /\ work'[r] # "none"
    <3>1. PICK c \in Conns : ReadFrame(c) /\ up[c][1].kind = "request" /\ up[c][1].id = r
      BY <1>2, <2>2 DEF WorkStep
    <3>2. 1 \in 1..Len(up[c]) /\ outcome' = outcome
      BY <3>1, ReadFrameSteps DEF client
    <3> QED
      BY <3>1, <3>2 DEF SentOnce
  <2> QED
    BY <2>1, <2>2
<1>4. executed'[r] = IF work'[r] = "done" \/ outcome'[r] = "http" THEN 1 ELSE 0
  BY <1>1, <1>2 DEF ExecutedStep
<1> QED
  BY <1>3, <1>4


-----------------------------------------------------------------------------
(* The queue of streams, and what travels to the browser. *)

\* A handler that has ended stays as it ended.
LEMMA DoneStays ==
    ASSUME Types, SentOnce, [Next]_vars, NEW r \in Requests, work[r] \in {"done", "stopped"}
    PROVE  work'[r] = work[r] /\ home'[r] = home[r]
<1>1. ASSUME NEW c \in Conns, ReadFrame(c), up[c][1].kind = "request", up[c][1].id = r
      PROVE  FALSE
  <2>1. 1 \in 1..Len(up[c])
    BY <1>1, ReadFrameSteps
  <2> QED
    BY <1>1, <2>1 DEF SentOnce
<1> QED
  BY <1>1, WorkSteps DEF WorkStep

\* The stream an action gives to a queue.
Pushed(c, s) ==
    \/ ReadFrame(c) /\ 1 \in PingsUp(c) /\ s = <<Plain(Ping, <<>>)>>
    \/ \E r \in Requests : /\ home[r] = c /\ work[r] \in {"running", "cancelled"}
                           /\ \/ FinishWork(r) /\ s = Answer(r)
                              \/ StopWork(r) /\ s = <<Plain(r, <<>>)>>

StreamStep(c) ==
    \/ streams'[c] = streams[c]
    \/ streams'[c] = <<>>
    \/ /\ pump[c] # "stopped"
       /\ \E s \in Seq(Frames) \ {<<>>} : streams'[c] = Append(streams[c], s) /\ Pushed(c, s)
    \/ PumpWrites(c)

\* How the queue of streams may change in a step.
LEMMA StreamSteps ==
    ASSUME Types, Opened, [Next]_vars
    PROVE  \A d \in Conns : StreamStep(d)
<1>1. ASSUME NEW r \in Requests, FinishWork(r) PROVE \A d \in Conns : StreamStep(d)
  <2>1. /\ home[r] \in Conns /\ work[r] \in {"running", "cancelled"}
        /\ Push(home[r], r, Answer(r))
    BY <1>1 DEF FinishWork, Enqueue, Opened, Answer
  <2>2. Answer(r) \in Seq(Frames) \ {<<>>}
    BY AnswerShape, PlainType DEF Ids
  <2>3. /\ pump[home[r]] = "stopped" => streams' = streams
        /\ pump[home[r]] # "stopped" =>
              streams' = [streams EXCEPT ![home[r]] = Append(streams[home[r]], Answer(r))]
    BY <2>1, <2>2, PushShape
  <2>4. Pushed(home[r], Answer(r))
    BY <1>1, <2>1 DEF Pushed
  <2> QED
    BY <2>1, <2>2, <2>3, <2>4 DEF StreamStep, Types, FrameTypes
<1>2. ASSUME NEW r \in Requests, StopWork(r) PROVE \A d \in Conns : StreamStep(d)
  <2>1. /\ home[r] \in Conns /\ work[r] \in {"running", "cancelled"}
        /\ Push(home[r], r, <<Plain(r, <<>>)>>)
    BY <1>2 DEF StopWork, Enqueue, Opened, Answer
  <2>2. <<Plain(r, <<>>)>> \in Seq(Frames) \ {<<>>}
    BY AnswerShape, PlainType DEF Ids
  <2>3. /\ pump[home[r]] = "stopped" => streams' = streams
        /\ pump[home[r]] # "stopped" =>
              streams' = [streams EXCEPT ![home[r]] = Append(streams[home[r]], <<Plain(r, <<>>)>>)]
    BY <2>1, <2>2, PushShape
  <2>4. Pushed(home[r], <<Plain(r, <<>>)>>)
    BY <1>2, <2>1 DEF Pushed
  <2> QED
    BY <2>1, <2>2, <2>3, <2>4 DEF StreamStep, Types, FrameTypes
<1>3. ASSUME NEW c \in Conns, ReadFrame(c) PROVE \A d \in Conns : StreamStep(d)
  <2>1. CASE UNCHANGED queue
    BY <2>1 DEF queue, StreamStep
  <2>2. CASE ~UNCHANGED queue
    <3>1. /\ up[c][1] = [kind |-> "ping", id |-> Ping] /\ Len(up[c]) \in Nat \ {0}
          /\ Push(c, Ping, <<Plain(Ping, <<>>)>>)
      BY <1>3, <2>2, ReadFrameSteps
    <3>2. 1 \in PingsUp(c)
      BY <3>1 DEF PingsUp
    <3>3. Pushed(c, <<Plain(Ping, <<>>)>>)
      BY <1>3, <3>2 DEF Pushed
    <3>4. <<Plain(Ping, <<>>)>> \in Seq(Frames) \ {<<>>}
      BY PlainType DEF Ids
    <3>5. /\ pump[c] = "stopped" => streams' = streams
          /\ pump[c] # "stopped" =>
                streams' = [streams EXCEPT ![c] = Append(streams[c], <<Plain(Ping, <<>>)>>)]
      BY <3>1, <3>4, PushShape
    <3> QED
      BY <3>3, <3>4, <3>5 DEF StreamStep, Types, FrameTypes
  <2> QED
    BY <2>1, <2>2
<1>4. ASSUME NEW c \in Conns, WriteFails(c) PROVE \A d \in Conns : StreamStep(d)
  <2>1. streams' = [streams EXCEPT ![c] = <<>>]
    BY <1>4 DEF WriteFails, StopPump
  <2> QED
    BY <2>1 DEF StreamStep, Types, FrameTypes
<1>5. ASSUME NEW c \in Conns, PumpWrites(c) PROVE \A d \in Conns : StreamStep(d)
  <2>1. NextFrame(c)
    BY <1>5 DEF PumpWrites
  <2>2. \A d \in Conns : d # c => streams'[d] = streams[d]
    BY <2>1, NextFrameShape DEF Types, FrameTypes
  <2> QED
    BY <1>5, <2>2 DEF StreamStep
<1>6. ASSUME NEW c \in Conns, PumpEnds(c) PROVE \A d \in Conns : StreamStep(d)
  <2>1. streams' = [streams EXCEPT ![c] = <<>>]
    BY <1>6 DEF PumpEnds, StopPump
  <2> QED
    BY <2>1 DEF StreamStep, Types, FrameTypes
<1>7. CASE UNCHANGED <<streams>>
  BY <1>7 DEF StreamStep
<1> QED
  BY <1>1, <1>2, <1>3, <1>4, <1>5, <1>6, <1>7, WhoWrites


\* Stream p of a queue after a step: the one that was n places behind, what the pump
\* left of the first one, or the one that was pushed.
Kept(c, n, p) == p + n \in 1..Len(streams[c]) /\ streams'[c][p] = streams[c][p + n]
Turned(c, p) == /\ Len(streams[c][1]) # 1
                /\ p = Len(streams[c]) /\ streams'[c][p] = Tail(streams[c][1])
Added(c, s, p) == p = Len(streams[c]) + 1 /\ streams'[c][p] = s

\* Where a stream stood before the pump wrote a frame.
LEMMA PumpOrigins ==
    ASSUME Types, NEW c \in Conns, PumpWrites(c)
    PROVE  \A p \in 1..Len(streams'[c]) : Kept(c, 1, p) \/ Turned(c, p)
<1>1. NextFrame(c)
  BY DEF PumpWrites
<1>2. streams[c][1] \in Seq(Frames) \ {<<>>} /\ Len(streams[c]) \in Nat \ {0}
  BY <1>1, NextFrameShape
<1>3. Len(streams[c][1]) \in Nat \ {0}
  BY <1>2, TailShape
<1>4. CASE Len(streams[c][1]) = 1
  BY <1>1, <1>2, <1>4, NextFrameShape DEF Kept
<1>5. CASE Len(streams[c][1]) # 1
  <2>1. /\ Len(streams'[c]) = Len(streams[c])
        /\ streams'[c][Len(streams[c])] = Tail(streams[c][1])
        /\ \A i \in 1..(Len(streams[c]) - 1) : streams'[c][i] = streams[c][i + 1]
    BY <1>1, <1>5, NextFrameShape
  <2> QED
    BY <1>2, <1>5, <2>1 DEF Kept, Turned
<1> QED
  BY <1>4, <1>5

\* Where it stood before any step.
LEMMA StreamOrigins ==
    ASSUME Types, Opened, [Next]_vars, NEW c \in Conns
    PROVE  \/ \A p \in 1..Len(streams'[c]) : Kept(c, 0, p)
           \/ PumpWrites(c) /\ \A p \in 1..Len(streams'[c]) : Kept(c, 1, p) \/ Turned(c, p)
           \/ /\ pump[c] # "stopped"
              /\ \E s \in Seq(Frames) \ {<<>>} :
                    /\ Pushed(c, s)
                    /\ \A p \in 1..Len(streams'[c]) : Kept(c, 0, p) \/ Added(c, s, p)
<1>1. streams[c] \in Seq(Seq(Frames) \ {<<>>}) /\ Len(streams[c]) \in Nat
  BY DEF Types, FrameTypes
<1>2. CASE streams'[c] = streams[c]
  BY <1>1, <1>2 DEF Kept
<1>3. CASE streams'[c] = <<>>
  BY <1>3
<1>4. CASE /\ pump[c] # "stopped"
           /\ \E s \in Seq(Frames) \ {<<>>} : streams'[c] = Append(streams[c], s) /\ Pushed(c, s)
  <2>1. PICK s \in Seq(Frames) \ {<<>>} : streams'[c] = Append(streams[c], s) /\ Pushed(c, s)
    BY <1>4
  <2>2. /\ Len(streams'[c]) = Len(streams[c]) + 1 /\ streams'[c][Len(streams[c]) + 1] = s
        /\ \A p \in 1..Len(streams[c]) : streams'[c][p] = streams[c][p]
    BY <1>1, <2>1, AppendProperties
  <2>3. \A p \in 1..Len(streams'[c]) : Kept(c, 0, p) \/ Added(c, s, p)
    BY <1>1, <2>2 DEF Kept, Added
  <2> QED
    BY <1>4, <2>1, <2>3
<1>5. CASE PumpWrites(c)
  BY <1>5, PumpOrigins
<1> QED
  BY <1>2, <1>3, <1>4, <1>5, StreamSteps DEF StreamStep

\* A stream that stands in the queue has frames, and the id of the first.
LEMMA StreamTypes ==
    ASSUME Types, NEW c \in Conns, NEW p \in 1..Len(streams[c])
    PROVE  /\ streams[c][p] \in Seq(Frames)
           /\ Len(streams[c][p]) \in Nat \ {0}
           /\ streams[c][p][1] \in Frames
           /\ IdOf(streams[c][p]) \in Ids
<1>1. streams[c] \in Seq(Seq(Frames) \ {<<>>})
  BY DEF Types, FrameTypes
<1>2. streams[c][p] \in Seq(Frames) /\ streams[c][p] # <<>>
  BY <1>1, ElementOfSeq
<1>3. Len(streams[c][p]) \in Nat \ {0} /\ streams[c][p][1] \in Frames
  BY <1>2, TailShape
<1> QED
  BY <1>2, <1>3 DEF IdOf, Frames

\* What is pushed: all of one id, which no stream of the queue has.
LEMMA PushedShape ==
    ASSUME Types, SentOnce, OnePing, InPlace, NEW c \in Conns, NEW s, Pushed(c, s)
    PROVE  /\ IdOf(s) \in Ids
           /\ \A k \in 1..Len(s) : s[k].id = IdOf(s)
           /\ \A p \in 1..Len(streams[c]) : IdOf(streams[c][p]) # IdOf(s)
           /\ IdOf(s) = Ping => ReadFrame(c) /\ Len(s) = 1 /\ 1 \in PingsUp(c)
           /\ IdOf(s) # Ping => /\ IdOf(s) \in Requests /\ home[IdOf(s)] = c
                                /\ FinishWork(IdOf(s)) \/ StopWork(IdOf(s))
<1>1. CASE ReadFrame(c) /\ 1 \in PingsUp(c) /\ s = <<Plain(Ping, <<>>)>>
  <2>1. IdOf(s) = Ping /\ Len(s) = 1 /\ \A k \in 1..Len(s) : s[k].id = Ping
    BY <1>1 DEF IdOf, Plain
  <2>2. PingsQueued(c) = {}
    BY <1>1 DEF OnePing
  <2>3. Ping \in Ids
    BY DEF Ids
  <2> QED
    BY <1>1, <2>1, <2>2, <2>3 DEF PingsQueued
<1>2. CASE \E r \in Requests : /\ home[r] = c /\ work[r] \in {"running", "cancelled"}
                               /\ \/ FinishWork(r) /\ s = Answer(r)
                                  \/ StopWork(r) /\ s = <<Plain(r, <<>>)>>
  <2>1. PICK r \in Requests : /\ home[r] = c /\ work[r] \in {"running", "cancelled"}
                              /\ \/ FinishWork(r) /\ s = Answer(r)
                                 \/ StopWork(r) /\ s = <<Plain(r, <<>>)>>
    BY <1>2
  <2>2. IdOf(s) = r /\ \A k \in 1..Len(s) : s[k].id = r
    <3>1. CASE s = Answer(r)
      BY <3>1, AnswerShape DEF IdOf
    <3>2. CASE s = <<Plain(r, <<>>)>>
      BY <3>2 DEF IdOf, Plain
    <3> QED
      BY <2>1, <3>1, <3>2
  <2>3. \A p \in 1..Len(streams[c]) : IdOf(streams[c][p]) # r
    BY <2>1, Constants DEF InPlace
  <2>4. r \in Ids /\ r # Ping
    BY Constants DEF Ids
  <2> QED
    BY <2>1, <2>2, <2>3, <2>4
<1> QED
  BY <1>1, <1>2 DEF Pushed


\* Streams stay where their ids belong.
LEMMA InPlaceStep ==
    ASSUME Types, Opened, SentOnce, OnePing, InPlace, [Next]_vars
    PROVE  InPlace'
<1> SUFFICES ASSUME NEW c \in Conns
             PROVE  \A p \in 1..Len(streams'[c]) :
                       /\ \A k \in 1..Len(streams'[c][p]) : streams'[c][p][k].id = IdOf(streams'[c][p])
                       /\ \A q \in 1..Len(streams'[c]) :
                             IdOf(streams'[c][p]) = IdOf(streams'[c][q]) => p = q
                       /\ IdOf(streams'[c][p]) = Ping => Len(streams'[c][p]) = 1
                       /\ IdOf(streams'[c][p]) # Ping =>
                             /\ home'[IdOf(streams'[c][p])] = c
                             /\ work'[IdOf(streams'[c][p])] \in {"done", "stopped"}
  BY DEF InPlace, IdOf
<1>0. Len(streams[c]) \in Nat
  BY DEF Types, FrameTypes
<1>1. \A p \in 1..Len(streams[c]) :
         /\ IdOf(streams[c][p]) \in Ids
         /\ \A k \in 1..Len(streams[c][p]) : streams[c][p][k].id = IdOf(streams[c][p])
         /\ \A q \in 1..Len(streams[c]) : IdOf(streams[c][p]) = IdOf(streams[c][q]) => p = q
         /\ IdOf(streams[c][p]) = Ping => Len(streams[c][p]) = 1
         /\ IdOf(streams[c][p]) # Ping =>
               /\ home[IdOf(streams[c][p])] = c
               /\ work[IdOf(streams[c][p])] \in {"done", "stopped"}
  BY StreamTypes DEF InPlace
<1>2. \A p \in 1..Len(streams[c]) :
         IdOf(streams[c][p]) # Ping =>
               /\ home'[IdOf(streams[c][p])] = c
               /\ work'[IdOf(streams[c][p])] \in {"done", "stopped"}
  BY <1>1, DoneStays DEF Ids
<1>3. CASE \A p \in 1..Len(streams'[c]) : Kept(c, 0, p)
  <2>1. \A p \in 1..Len(streams'[c]) :
           p \in 1..Len(streams[c]) /\ streams'[c][p] = streams[c][p]
    BY <1>0, <1>3 DEF Kept
  <2> QED
    BY <1>1, <1>2, <2>1
<1>4. CASE PumpWrites(c) /\ \A p \in 1..Len(streams'[c]) : Kept(c, 1, p) \/ Turned(c, p)
  <2> DEFINE t == Tail(streams[c][1])
  <2>1. /\ streams[c][1] \in Seq(Frames) \ {<<>>} /\ Len(streams[c]) \in Nat \ {0}
    BY <1>4, NextFrameShape DEF PumpWrites
  <2>2. Len(streams[c][1]) # 1 =>
           /\ Len(t) \in Nat \ {0}
           /\ \A k \in 1..Len(t) : t[k].id = IdOf(streams[c][1])
           /\ IdOf(t) = IdOf(streams[c][1])
    <3>1. /\ Len(streams[c][1]) \in Nat \ {0} /\ Len(t) = Len(streams[c][1]) - 1
          /\ \A k \in 1..(Len(streams[c][1]) - 1) : t[k] = streams[c][1][k + 1]
      BY <2>1, TailShape
    <3>2. 1 \in 1..Len(streams[c])
      BY <2>1
    <3>3. \A k \in 1..Len(streams[c][1]) : streams[c][1][k].id = IdOf(streams[c][1])
      BY <1>1, <3>2
    <3> HIDE DEF t
    <3>4. \A k \in 1..Len(t) : t[k].id = IdOf(streams[c][1])
      BY <3>1, <3>3
    <3>5. Len(streams[c][1]) # 1 => Len(t) \in Nat \ {0} /\ 1 \in 1..Len(t)
      <4>1. \A n \in Nat \ {0} : n # 1 => n - 1 \in Nat \ {0}
        OBVIOUS
      <4>2. Len(streams[c][1]) # 1 => Len(t) \in Nat \ {0}
        BY <3>1, <4>1
      <4> QED
        BY <4>2
    <3>6. IdOf(t) = t[1].id
      BY DEF IdOf
    <3> QED
      BY <3>4, <3>5, <3>6
  <2> HIDE DEF t
  <2>3. \A p \in 1..Len(streams'[c]) :
           \/ p + 1 \in 1..Len(streams[c]) /\ streams'[c][p] = streams[c][p + 1]
           \/ p = Len(streams[c]) /\ Len(streams[c][1]) # 1 /\ streams'[c][p] = t
    BY <1>4 DEF Kept, Turned, t
  <2>4. 1 \in 1..Len(streams[c])
    BY <2>1
  <2>5. \A p \in 1..Len(streams'[c]) :
           \E a \in 1..Len(streams[c]) :
              /\ IdOf(streams'[c][p]) = IdOf(streams[c][a])
              /\ a = IF p = Len(streams[c]) THEN 1 ELSE p + 1
              /\ \A k \in 1..Len(streams'[c][p]) : streams'[c][p][k].id = IdOf(streams[c][a])
              /\ streams'[c][p] = streams[c][a] \/ Len(streams[c][a]) # 1
    <3> SUFFICES ASSUME NEW p \in 1..Len(streams'[c])
                 PROVE  \E a \in 1..Len(streams[c]) :
                           /\ IdOf(streams'[c][p]) = IdOf(streams[c][a])
                           /\ a = IF p = Len(streams[c]) THEN 1 ELSE p + 1
                           /\ \A k \in 1..Len(streams'[c][p]) :
                                 streams'[c][p][k].id = IdOf(streams[c][a])
                           /\ streams'[c][p] = streams[c][a] \/ Len(streams[c][a]) # 1
      OBVIOUS
    <3>1. CASE p + 1 \in 1..Len(streams[c]) /\ streams'[c][p] = streams[c][p + 1]
      BY <1>0, <1>1, <3>1
    <3>2. CASE p = Len(streams[c]) /\ Len(streams[c][1]) # 1 /\ streams'[c][p] = t
      BY <2>2, <2>4, <3>2
    <3> QED
      BY <2>3, <3>1, <3>2
  <2>6. \A p, q \in 1..Len(streams'[c]) : IdOf(streams'[c][p]) = IdOf(streams'[c][q]) => p = q
    <3> SUFFICES ASSUME NEW p \in 1..Len(streams'[c]), NEW q \in 1..Len(streams'[c]),
                        IdOf(streams'[c][p]) = IdOf(streams'[c][q])
                 PROVE  p = q
      OBVIOUS
    <3>1. PICK a \in 1..Len(streams[c]) :
             /\ IdOf(streams'[c][p]) = IdOf(streams[c][a])
             /\ a = IF p = Len(streams[c]) THEN 1 ELSE p + 1
      BY <2>5
    <3>2. PICK b \in 1..Len(streams[c]) :
             /\ IdOf(streams'[c][q]) = IdOf(streams[c][b])
             /\ b = IF q = Len(streams[c]) THEN 1 ELSE q + 1
      BY <2>5
    <3>3. a = b
      BY <1>1, <3>1, <3>2
    <3> QED
      BY <1>0, <3>1, <3>2, <3>3
  <2> QED
    BY <1>1, <1>2, <2>5, <2>6
<1>5. ASSUME NEW s \in Seq(Frames) \ {<<>>}, Pushed(c, s),
             \A p \in 1..Len(streams'[c]) : Kept(c, 0, p) \/ Added(c, s, p)
      PROVE  \A p \in 1..Len(streams'[c]) :
                       /\ \A k \in 1..Len(streams'[c][p]) : streams'[c][p][k].id = IdOf(streams'[c][p])
                       /\ \A q \in 1..Len(streams'[c]) :
                             IdOf(streams'[c][p]) = IdOf(streams'[c][q]) => p = q
                       /\ IdOf(streams'[c][p]) = Ping => Len(streams'[c][p]) = 1
                       /\ IdOf(streams'[c][p]) # Ping =>
                             /\ home'[IdOf(streams'[c][p])] = c
                             /\ work'[IdOf(streams'[c][p])] \in {"done", "stopped"}
  <2>1. \A p \in 1..Len(streams'[c]) :
           \/ p \in 1..Len(streams[c]) /\ streams'[c][p] = streams[c][p]
           \/ p = Len(streams[c]) + 1 /\ streams'[c][p] = s
    BY <1>0, <1>5 DEF Kept, Added
  <2>2. /\ IdOf(s) \in Ids
        /\ \A k \in 1..Len(s) : s[k].id = IdOf(s)
        /\ \A p \in 1..Len(streams[c]) : IdOf(streams[c][p]) # IdOf(s)
        /\ IdOf(s) = Ping => Len(s) = 1
    BY <1>5, PushedShape
  <2>3. IdOf(s) # Ping => home'[IdOf(s)] = c /\ work'[IdOf(s)] \in {"done", "stopped"}
    <3>1. IdOf(s) # Ping => /\ IdOf(s) \in Requests /\ home[IdOf(s)] = c
                            /\ FinishWork(IdOf(s)) \/ StopWork(IdOf(s))
      BY <1>5, PushedShape
    <3>2. ASSUME NEW r \in Requests, FinishWork(r) \/ StopWork(r)
          PROVE  home' = home /\ work'[r] \in {"done", "stopped"}
      BY <3>2 DEF FinishWork, StopWork, Types, DaemonTypes
    <3> QED
      BY <3>1, <3>2
  <2>4. \A p, q \in 1..Len(streams'[c]) : IdOf(streams'[c][p]) = IdOf(streams'[c][q]) => p = q
    BY <1>0, <1>1, <2>1, <2>2
  <2>5. ASSUME NEW p \in 1..Len(streams'[c])
        PROVE  /\ \A k \in 1..Len(streams'[c][p]) : streams'[c][p][k].id = IdOf(streams'[c][p])
               /\ IdOf(streams'[c][p]) = Ping => Len(streams'[c][p]) = 1
               /\ IdOf(streams'[c][p]) # Ping =>
                     /\ home'[IdOf(streams'[c][p])] = c
                     /\ work'[IdOf(streams'[c][p])] \in {"done", "stopped"}
    <3>1. CASE p \in 1..Len(streams[c]) /\ streams'[c][p] = streams[c][p]
      BY <1>1, <1>2, <3>1
    <3>2. CASE p = Len(streams[c]) + 1 /\ streams'[c][p] = s
      BY <2>2, <2>3, <3>2
    <3> QED
      BY <2>1, <3>1, <3>2
  <2> QED
    BY <2>4, <2>5
<1> QED
  BY <1>3, <1>4, <1>5, StreamOrigins

\* What travels to the browser: one more frame from the pump, one less for the browser,
\* or nothing any more.
DownStep(c) ==
    \/ down'[c] = down[c]
    \/ down'[c] = <<>>
    \/ Receive(c) /\ down[c] # <<>> /\ down'[c] = Tail(down[c])
    \/ /\ PumpWrites(c) /\ sock[c] = "open" /\ c \notin dead
       /\ 1 \in 1..Len(streams[c]) /\ streams[c][1][1] \in Frames
       /\ down'[c] = Append(down[c], streams[c][1][1])

\* How a connection to the browser may change in a step.
LEMMA DownSteps ==
    ASSUME Types, [Next]_vars
    PROVE  \A d \in Conns : DownStep(d)
<1>1. CASE Dispose
  <2>1. down' \in {down, [down EXCEPT ![current] = <<>>]}
    BY <1>1 DEF Dispose, Deafen
  <2> QED
    BY <2>1 DEF DownStep, Types, FrameTypes
<1>2. CASE PingTimesOut
  <2>1. down' \in {down, [down EXCEPT ![current] = <<>>]}
    BY <1>2 DEF PingTimesOut, Deafen
  <2> QED
    BY <2>1 DEF DownStep, Types, FrameTypes
<1>3. ASSUME NEW c \in Conns, SocketCloses(c) PROVE \A d \in Conns : DownStep(d)
  BY <1>3 DEF SocketCloses, HandleClose, FailPending, ScheduleReconnect, Deafen, DownStep, Types, FrameTypes, client, network, queue, server
<1>4. ASSUME NEW c \in Conns, LossIsNoticed(c) PROVE \A d \in Conns : DownStep(d)
  BY <1>4 DEF LossIsNoticed, HandleClose, FailPending, ScheduleReconnect, Deafen, DownStep, Types, FrameTypes, client, network, queue, server
<1>5. ASSUME NEW c \in Conns, Receive(c) PROVE \A d \in Conns : DownStep(d)
  <2>1. down[c] # <<>> /\ down' = [down EXCEPT ![c] = Tail(down[c])]
    BY <1>5 DEF Receive
  <2> QED
    BY <1>5, <2>1 DEF DownStep, Types, FrameTypes
<1>6. ASSUME NEW c \in Conns, PumpWrites(c) PROVE \A d \in Conns : DownStep(d)
  <2>1. /\ Len(streams[c]) \in Nat \ {0}
        /\ Head(streams[c]) = streams[c][1] /\ Head(streams[c])[1] \in Frames
    BY <1>6, NextFrameShape DEF PumpWrites
  <2>2. \/ down' = down
        \/ /\ c \notin dead /\ sock[c] = "open"
           /\ down' = [down EXCEPT ![c] = Append(down[c], Head(streams[c])[1])]
    BY <1>6 DEF PumpWrites
  <2>3. 1 \in 1..Len(streams[c])
    BY <2>1
  <2> QED
    BY <1>6, <2>1, <2>2, <2>3 DEF DownStep, Types, FrameTypes
<1>7. ASSUME NEW c \in Conns, LinkDies(c) PROVE \A d \in Conns : DownStep(d)
  BY <1>7 DEF LinkDies, DownStep, Types, FrameTypes, client, network, queue, server
<1>8. CASE UNCHANGED <<down>>
  BY <1>8 DEF DownStep, Types, FrameTypes
<1> QED
  BY <1>1, <1>2, <1>3, <1>4, <1>5, <1>6, <1>7, <1>8, WhoWrites


\* Frame i of what travels to the browser after a step: the one that was n places behind,
\* or the one the pump has written.
Coming(c, n, i) == i + n \in 1..Len(down[c]) /\ down'[c][i] = down[c][i + n]
Written(c, i) == i = Len(down[c]) + 1 /\ down'[c][i] = streams[c][1][1]

\* Where a frame on its way stood before it.
LEMMA DownOrigins ==
    ASSUME Types, [Next]_vars, NEW c \in Conns
    PROVE  \/ \A i \in 1..Len(down'[c]) : Coming(c, 0, i)
           \/ /\ Receive(c) /\ 1 \in 1..Len(down[c])
              /\ Len(down'[c]) = Len(down[c]) - 1
              /\ \A i \in 1..Len(down'[c]) : Coming(c, 1, i)
           \/ /\ PumpWrites(c) /\ sock[c] = "open" /\ c \notin dead
              /\ 1 \in 1..Len(streams[c]) /\ streams[c][1][1] \in Frames
              /\ Len(down'[c]) = Len(down[c]) + 1
              /\ \A i \in 1..Len(down[c]) : Coming(c, 0, i)
              /\ Written(c, Len(down[c]) + 1)
<1>1. down[c] \in Seq(Frames) /\ Len(down[c]) \in Nat
  BY DEF Types, FrameTypes
<1>2. CASE down'[c] = down[c]
  BY <1>1, <1>2 DEF Coming
<1>3. CASE down'[c] = <<>>
  BY <1>3
<1>4. CASE Receive(c) /\ down[c] # <<>> /\ down'[c] = Tail(down[c])
  BY <1>1, <1>4, TailShape DEF Coming
<1>5. CASE /\ PumpWrites(c) /\ sock[c] = "open" /\ c \notin dead
           /\ 1 \in 1..Len(streams[c]) /\ streams[c][1][1] \in Frames
           /\ down'[c] = Append(down[c], streams[c][1][1])
  <2>1. /\ Len(down'[c]) = Len(down[c]) + 1
        /\ down'[c][Len(down[c]) + 1] = streams[c][1][1]
        /\ \A i \in 1..Len(down[c]) : down'[c][i] = down[c][i]
    BY <1>1, <1>5, AppendProperties
  <2> QED
    BY <1>1, <1>5, <2>1 DEF Coming, Written
<1> QED
  BY <1>2, <1>3, <1>4, <1>5, DownSteps DEF DownStep


\* A ping that is no longer awaited was answered, or its socket is no longer open.
LEMMA PingAnswered ==
    ASSUME Types, Sockets, Ping \in pending, Ping \notin pending', NEW c \in Conns, sock'[c] = "open"
          , [Next]_vars
    PROVE  /\ Receive(c) /\ down[c] # <<>> /\ down[c][1].id = Ping
           /\ UNCHANGED <<sock, up, streams>>
<1> DEFINE Answered == /\ Receive(c) /\ down[c] # <<>> /\ down[c][1].id = Ping
                      /\ UNCHANGED <<sock, up, streams>>
<1> HIDE DEF Answered
<1> SUFFICES Answered
  BY DEF Answered
<1>1. CASE Dispose
  <2>1. sock' = IF current = 0 THEN sock ELSE [sock EXCEPT ![current] = "closing"]
    BY <1>1 DEF Dispose
  <2>2. sock'[c] # "open"
    BY <2>1 DEF Sockets, Types, BrowserTypes, Conns
  <2> QED
    BY <2>2
<1>2. CASE SendPing
  <2>1. Ping \in pending'
    BY <1>2 DEF SendPing
  <2> QED
    BY <2>1
<1>3. CASE PingTimesOut
  <2>1. sock' = [sock EXCEPT ![current] = "closing"] /\ current # 0
    BY <1>3 DEF PingTimesOut, Sockets
  <2>2. sock'[c] # "open"
    BY <2>1 DEF Sockets, Types, BrowserTypes
  <2> QED
    BY <2>2
<1>4. ASSUME NEW r \in Requests, Request(r) PROVE Answered
  <2>1. pending \subseteq pending'
    BY <1>4 DEF Request
  <2> QED
    BY <2>1
<1>5. ASSUME NEW r \in Requests, Abort(r) PROVE Answered
  <2>1. pending' = pending \ {r} /\ r # Ping
    BY <1>5, Constants DEF Abort
  <2> QED
    BY <2>1
<1>6. ASSUME NEW d \in Conns, SocketCloses(d) PROVE Answered
  <2>1. sock' = [sock EXCEPT ![d] = "closed"] /\ sock[d] \in {"connecting", "open", "closing"}
    BY <1>6 DEF SocketCloses, HandleClose
  <2>2. c # d => sock[c] # "open"
    BY <2>1, Constants DEF Sockets, Conns
  <2>3. sock'[c] # "open"
    BY <2>1, <2>2 DEF Types, BrowserTypes
  <2> QED
    BY <2>3
<1>7. ASSUME NEW d \in Conns, LossIsNoticed(d) PROVE Answered
  <2>1. sock' = [sock EXCEPT ![d] = "closed"] /\ sock[d] \in {"connecting", "open", "closing"}
    BY <1>7 DEF LossIsNoticed, HandleClose
  <2>2. c # d => sock[c] # "open"
    BY <2>1, Constants DEF Sockets, Conns
  <2>3. sock'[c] # "open"
    BY <2>1, <2>2 DEF Types, BrowserTypes
  <2> QED
    BY <2>3
<1>8. ASSUME NEW d \in Conns, Receive(d) PROVE Answered
  <2>1. /\ sock[d] = "open" /\ down[d] # <<>> /\ UNCHANGED <<sock, up, streams>>
        /\ pending' = pending \/ pending' = pending \ {Head(down[d]).id}
    BY <1>8 DEF Receive, HandleChunk, Settle, server, queue
  <2>2. c = d /\ Head(down[d]).id = Ping
    BY <2>1 DEF Sockets
  <2>3. down[d] \in Seq(Frames)
    BY DEF Types, FrameTypes
  <2>4. Head(down[d]) = down[d][1]
    BY <2>1, <2>3, TailShape
  <2> QED
    BY <1>8, <2>1, <2>2, <2>4 DEF Answered
<1>9. CASE UNCHANGED <<pending>>
  BY <1>9
<1> QED
  BY <1>1, <1>2, <1>3, <1>4, <1>5, <1>6, <1>7, <1>8, <1>9, WhoWrites


\* Where the pings of a connection may be after a step.
LEMMA PingOrigins ==
    ASSUME Types, Opened, SentOnce, OnePing, InPlace, [Next]_vars, NEW c \in Conns
    PROVE  /\ PingsUp(c)' # {} => PingsUp(c) # {} \/ (SendPing /\ IsOpen /\ c = current)
           /\ PingsQueued(c)' # {} => PingsQueued(c) # {} \/ (ReadFrame(c) /\ 1 \in PingsUp(c))
           /\ PingsDown(c)' # {} => PingsDown(c) # {} \/ (PumpWrites(c) /\ 1 \in PingsQueued(c))
           /\ ReadFrame(c) /\ 1 \in PingsUp(c) => PingsUp(c)' = {}
           /\ PumpWrites(c) /\ 1 \in PingsQueued(c) => PingsQueued(c)' = {}
           /\ Receive(c) /\ 1 \in PingsDown(c) => PingsDown(c)' = {}
           /\ \A i, j \in PingsUp(c)' : i = j
           /\ \A i, j \in PingsDown(c)' : i = j
<1>0. Len(up[c]) \in Nat /\ Len(down[c]) \in Nat /\ Len(streams[c]) \in Nat
  BY DEF Types, FrameTypes
<1>1. PICK n \in {0, 1} :
         /\ n = 0 => ~ReadFrame(c) \/ up'[c] = <<>>
         /\ \A i \in 1..Len(up'[c]) :
               \/ i + n \in 1..Len(up[c]) /\ up'[c][i] = up[c][i + n]
               \/ /\ i = Len(up[c]) + 1 /\ IsOpen /\ c = current /\ n = 0
                  /\ \/ SendPing /\ up'[c][i] = [kind |-> "ping", id |-> Ping]
                     \/ \E r \in Requests : /\ Request(r)
                                            /\ up'[c][i] = [kind |-> "request", id |-> r]
                     \/ \E r \in Requests : /\ Abort(r)
                                            /\ up'[c][i] = [kind |-> "cancel", id |-> r]
  BY UpOrigins
<1>2. \A i \in PingsUp(c)' :
         \/ i + n \in PingsUp(c)
         \/ i = Len(up[c]) + 1 /\ SendPing /\ IsOpen /\ c = current
  <2> SUFFICES ASSUME NEW i \in 1..Len(up'[c]), up'[c][i].kind = "ping", i + n \notin PingsUp(c)
               PROVE  i = Len(up[c]) + 1 /\ SendPing /\ IsOpen /\ c = current
    BY DEF PingsUp
  <2>1. ~(i + n \in 1..Len(up[c]) /\ up'[c][i] = up[c][i + n])
    BY DEF PingsUp
  <2>2. \A r \in Requests : /\ up'[c][i] # [kind |-> "request", id |-> r]
                            /\ up'[c][i] # [kind |-> "cancel", id |-> r]
    <3> SUFFICES ASSUME NEW r \in Requests
                 PROVE  /\ up'[c][i] # [kind |-> "request", id |-> r]
                        /\ up'[c][i] # [kind |-> "cancel", id |-> r]
      OBVIOUS
    <3>1. [kind |-> "request", id |-> r].kind = "request" /\ [kind |-> "cancel", id |-> r].kind = "cancel"
      OBVIOUS
    <3> QED
      BY <3>1
  <2> QED
    BY <1>1, <2>1, <2>2
<1>3. SendPing /\ IsOpen /\ c = current => PingsUp(c) = {}
  BY DEF SendPing, IsOpen, OnePing
<1>4. \A i, j \in PingsUp(c) : i = j
  BY DEF OnePing
<1>5. \A i, j \in PingsUp(c)' : i = j
  <2> SUFFICES ASSUME NEW i \in PingsUp(c)', NEW j \in PingsUp(c)' PROVE i = j
    OBVIOUS
  <2>1. i \in Nat /\ j \in Nat
    BY DEF PingsUp
  <2>2. CASE PingsUp(c) = {}
    BY <1>2, <2>2
  <2>3. CASE PingsUp(c) # {}
    <3>1. i + n \in PingsUp(c) /\ j + n \in PingsUp(c)
      BY <1>2, <1>3, <2>3
    <3> QED
      BY <1>4, <2>1, <3>1
  <2> QED
    BY <2>2, <2>3
<1>6. PingsUp(c)' # {} => PingsUp(c) # {} \/ (SendPing /\ IsOpen /\ c = current)
  <2>1. ASSUME PingsUp(c) = {}, ~(SendPing /\ IsOpen /\ c = current)
        PROVE  PingsUp(c)' = {}
    <3> SUFFICES ASSUME NEW i \in PingsUp(c)' PROVE FALSE
      OBVIOUS
    <3> QED
      BY <1>2, <2>1
  <2> QED
    BY <2>1
<1>7. ASSUME ReadFrame(c), 1 \in PingsUp(c)
      PROVE  PingsUp(c)' = {}
  <2>1. CASE up'[c] = <<>>
    BY <2>1 DEF PingsUp
  <2>2. CASE n = 1
    <3> SUFFICES ASSUME NEW i \in PingsUp(c)' PROVE FALSE
      OBVIOUS
    <3>1. i + 1 \in PingsUp(c) /\ i \in Nat \ {0}
      BY <1>2, <1>3, <1>7, <2>2 DEF PingsUp
    <3>2. i + 1 = 1
      BY <1>4, <1>7, <3>1
    <3> QED
      BY <3>1, <3>2
  <2> QED
    BY <1>1, <1>7, <2>1, <2>2
<1>8. /\ \A p \in 1..Len(streams[c]) : IdOf(streams[c][p]) = Ping => Len(streams[c][p]) = 1
      /\ \A p, q \in PingsQueued(c) : p = q
  BY DEF InPlace, PingsQueued
<1>9. ASSUME NEW p \in PingsQueued(c)'
      PROVE  \/ p \in PingsQueued(c)
             \/ PumpWrites(c) /\ p + 1 \in PingsQueued(c)
             \/ ReadFrame(c) /\ 1 \in PingsUp(c)
  <2>0. p \in 1..Len(streams'[c]) /\ IdOf(streams'[c][p]) = Ping
    BY DEF PingsQueued, IdOf
  <2>1. CASE Kept(c, 0, p)
    BY <1>0, <2>0, <2>1 DEF Kept, PingsQueued
  <2>2. CASE PumpWrites(c) /\ (Kept(c, 1, p) \/ Turned(c, p))
    <3>1. CASE Kept(c, 1, p)
      BY <2>0, <2>2, <3>1 DEF Kept, PingsQueued
    <3>2. CASE Turned(c, p)
      <4>1. 1 \in 1..Len(streams[c]) /\ 1 \in 1..Len(streams'[c])
        BY <1>0, <2>0, <3>2 DEF Turned
      <4>2. /\ streams[c][1] \in Seq(Frames) \ {<<>>}
            /\ streams'[c][p] = Tail(streams[c][1]) /\ Len(streams[c][1]) # 1
        BY <2>2, <3>2, NextFrameShape DEF PumpWrites, Turned
      <4>3. streams[c][1][2].id = Ping /\ 2 \in 1..Len(streams[c][1])
        <5>1. PICK t \in Seq(Frames) : t = streams[c][1] /\ t # <<>>
          BY <4>2
        <5>2. Len(t) \in Nat \ {0} /\ Len(t) # 1
              /\ \A i \in 1..(Len(t) - 1) : Tail(t)[i] = t[i + 1]
          BY <4>2, <5>1, TailShape
        <5>3. 1 \in 1..(Len(t) - 1) /\ 2 \in 1..Len(t)
          <6>1. \A m \in Nat \ {0} : m # 1 => 1 \in 1..(m - 1) /\ 2 \in 1..m
            OBVIOUS
          <6> QED
            BY <5>2, <6>1
        <5>4. Tail(t)[1] = t[2]
          BY <5>2, <5>3
        <5> QED
          BY <2>0, <4>2, <5>1, <5>3, <5>4 DEF IdOf
      <4>4. IdOf(streams[c][1]) = Ping
        BY <4>1, <4>3 DEF InPlace
      <4> QED
        BY <1>8, <4>1, <4>2, <4>4
    <3> QED
      BY <2>2, <3>1, <3>2
  <2>3. ASSUME NEW s, Pushed(c, s), Added(c, s, p)
        PROVE  ReadFrame(c) /\ 1 \in PingsUp(c)
    <3>1. IdOf(s) = Ping
      BY <2>0, <2>3 DEF Added
    <3> QED
      BY <2>3, <3>1, PushedShape
  <2>4. CASE \E s \in Seq(Frames) \ {<<>>} :
                /\ Pushed(c, s)
                /\ \A q \in 1..Len(streams'[c]) : Kept(c, 0, q) \/ Added(c, s, q)
    <3>1. PICK s \in Seq(Frames) \ {<<>>} :
                /\ Pushed(c, s)
                /\ \A q \in 1..Len(streams'[c]) : Kept(c, 0, q) \/ Added(c, s, q)
      BY <2>4
    <3> QED
      BY <2>0, <2>1, <2>3, <3>1
  <2> QED
    BY <2>0, <2>1, <2>2, <2>4, StreamOrigins
<1>10. PingsQueued(c)' # {} => PingsQueued(c) # {} \/ (ReadFrame(c) /\ 1 \in PingsUp(c))
  <2>1. ASSUME PingsQueued(c) = {}, ~(ReadFrame(c) /\ 1 \in PingsUp(c))
        PROVE  PingsQueued(c)' = {}
    <3> SUFFICES ASSUME NEW i \in PingsQueued(c)' PROVE FALSE
      OBVIOUS
    <3> QED
      BY <1>9, <2>1
  <2> QED
    BY <2>1
<1>11. ASSUME PumpWrites(c), 1 \in PingsQueued(c)
       PROVE  PingsQueued(c)' = {}
  <2> SUFFICES ASSUME NEW p \in PingsQueued(c)' PROVE FALSE
    OBVIOUS
  <2>0. p \in 1..Len(streams'[c]) /\ IdOf(streams'[c][p]) = Ping
    BY DEF PingsQueued, IdOf
  <2>1. 1 \in 1..Len(streams[c]) /\ Len(streams[c][1]) = 1
    BY <1>8, <1>11 DEF PingsQueued
  <2>2. Kept(c, 1, p)
    BY <1>11, <2>0, <2>1, PumpOrigins DEF Turned
  <2>3. p + 1 \in PingsQueued(c)
    BY <2>0, <2>2 DEF Kept, PingsQueued
  <2>4. p + 1 = 1
    BY <1>8, <1>11, <2>3
  <2> QED
    BY <2>0, <2>4
<1>12. \A i \in PingsDown(c)' :
          \/ i \in PingsDown(c)
          \/ Receive(c) /\ i + 1 \in PingsDown(c)
          \/ PumpWrites(c) /\ 1 \in PingsQueued(c) /\ i = Len(down[c]) + 1
  <2> SUFFICES ASSUME NEW i \in PingsDown(c)'
               PROVE  \/ i \in PingsDown(c)
                      \/ Receive(c) /\ i + 1 \in PingsDown(c)
                      \/ PumpWrites(c) /\ 1 \in PingsQueued(c) /\ i = Len(down[c]) + 1
    OBVIOUS
  <2>0. i \in 1..Len(down'[c]) /\ down'[c][i].id = Ping
    BY DEF PingsDown
  <2>1. CASE Coming(c, 0, i)
    BY <1>0, <2>0, <2>1 DEF Coming, PingsDown
  <2>2. CASE Receive(c) /\ Coming(c, 1, i)
    BY <2>0, <2>2 DEF Coming, PingsDown
  <2>3. CASE PumpWrites(c) /\ 1 \in 1..Len(streams[c]) /\ i = Len(down[c]) + 1 /\ Written(c, i)
    BY <2>0, <2>3 DEF Written, PingsQueued, IdOf
  <2> QED
    BY <1>0, <2>0, <2>1, <2>2, <2>3, DownOrigins
<1>13. PingsQueued(c) = {} \/ PingsDown(c) = {}
  BY DEF OnePing
<1>14. \A i, j \in PingsDown(c) : i = j
  BY DEF OnePing
<1>15. \A i, j \in PingsDown(c)' : i = j
  <2> SUFFICES ASSUME NEW i \in PingsDown(c)', NEW j \in PingsDown(c)' PROVE i = j
    OBVIOUS
  <2>0. i \in 1..Len(down'[c]) /\ down'[c][i].id = Ping /\ j \in 1..Len(down'[c]) /\ down'[c][j].id = Ping
    BY DEF PingsDown
  <2>1. CASE \A k \in 1..Len(down'[c]) : Coming(c, 0, k)
    <3>1. i \in PingsDown(c) /\ j \in PingsDown(c)
      BY <1>0, <2>0, <2>1 DEF Coming, PingsDown
    <3> QED
      BY <1>14, <3>1
  <2>2. CASE \A k \in 1..Len(down'[c]) : Coming(c, 1, k)
    <3>1. i + 1 \in PingsDown(c) /\ j + 1 \in PingsDown(c)
      BY <2>0, <2>2 DEF Coming, PingsDown
    <3>2. i + 1 = j + 1
      BY <1>14, <3>1
    <3> QED
      BY <2>0, <3>2
  <2>3. CASE /\ PumpWrites(c) /\ 1 \in 1..Len(streams[c])
             /\ Len(down'[c]) = Len(down[c]) + 1
             /\ \A k \in 1..Len(down[c]) : Coming(c, 0, k)
             /\ Written(c, Len(down[c]) + 1)
    <3>1. \A k \in PingsDown(c)' : k \in PingsDown(c) \/ k = Len(down[c]) + 1
      BY <1>0, <2>3 DEF Coming, PingsDown
    <3>2. Len(down[c]) + 1 \in PingsDown(c)' => 1 \in PingsQueued(c)
      BY <2>3 DEF Written, PingsDown, PingsQueued, IdOf
    <3> QED
      BY <1>13, <1>14, <3>1, <3>2
  <2> QED
    BY <2>1, <2>2, <2>3, DownOrigins
<1>16. PingsDown(c)' # {} => PingsDown(c) # {} \/ (PumpWrites(c) /\ 1 \in PingsQueued(c))
  <2>1. ASSUME PingsDown(c) = {}, ~(PumpWrites(c) /\ 1 \in PingsQueued(c))
        PROVE  PingsDown(c)' = {}
    <3> SUFFICES ASSUME NEW i \in PingsDown(c)' PROVE FALSE
      OBVIOUS
    <3> QED
      BY <1>12, <2>1
  <2> QED
    BY <2>1
<1>17. ASSUME Receive(c), 1 \in PingsDown(c)
       PROVE  PingsDown(c)' = {}
  <2> SUFFICES ASSUME NEW i \in PingsDown(c)' PROVE FALSE
    OBVIOUS
  <2>1. i \in 1..Len(down'[c]) /\ down'[c] = Tail(down[c]) /\ down[c] # <<>>
    BY <1>17 DEF Receive, PingsDown, Types, FrameTypes
  <2>2. i + 1 \in PingsDown(c)
    <3>1. /\ down[c] \in Seq(Frames) /\ down'[c][i].id = Ping
      BY DEF Types, FrameTypes, PingsDown
    <3>2. i + 1 \in 1..Len(down[c]) /\ down'[c][i] = down[c][i + 1]
      BY <2>1, <3>1, TailShape
    <3> QED
      BY <3>1, <3>2 DEF PingsDown
  <2>3. i + 1 = 1
    BY <1>14, <1>17, <2>2
  <2> QED
    BY <2>1, <2>3
<1> QED
  BY <1>5, <1>6, <1>7, <1>10, <1>11, <1>15, <1>16, <1>17


\* A socket that becomes open was connecting.
LEMMA OpensFirst ==
    ASSUME Types, Sockets, NEW c \in Conns, sock[c] # "open", sock'[c] = "open"
          , [Next]_vars
    PROVE  sock[c] = "connecting"
<1>1. CASE Connect
  BY <1>1 DEF Connect, Types, BrowserTypes, Sockets, client, network, queue, server
<1>2. CASE Dispose
  BY <1>2 DEF Dispose, FailPending, Deafen, Types, BrowserTypes, Sockets, client, network, queue, server
<1>3. CASE PingTimesOut
  BY <1>3 DEF PingTimesOut, Deafen, Types, BrowserTypes, Sockets, client, network, queue, server
<1>4. ASSUME NEW d \in Conns, Opens(d) PROVE sock[c] = "connecting"
  BY <1>4 DEF Opens, Types, BrowserTypes, Sockets, client, network, queue, server
<1>5. ASSUME NEW d \in Conns, SocketCloses(d) PROVE sock[c] = "connecting"
  BY <1>5 DEF SocketCloses, HandleClose, FailPending, ScheduleReconnect, Deafen, Types, BrowserTypes, Sockets, client, network, queue, server
<1>6. ASSUME NEW d \in Conns, LossIsNoticed(d) PROVE sock[c] = "connecting"
  BY <1>6 DEF LossIsNoticed, HandleClose, FailPending, ScheduleReconnect, Deafen, Types, BrowserTypes, Sockets, client, network, queue, server
<1>7. CASE UNCHANGED <<sock>>
  BY <1>7 DEF Types, BrowserTypes, Sockets
<1> QED
  BY <1>1, <1>2, <1>3, <1>4, <1>5, <1>6, <1>7, WhoWrites


\* Pings do not meet on their way.
LEMMA OnePingStep ==
    ASSUME Types, Sockets, Opened, SentOnce, InPlace, OnePing, [Next]_vars
    PROVE  OnePing'
<1> SUFFICES ASSUME NEW c \in Conns
             PROVE  /\ \A i, j \in PingsUp(c)' : i = j
                    /\ \A i, j \in PingsDown(c)' : i = j
                    /\ PingsUp(c)' = {} \/ PingsQueued(c)' = {}
                    /\ PingsUp(c)' = {} \/ PingsDown(c)' = {}
                    /\ PingsQueued(c)' = {} \/ PingsDown(c)' = {}
                    /\ sock'[c] = "open" /\ Ping \notin pending' =>
                          PingsUp(c)' = {} /\ PingsQueued(c)' = {} /\ PingsDown(c)' = {}
  BY DEF OnePing
<1> DEFINE Sends == SendPing /\ IsOpen /\ c = current
           Empty == PingsUp(c) = {} /\ PingsQueued(c) = {} /\ PingsDown(c) = {}
<1>1. /\ PingsUp(c)' # {} => PingsUp(c) # {} \/ Sends
      /\ PingsQueued(c)' # {} => PingsQueued(c) # {} \/ (ReadFrame(c) /\ 1 \in PingsUp(c))
      /\ PingsDown(c)' # {} => PingsDown(c) # {} \/ (PumpWrites(c) /\ 1 \in PingsQueued(c))
      /\ ReadFrame(c) /\ 1 \in PingsUp(c) => PingsUp(c)' = {}
      /\ PumpWrites(c) /\ 1 \in PingsQueued(c) => PingsQueued(c)' = {}
      /\ Receive(c) /\ 1 \in PingsDown(c) => PingsDown(c)' = {}
      /\ \A i, j \in PingsUp(c)' : i = j
      /\ \A i, j \in PingsDown(c)' : i = j
  BY PingOrigins
<1>2. /\ PingsUp(c) = {} \/ PingsQueued(c) = {}
      /\ PingsUp(c) = {} \/ PingsDown(c) = {}
      /\ PingsQueued(c) = {} \/ PingsDown(c) = {}
      /\ sock[c] = "open" /\ Ping \notin pending => Empty
  BY DEF OnePing
<1>3. Sends => sock[c] = "open" /\ Ping \notin pending /\ Ping \in pending' /\ UNCHANGED sock
  BY DEF SendPing, IsOpen
<1>4. 1 \in PingsUp(c) => PingsUp(c) # {}
  OBVIOUS
<1>5. 1 \in PingsQueued(c) => PingsQueued(c) # {}
  OBVIOUS
<1> HIDE DEF Sends
<1>6. PingsUp(c)' = {} \/ PingsQueued(c)' = {}
  BY <1>1, <1>2, <1>3, <1>4
<1>7. PingsUp(c)' = {} \/ PingsDown(c)' = {}
  BY <1>1, <1>2, <1>3, <1>5
<1>8. PingsQueued(c)' = {} \/ PingsDown(c)' = {}
  BY <1>1, <1>2, <1>4, <1>5
<1>9. ASSUME sock'[c] = "open", Ping \notin pending'
      PROVE  PingsUp(c)' = {} /\ PingsQueued(c)' = {} /\ PingsDown(c)' = {}
  <2>1. CASE sock[c] = "open" /\ Ping \notin pending
    BY <1>1, <1>2, <1>3, <1>4, <1>5, <1>9, <2>1
  <2>2. CASE Ping \in pending
    <3>1. Receive(c) /\ down[c] # <<>> /\ down[c][1].id = Ping /\ UNCHANGED <<up, streams>>
      BY <1>9, <2>2, PingAnswered
    <3>2. 1 \in PingsDown(c)
      BY <3>1 DEF PingsDown, Types, FrameTypes
    <3>3. PingsUp(c) = {} /\ PingsQueued(c) = {} /\ PingsDown(c)' = {}
      BY <1>1, <1>2, <3>1, <3>2
    <3>4. PingsUp(c)' = PingsUp(c) /\ PingsQueued(c)' = PingsQueued(c)
      BY <3>1 DEF PingsUp, PingsQueued, IdOf
    <3> QED
      BY <3>3, <3>4
  <2>3. CASE sock[c] # "open"
    <3>1. up[c] = <<>> /\ down[c] = <<>> /\ streams[c] = <<>>
      BY <1>9, <2>3, OpensFirst DEF Opened
    <3>2. Empty
      BY <3>1 DEF PingsUp, PingsQueued, PingsDown
    <3> QED
      BY <1>1, <1>3, <1>4, <1>5, <2>3, <3>2
  <2> QED
    BY <2>1, <2>2, <2>3
<1> QED
  BY <1>1, <1>6, <1>7, <1>8, <1>9


-----------------------------------------------------------------------------
(* The pump takes the streams in turn. *)

\* What the pump leaves of a stream goes by the same id.
LEMMA TurnedId ==
    ASSUME Types, InPlace, NEW c \in Conns, PumpWrites(c), NEW p \in 1..Len(streams'[c]), Turned(c, p)
    PROVE  IdOf(streams'[c][p]) = IdOf(streams[c][1])
<1>1. NextFrame(c)
  BY DEF PumpWrites
<1>2. /\ streams[c][1] \in Seq(Frames) \ {<<>>} /\ Len(streams[c]) \in Nat \ {0}
      /\ streams'[c][p] = Tail(streams[c][1]) /\ Len(streams[c][1]) # 1
  BY <1>1, NextFrameShape DEF Turned
<1>3. PICK t \in Seq(Frames) : t = streams[c][1] /\ t # <<>>
  BY <1>2
<1>4. Len(t) \in Nat \ {0} /\ Len(t) # 1 /\ \A i \in 1..(Len(t) - 1) : Tail(t)[i] = t[i + 1]
  BY <1>2, <1>3, TailShape
<1>5. 1 \in 1..(Len(t) - 1) /\ 2 \in 1..Len(t)
  <2>1. \A m \in Nat \ {0} : m # 1 => 1 \in 1..(m - 1) /\ 2 \in 1..m
    OBVIOUS
  <2> QED
    BY <1>4, <2>1
<1>6. Tail(t)[1] = t[2]
  BY <1>4, <1>5
<1>7. streams[c][1][2].id = IdOf(streams[c][1])
  <2>1. 1 \in 1..Len(streams[c]) /\ 2 \in 1..Len(streams[c][1])
    BY <1>2, <1>3, <1>5
  <2> QED
    BY <2>1 DEF InPlace
<1> QED
  BY <1>2, <1>3, <1>6, <1>7 DEF IdOf

\* Counting ids.
LEMMA FewerIds ==
    ASSUME NEW S \in SUBSET Ids, NEW i \in Ids, i \notin S
    PROVE  Cardinality(S) \in Nat /\ Cardinality(S) < Cardinality(Ids) /\ Cardinality(Ids) \in Nat
<1>1. IsFiniteSet(Ids)
  BY Constants, FS_Singleton, FS_Union DEF Ids
<1>2. IsFiniteSet(S) /\ Cardinality(S) <= Cardinality(Ids) /\ Cardinality(S) # Cardinality(Ids)
  BY <1>1, FS_Subset
<1> QED
  BY <1>1, <1>2, FS_CardinalityType

\* Counting those ahead.
LEMMA FewerAhead ==
    ASSUME NEW S \in SUBSET Ids, NEW T \in SUBSET S
    PROVE  /\ Cardinality(S) \in Nat /\ Cardinality(T) \in Nat
           /\ Cardinality(T) <= Cardinality(S)
           /\ T # S => Cardinality(T) + 1 <= Cardinality(S)
<1>1. IsFiniteSet(Ids)
  BY Constants, FS_Singleton, FS_Union DEF Ids
<1>2. IsFiniteSet(S)
  BY <1>1, FS_Subset
<1>3. /\ IsFiniteSet(T) /\ Cardinality(T) <= Cardinality(S)
      /\ Cardinality(T) = Cardinality(S) => S = T
  BY <1>2, FS_Subset
<1> QED
  BY <1>2, <1>3, FS_CardinalityType

\* A stream does not wait for itself.
LEMMA NoneAheadOfItself ==
    ASSUME InPlace', NEW i \in Ids
    PROVE  i \notin Ahead(i)' /\ Ahead(i)' \in SUBSET Ids
<1>1. Ahead(i)' \in SUBSET Ids
  BY DEF Ahead
<1>2. ASSUME NEW c \in Conns, NEW p \in 1..Len(streams'[c]), NEW q \in 1..Len(streams'[c]),
             p < q, IdOf(streams'[c][p]) = i, IdOf(streams'[c][q]) = i
      PROVE  FALSE
  <2>1. p = q
    BY <1>2 DEF InPlace, IdOf
  <2> QED
    BY <1>2, <2>1
<1>3. i \notin Ahead(i)'
  BY <1>2 DEF Ahead, IdOf
<1> QED
  BY <1>1, <1>3

\* A new stream goes behind the others.
LEMMA PushTurn ==
    ASSUME Types, InPlace', TurnsCome, NEW c \in Conns, NEW id \in Ids,
           NEW s \in Seq(Frames) \ {<<>>}, IdOf(s) = id, Push(c, id, s)
    PROVE  TurnsCome'
<1>1. lag' = [lag EXCEPT ![id] = 0] /\ lag \in [Ids -> Nat]
  BY DEF Push, Types, DaemonTypes
<1>2. \/ streams' = streams
      \/ streams' = [streams EXCEPT ![c] = Append(streams[c], s)]
  BY PushShape
<1>3. streams \in [Conns -> Seq(Seq(Frames) \ {<<>>})]
  BY DEF Types, FrameTypes
<1> SUFFICES ASSUME NEW i \in Ids
             PROVE  lag'[i] + Cardinality(Ahead(i)') < Cardinality(Ids)
  BY DEF TurnsCome
<1>4. CASE i = id
  BY <1>1, <1>4, FewerIds, NoneAheadOfItself
<1>5. CASE i # id
  <2>1. ASSUME NEW d \in Conns, NEW q \in 1..Len(streams'[d]), IdOf(streams'[d][q]) = i
        PROVE  /\ q \in 1..Len(streams[d])
               /\ \A p \in 1..q : streams'[d][p] = streams[d][p]
    <3>1. CASE streams'[d] = streams[d]
      BY <2>1, <3>1
    <3>2. CASE d = c /\ streams'[d] = Append(streams[d], s)
      <4>1. /\ streams[d] \in Seq(Seq(Frames) \ {<<>>})
            /\ Len(streams'[d]) = Len(streams[d]) + 1
            /\ streams'[d][Len(streams[d]) + 1] = s
            /\ \A p \in 1..Len(streams[d]) : streams'[d][p] = streams[d][p]
        BY <1>3, <3>2, LastShape
      <4>2. q # Len(streams[d]) + 1
        BY <1>5, <2>1, <4>1
      <4>3. Len(streams[d]) \in Nat
        BY <4>1
      <4> QED
        BY <4>1, <4>2, <4>3
    <3> QED
      BY <1>2, <1>3, <3>1, <3>2
  <2>2. Ahead(i)' \subseteq Ahead(i)
    <3> SUFFICES ASSUME NEW j \in Ids, NEW d \in Conns, NEW p \in 1..Len(streams'[d]),
                        NEW q \in 1..Len(streams'[d]), p < q,
                        IdOf(streams'[d][p]) = j, IdOf(streams'[d][q]) = i
                 PROVE  j \in Ahead(i)
      BY DEF Ahead, IdOf
    <3>1. q \in 1..Len(streams[d]) /\ p \in 1..q /\ p \in 1..Len(streams[d])
      BY <1>3, <2>1
    <3>2. streams'[d][q] = streams[d][q] /\ streams'[d][p] = streams[d][p]
      BY <2>1, <3>1
    <3> QED
      BY <3>1, <3>2 DEF Ahead
  <2>3. Ahead(i) \in SUBSET Ids
    BY DEF Ahead
  <2>4. /\ Cardinality(Ahead(i)') <= Cardinality(Ahead(i))
        /\ Cardinality(Ahead(i)') \in Nat /\ Cardinality(Ahead(i)) \in Nat
    BY <2>2, <2>3, FewerAhead
  <2>5. lag'[i] = lag[i] /\ lag[i] \in Nat
    BY <1>1, <1>5
  <2>6. lag[i] + Cardinality(Ahead(i)) < Cardinality(Ids) /\ Cardinality(Ids) \in Nat
    BY <2>3, FewerIds, Constants, FS_CardinalityType, FS_Singleton, FS_Union DEF TurnsCome, Ids
  <2> QED
    BY <2>4, <2>5, <2>6
<1> QED
  BY <1>4, <1>5

\* A pump that stops serves nobody.
LEMMA StopTurn ==
    ASSUME Types, TurnsCome, NEW c \in Conns, StopPump(c)
    PROVE  TurnsCome'
<1>1. /\ streams' = [streams EXCEPT ![c] = <<>>] /\ streams \in [Conns -> Seq(Seq(Frames) \ {<<>>})]
      /\ \A i \in Ids : lag'[i] = 0 \/ lag'[i] = lag[i]
      /\ lag \in [Ids -> Nat]
  BY DEF StopPump, Types, FrameTypes, DaemonTypes
<1> SUFFICES ASSUME NEW i \in Ids
             PROVE  lag'[i] + Cardinality(Ahead(i)') < Cardinality(Ids)
  BY DEF TurnsCome
<1>2. Ahead(i)' \subseteq Ahead(i)
  <2> SUFFICES ASSUME NEW j \in Ids, NEW d \in Conns, NEW p \in 1..Len(streams'[d]),
                      NEW q \in 1..Len(streams'[d]), p < q,
                      IdOf(streams'[d][p]) = j, IdOf(streams'[d][q]) = i
               PROVE  j \in Ahead(i)
    BY DEF Ahead, IdOf
  <2>1. d # c /\ streams'[d] = streams[d]
    BY <1>1
  <2> QED
    BY <2>1 DEF Ahead
<1>3. Ahead(i) \in SUBSET Ids
  BY DEF Ahead
<1>4. /\ Cardinality(Ahead(i)') <= Cardinality(Ahead(i))
      /\ Cardinality(Ahead(i)') \in Nat /\ Cardinality(Ahead(i)) \in Nat
  BY <1>2, <1>3, FewerAhead
<1>5. lag[i] + Cardinality(Ahead(i)) < Cardinality(Ids) /\ Cardinality(Ids) \in Nat
  BY Constants, FS_CardinalityType, FS_Singleton, FS_Union DEF TurnsCome, Ids
<1>6. lag[i] \in Nat /\ (lag'[i] = 0 \/ lag'[i] = lag[i])
  BY <1>1
<1> QED
  BY <1>4, <1>5, <1>6

\* A stream that waits has one stream fewer ahead of it after every frame.
LEMMA WriteTurn ==
    ASSUME Types, InPlace, InPlace', TurnsCome, NEW c \in Conns, PumpWrites(c)
    PROVE  TurnsCome'
<1> DEFINE h == IdOf(streams[c][1])
<1>1. NextFrame(c)
  BY DEF PumpWrites
<1>2. /\ streams[c] \in Seq(Seq(Frames) \ {<<>>}) /\ streams[c] # <<>>
      /\ Len(streams[c]) \in Nat \ {0} /\ Head(streams[c]) = streams[c][1]
      /\ \A d \in Conns : d # c => streams'[d] = streams[d]
  BY <1>1, NextFrameShape DEF NextFrame, Types, FrameTypes
<1>3. /\ streams[c][1] \in Seq(Frames) \ {<<>>} /\ streams[c][1][1] \in Frames
  BY <1>1, <1>2, NextFrameShape
<1>4. h \in Ids
  BY <1>3 DEF IdOf, Frames
<1>5. /\ Len(Tail(streams[c])) = Len(streams[c]) - 1 /\ Tail(streams[c]) \in Seq(Seq(Frames) \ {<<>>})
      /\ \A k \in 1..(Len(streams[c]) - 1) : Tail(streams[c])[k] = streams[c][k + 1]
  BY <1>2, TailShape
<1>6. DOMAIN Tail(streams[c]) = 1..(Len(streams[c]) - 1)
  BY <1>5
<1>7. Waiting(Tail(streams[c])) = {IdOf(streams[c][k + 1]) : k \in 1..(Len(streams[c]) - 1)}
  BY <1>5, <1>6 DEF Waiting, IdOf
<1>8. /\ \A i \in Ids : lag'[i] = IF i \in Waiting(Tail(streams[c])) THEN lag[i] + 1
                                  ELSE IF i = h THEN 0 ELSE lag[i]
      /\ lag \in [Ids -> Nat]
  BY <1>1, <1>2 DEF NextFrame, Turn, IdOf, Types, DaemonTypes
<1> HIDE DEF h
<1>9. \A k \in 1..(Len(streams[c]) - 1) : k + 1 \in 1..Len(streams[c]) /\ 1 < k + 1
  BY <1>2
<1>10. \A k \in 1..(Len(streams[c]) - 1) : IdOf(streams[c][k + 1]) # h
  <2> SUFFICES ASSUME NEW k \in 1..(Len(streams[c]) - 1), IdOf(streams[c][k + 1]) = h PROVE FALSE
    OBVIOUS
  <2>1. 1 \in 1..Len(streams[c])
    BY <1>2
  <2>2. 1 = k + 1
    BY <1>9, <2>1 DEF InPlace, h
  <2> QED
    BY <1>9, <2>2
<1>11. \A p \in 1..Len(streams'[c]) :
          \/ p + 1 \in 1..Len(streams[c]) /\ streams'[c][p] = streams[c][p + 1]
          \/ p = Len(streams[c]) /\ IdOf(streams'[c][p]) = h
  BY PumpOrigins, TurnedId DEF Kept, Turned, h
<1> SUFFICES ASSUME NEW i \in Ids
             PROVE  lag'[i] + Cardinality(Ahead(i)') < Cardinality(Ids)
  BY DEF TurnsCome
<1>12. Cardinality(Ids) \in Nat /\ lag[i] + Cardinality(Ahead(i)) < Cardinality(Ids)
  BY Constants, FS_CardinalityType, FS_Singleton, FS_Union DEF TurnsCome, Ids
<1>13. Ahead(i) \in SUBSET Ids /\ lag[i] \in Nat
  BY <1>8 DEF Ahead
<1>14. CASE i = h
  <2>1. lag'[i] = 0
    BY <1>7, <1>8, <1>10, <1>14
  <2> QED
    BY <2>1, FewerIds, NoneAheadOfItself
<1>15. CASE i # h
  <2>1. ASSUME NEW j \in Ids, NEW p \in 1..Len(streams'[c]),
               NEW q \in 1..Len(streams'[c]), p < q,
               IdOf(streams'[c][p]) = j, IdOf(streams'[c][q]) = i
        PROVE  j \in Ahead(i) /\ j # h
    <3>1. q + 1 \in 1..Len(streams[c]) /\ streams'[c][q] = streams[c][q + 1]
      BY <1>11, <1>15, <2>1
    <3>2. p \in Nat /\ q \in Nat
      OBVIOUS
    <3>3. p # Len(streams[c])
      BY <1>2, <2>1, <3>1, <3>2
    <3>4. p + 1 \in 1..Len(streams[c]) /\ streams'[c][p] = streams[c][p + 1]
      BY <1>11, <3>3
    <3>5. j \in Ahead(i)
      <4>1. p + 1 < q + 1
        BY <2>1, <3>2
      <4> QED
        BY <2>1, <3>1, <3>4, <4>1 DEF Ahead
    <3>6. p \in 1..(Len(streams[c]) - 1)
      BY <1>2, <3>2, <3>4
    <3> QED
      BY <1>10, <2>1, <3>4, <3>5, <3>6
  <2>2. Ahead(i)' \subseteq Ahead(i)
    <3> SUFFICES ASSUME NEW j \in Ids, NEW d \in Conns, NEW p \in 1..Len(streams'[d]),
                        NEW q \in 1..Len(streams'[d]), p < q,
                        IdOf(streams'[d][p]) = j, IdOf(streams'[d][q]) = i
                 PROVE  j \in Ahead(i)
      BY DEF Ahead, IdOf
    <3>1. CASE d = c
      BY <2>1, <3>1
    <3>2. CASE d # c
      <4>1. streams'[d] = streams[d]
        BY <1>2, <3>2
      <4> QED
        BY <4>1 DEF Ahead
    <3> QED
      BY <3>1, <3>2
  <2>3. CASE i \notin Waiting(Tail(streams[c]))
    <3>1. lag'[i] = lag[i]
      BY <1>8, <1>15, <2>3
    <3>2. /\ Cardinality(Ahead(i)') <= Cardinality(Ahead(i))
          /\ Cardinality(Ahead(i)') \in Nat /\ Cardinality(Ahead(i)) \in Nat
      BY <1>13, <2>2, FewerAhead
    <3> QED
      BY <1>12, <1>13, <3>1, <3>2
  <2>4. CASE i \in Waiting(Tail(streams[c]))
    <3>1. PICK k \in 1..(Len(streams[c]) - 1) : IdOf(streams[c][k + 1]) = i
      BY <1>7, <2>4
    <3>2. h \in Ahead(i)
      <4>1. 1 \in 1..Len(streams[c])
        BY <1>2
      <4> QED
        BY <1>4, <1>9, <3>1, <4>1 DEF Ahead, h
    <3>3. h \notin Ahead(i)'
      <4>1. ASSUME NEW d \in Conns, d # c, NEW p \in 1..Len(streams[d]), NEW q \in 1..Len(streams[d]),
                   IdOf(streams[d][p]) = h, IdOf(streams[d][q]) = i
            PROVE  FALSE
        <5>1. CASE i = Ping
          <6>1. home[h] = d
            BY <1>15, <4>1, <5>1 DEF InPlace
          <6>2. 1 \in 1..Len(streams[c])
            BY <1>2
          <6>3. home[h] = c
            BY <1>15, <5>1, <6>2 DEF InPlace, h
          <6> QED
            BY <4>1, <6>1, <6>3
        <5>2. CASE i # Ping
          <6>1. home[i] = d
            BY <4>1, <5>2 DEF InPlace
          <6>2. home[i] = c
            BY <1>9, <3>1, <5>2 DEF InPlace
          <6> QED
            BY <4>1, <6>1, <6>2
        <5> QED
          BY <5>1, <5>2
      <4>2. ASSUME NEW d \in Conns, d # c, NEW p \in 1..Len(streams'[d]), NEW q \in 1..Len(streams'[d]),
                   IdOf(streams'[d][p]) = h, IdOf(streams'[d][q]) = i
            PROVE  FALSE
        <5>1. streams'[d] = streams[d]
          BY <1>2, <4>2
        <5> QED
          BY <4>1, <4>2, <5>1
      <4>3. ASSUME NEW d \in Conns, NEW p \in 1..Len(streams'[d]), NEW q \in 1..Len(streams'[d]), p < q,
                   IdOf(streams'[d][p]) = h, IdOf(streams'[d][q]) = i
            PROVE  FALSE
        BY <1>4, <2>1, <4>2, <4>3
      <4> QED
        BY <4>3 DEF Ahead, IdOf
    <3>4. lag'[i] = lag[i] + 1
      BY <1>8, <2>4
    <3>5. /\ Cardinality(Ahead(i)') + 1 <= Cardinality(Ahead(i))
          /\ Cardinality(Ahead(i)') \in Nat /\ Cardinality(Ahead(i)) \in Nat
      BY <1>13, <2>2, <3>2, <3>3, FewerAhead
    <3> QED
      BY <1>12, <1>13, <3>4, <3>5
  <2> QED
    BY <2>3, <2>4
<1> QED
  BY <1>14, <1>15

\* A step of the pump that passes a stream by takes one from ahead of it.
LEMMA TurnsComeStep ==
    ASSUME Types, Opened, InPlace, InPlace', TurnsCome, [Next]_vars
    PROVE  TurnsCome'
<1>1. ASSUME NEW r \in Requests, FinishWork(r) PROVE TurnsCome'
  <2>1. home[r] \in Conns /\ Push(home[r], r, Answer(r))
    BY <1>1 DEF FinishWork, Enqueue, Opened, Answer
  <2>2. Answer(r) \in Seq(Frames) \ {<<>>} /\ IdOf(Answer(r)) = r /\ r \in Ids
    BY AnswerShape DEF IdOf, Ids
  <2> QED
    BY <2>1, <2>2, PushTurn
<1>2. ASSUME NEW r \in Requests, StopWork(r) PROVE TurnsCome'
  <2>1. home[r] \in Conns /\ Push(home[r], r, <<Plain(r, <<>>)>>)
    BY <1>2 DEF StopWork, Enqueue, Opened
  <2>2. <<Plain(r, <<>>)>> \in Seq(Frames) \ {<<>>} /\ IdOf(<<Plain(r, <<>>)>>) = r /\ r \in Ids
    BY PlainType DEF IdOf, Plain, Ids
  <2> QED
    BY <2>1, <2>2, PushTurn
<1>3. CASE UNCHANGED <<streams, lag>>
  <2>1. \A i \in Ids : Ahead(i)' = Ahead(i) /\ lag'[i] = lag[i]
    BY <1>3 DEF Ahead, IdOf
  <2> QED
    BY <2>1 DEF TurnsCome
<1>4. ASSUME NEW c \in Conns, ReadFrame(c) PROVE TurnsCome'
  <2>1. CASE UNCHANGED queue
    BY <1>3, <2>1 DEF queue
  <2>2. CASE ~UNCHANGED queue
    <3>1. Push(c, Ping, <<Plain(Ping, <<>>)>>)
      BY <1>4, <2>2, ReadFrameSteps
    <3>2. /\ <<Plain(Ping, <<>>)>> \in Seq(Frames) \ {<<>>} /\ IdOf(<<Plain(Ping, <<>>)>>) = Ping
          /\ Ping \in Ids
      BY PlainType DEF IdOf, Plain, Ids
    <3> QED
      BY <3>1, <3>2, PushTurn
  <2> QED
    BY <2>1, <2>2
<1>5. ASSUME NEW c \in Conns, WriteFails(c) PROVE TurnsCome'
  BY <1>5, StopTurn DEF WriteFails
<1>6. ASSUME NEW c \in Conns, PumpEnds(c) PROVE TurnsCome'
  BY <1>6, StopTurn DEF PumpEnds
<1>7. ASSUME NEW c \in Conns, PumpWrites(c) PROVE TurnsCome'
  BY <1>7, WriteTurn
<1>8. UNCHANGED lag \/ (\E r \in Requests : FinishWork(r) \/ StopWork(r))
      \/ (\E c \in Conns : ReadFrame(c) \/ WriteFails(c) \/ PumpWrites(c) \/ PumpEnds(c))
  BY WhoWrites
<1>9. UNCHANGED streams \/ (\E r \in Requests : FinishWork(r) \/ StopWork(r))
      \/ (\E c \in Conns : ReadFrame(c) \/ WriteFails(c) \/ PumpWrites(c) \/ PumpEnds(c))
  BY WhoWrites
<1> QED
  BY <1>1, <1>2, <1>3, <1>4, <1>5, <1>6, <1>7, <1>8, <1>9


-----------------------------------------------------------------------------
(* What reaches the browser. *)

\* _settle, as a request sees it.
Told(r, result, text) ==
    IF r \in pending THEN outcome'[r] = result /\ got'[r] = text
                     ELSE outcome'[r] = outcome[r] /\ got'[r] = got[r]

\* A frame, as the request it is for sees it.
Hears(r, f) ==
    \/ ~f.chunk /\ chunks'[r] = chunks[r] /\ Told(r, "answered", f.data)
    \/ /\ f.chunk /\ ~f.last /\ chunks'[r] = AddPart(chunks[r], f)
       /\ outcome'[r] = outcome[r] /\ got'[r] = got[r]
    \/ /\ f.chunk /\ f.last /\ chunks'[r] = <<>>
       /\ \/ Told(r, "answered", FlattenSeq(AddPart(chunks[r], f)))
          \/ Told(r, "failed", <<>>)

\* What one frame that arrives does to its request, and leaves of the others.
LEMMA ReceiveShape ==
    ASSUME Types, NEW c \in Conns, Receive(c)
    PROVE  /\ sock[c] = "open"
           /\ down[c] \in Seq(Frames) /\ Len(down[c]) \in Nat \ {0} /\ down[c][1] \in Frames
           /\ \A d \in Conns : d # c => down'[d] = down[d]
           /\ Len(down'[c]) = Len(down[c]) - 1
           /\ \A i \in 1..(Len(down[c]) - 1) : down'[c][i] = down[c][i + 1]
           /\ \A r \in Requests : r # down[c][1].id =>
                 chunks'[r] = chunks[r] /\ outcome'[r] = outcome[r] /\ got'[r] = got[r]
           /\ \A r \in Requests : r = down[c][1].id => Hears(r, down[c][1])
<1>1. down[c] \in Seq(Frames) /\ down[c] # <<>> /\ sock[c] = "open"
  BY DEF Receive, Types, FrameTypes
<1>2. /\ Len(down[c]) \in Nat \ {0} /\ Head(down[c]) = down[c][1] /\ down[c][1] \in Frames
      /\ Len(Tail(down[c])) = Len(down[c]) - 1
      /\ \A i \in 1..(Len(down[c]) - 1) : Tail(down[c])[i] = down[c][i + 1]
  BY <1>1, TailShape
<1>3. down' = [down EXCEPT ![c] = Tail(down[c])] /\ down \in [Conns -> Seq(Frames)]
  BY DEF Receive, Types, FrameTypes
<1>4. /\ \A d \in Conns : d # c => down'[d] = down[d]
      /\ down'[c] = Tail(down[c])
  BY <1>3
<1> DEFINE f == down[c][1]
<1>5. /\ f.id \in Ids
      /\ chunks \in [Ids -> Seq(Seq(Letters))]
      /\ outcome = [r \in Requests |-> outcome[r]] /\ got = [r \in Requests |-> got[r]]
  BY <1>2 DEF Types, FrameTypes, BrowserTypes, Frames
<1>6. IF f.chunk THEN HandleChunk(f) ELSE Settle(f.id, "answered", f.data) /\ UNCHANGED chunks
  BY <1>2 DEF Receive
<1> HIDE DEF f
<1>7. ASSUME NEW result, NEW text, Settle(f.id, result, text)
      PROVE  /\ \A r \in Requests : r # f.id => outcome'[r] = outcome[r] /\ got'[r] = got[r]
             /\ f.id \in Requests => Told(f.id, result, text)
  BY <1>5, <1>7 DEF Settle, Told
<1>8. CASE ~f.chunk
  <2>1. Settle(f.id, "answered", f.data) /\ chunks' = chunks
    BY <1>6, <1>8
  <2>2. /\ \A r \in Requests : r # f.id => outcome'[r] = outcome[r] /\ got'[r] = got[r]
        /\ f.id \in Requests => Told(f.id, "answered", f.data)
    BY <1>7, <2>1
  <2> QED
    BY <1>1, <1>2, <1>4, <1>8, <2>1, <2>2 DEF Hears, f
<1>9. CASE f.chunk /\ f.last
  <2>1. /\ chunks' = [chunks EXCEPT ![f.id] = <<>>]
        /\ \/ Settle(f.id, "answered", FlattenSeq(AddPart(chunks[f.id], f)))
           \/ Settle(f.id, "failed", <<>>)
    BY <1>6, <1>9 DEF HandleChunk, NoParts
  <2>2. /\ \A r \in Requests : r # f.id => outcome'[r] = outcome[r] /\ got'[r] = got[r]
        /\ f.id \in Requests => \/ Told(f.id, "answered", FlattenSeq(AddPart(chunks[f.id], f)))
                                \/ Told(f.id, "failed", <<>>)
    BY <1>7, <2>1
  <2>3. /\ \A r \in Requests : r # f.id => chunks'[r] = chunks[r]
        /\ f.id \in Requests => chunks'[f.id] = <<>>
    BY <1>5, <2>1 DEF Ids
  <2> QED
    BY <1>1, <1>2, <1>4, <1>9, <2>2, <2>3 DEF Hears, f
<1>10. CASE f.chunk /\ ~f.last
  <2>1. /\ chunks' = [chunks EXCEPT ![f.id] = AddPart(chunks[f.id], f)]
        /\ outcome' = outcome /\ got' = got
    BY <1>6, <1>10 DEF HandleChunk
  <2>2. /\ \A r \in Requests : r # f.id => chunks'[r] = chunks[r]
        /\ f.id \in Requests => chunks'[f.id] = AddPart(chunks[f.id], f)
    BY <1>5, <2>1 DEF Ids
  <2> QED
    BY <1>1, <1>2, <1>4, <1>10, <2>1, <2>2 DEF Hears, f
<1> QED
  BY <1>8, <1>9, <1>10


\* What becomes of the parts of a request.
ChunksStep(r) ==
    \/ chunks'[r] = chunks[r]
    \/ chunks'[r] = <<>> /\ outcome'[r] # "waiting"
    \/ \E c \in Conns : Receive(c) /\ down[c][1].id = r

\* How the parts collected for a request may change in a step.
LEMMA ChunksSteps ==
    ASSUME Types, Sockets, [Next]_vars
    PROVE  \A q \in Requests : ChunksStep(q)
<1>1. ASSUME NEW r \in Requests, Abort(r) PROVE \A q \in Requests : ChunksStep(q)
  <2>1. /\ chunks' = [chunks EXCEPT ![r] = <<>>] /\ outcome' = [outcome EXCEPT ![r] = "aborted"]
    BY <1>1 DEF Abort, NoParts
  <2> QED
    BY <2>1 DEF ChunksStep, Types, FrameTypes, BrowserTypes, Ids
<1>2. ASSUME NEW c \in Conns, SocketCloses(c) PROVE \A q \in Requests : ChunksStep(q)
  <2>1. /\ chunks' = [i \in Ids |-> <<>>]
        /\ outcome' = [r \in Requests |-> IF r \in pending THEN "failed" ELSE outcome[r]]
    BY <1>2 DEF SocketCloses, HandleClose, FailPending, NoParts
  <2>2. \A r \in Requests : r \in pending <=> outcome[r] = "waiting"
    BY DEF Sockets
  <2> QED
    BY <2>1, <2>2 DEF ChunksStep, Ids
<1>3. ASSUME NEW c \in Conns, LossIsNoticed(c) PROVE \A q \in Requests : ChunksStep(q)
  <2>1. /\ chunks' = [i \in Ids |-> <<>>]
        /\ outcome' = [r \in Requests |-> IF r \in pending THEN "failed" ELSE outcome[r]]
    BY <1>3 DEF LossIsNoticed, HandleClose, FailPending, NoParts
  <2>2. \A r \in Requests : r \in pending <=> outcome[r] = "waiting"
    BY DEF Sockets
  <2> QED
    BY <2>1, <2>2 DEF ChunksStep, Ids
<1>4. ASSUME NEW c \in Conns, Receive(c) PROVE \A q \in Requests : ChunksStep(q)
  BY <1>4, ReceiveShape DEF ChunksStep
<1>5. CASE UNCHANGED <<chunks>>
  BY <1>5 DEF ChunksStep
<1> QED
  BY <1>1, <1>2, <1>3, <1>4, <1>5, WhoWrites

\* A request is answered by a frame.
LEMMA AnsweredBy ==
    ASSUME Types, NEW r \in Requests, outcome[r] # "answered", outcome'[r] = "answered"
          , [Next]_vars
    PROVE  \E c \in Conns : Receive(c) /\ down[c][1].id = r
<1>1. CASE Dispose
  <2>1. outcome' = [q \in Requests |-> IF q \in pending THEN "failed" ELSE outcome[q]]
    BY <1>1 DEF Dispose, FailPending
  <2> QED
    BY <2>1
<1>2. ASSUME NEW q \in Requests, Request(q) PROVE \E c \in Conns : Receive(c) /\ down[c][1].id = r
  <2>1. \/ outcome' = [outcome EXCEPT ![q] = "waiting"]
        \/ outcome' = [outcome EXCEPT ![q] = "http"]
    BY <1>2 DEF Request
  <2> QED
    BY <2>1 DEF Types, BrowserTypes
<1>3. ASSUME NEW q \in Requests, Abort(q) PROVE \E c \in Conns : Receive(c) /\ down[c][1].id = r
  <2>1. outcome' = [outcome EXCEPT ![q] = "aborted"]
    BY <1>3 DEF Abort
  <2> QED
    BY <2>1 DEF Types, BrowserTypes
<1>4. ASSUME NEW d \in Conns, SocketCloses(d) PROVE \E c \in Conns : Receive(c) /\ down[c][1].id = r
  <2>1. outcome' = [q \in Requests |-> IF q \in pending THEN "failed" ELSE outcome[q]]
    BY <1>4 DEF SocketCloses, HandleClose, FailPending
  <2> QED
    BY <2>1
<1>5. ASSUME NEW d \in Conns, LossIsNoticed(d) PROVE \E c \in Conns : Receive(c) /\ down[c][1].id = r
  <2>1. outcome' = [q \in Requests |-> IF q \in pending THEN "failed" ELSE outcome[q]]
    BY <1>5 DEF LossIsNoticed, HandleClose, FailPending
  <2> QED
    BY <2>1
<1>6. ASSUME NEW d \in Conns, Receive(d) PROVE \E c \in Conns : Receive(c) /\ down[c][1].id = r
  BY <1>6, ReceiveShape
<1>7. CASE UNCHANGED <<outcome>>
  BY <1>7
<1> QED
  BY <1>1, <1>2, <1>3, <1>4, <1>5, <1>6, <1>7, WhoWrites

\* What a promise resolved to stays.
LEMMA GotKept ==
    ASSUME Types, Sockets, NEW r \in Requests, outcome[r] = "answered"
          , [Next]_vars
    PROVE  got'[r] = got[r]
<1>1. ASSUME NEW d \in Conns, Receive(d) PROVE got'[r] = got[r]
  <2>1. r \notin pending
    BY DEF Sockets
  <2> QED
    BY <1>1, <2>1, ReceiveShape DEF Hears, Told
<1>2. CASE UNCHANGED <<got>>
  BY <1>2
<1> QED
  BY <1>1, <1>2, WhoWrites

\* A connection that has failed stays so.
LEMMA ConnStays ==
    ASSUME Types, Opened, NEW c \in Conns, [Next]_vars
    PROVE  /\ conn[c] \in {"cancelled", "closed"} => conn'[c] \in {"cancelled", "closed"}
           /\ conn[c] = "closed" => conn'[c] = "closed"
<1> DEFINE Stays == /\ conn[c] \in {"cancelled", "closed"} => conn'[c] \in {"cancelled", "closed"}
                    /\ conn[c] = "closed" => conn'[c] = "closed"
<1>1. ASSUME NEW d \in Conns, Opens(d) PROVE Stays
  <2>1. sock[d] = "connecting" /\ conn' = [conn EXCEPT ![d] = "live"]
    BY <1>1 DEF Opens
  <2>2. conn[d] = "none"
    BY <2>1 DEF Opened
  <2> QED
    BY <2>1, <2>2 DEF Types, DaemonTypes
<1>2. ASSUME NEW d \in Conns, ReadLoopEnds(d) PROVE Stays
  BY <1>2 DEF ReadLoopEnds, Types, DaemonTypes, client, network, queue, server
<1>3. ASSUME NEW d \in Conns, WriteFails(d) PROVE Stays
  BY <1>3 DEF WriteFails, StopPump, Types, DaemonTypes, client, network, queue, server
<1>4. CASE UNCHANGED <<conn>>
  BY <1>4
<1> QED
  BY <1>1, <1>2, <1>3, <1>4, WhoWrites

\* A lost connection is never found again.
LEMMA LostStays ==
    ASSUME Types, NEW c \in Conns, c \in dead, c \notin dead'
          , [Next]_vars
    PROVE  sock'[c] # "open"
<1>1. ASSUME NEW d \in Conns, SocketCloses(d) PROVE sock'[c] # "open"
  BY <1>1 DEF SocketCloses, HandleClose, FailPending, ScheduleReconnect, Deafen, Types, BrowserTypes, client, network, queue, server
<1>2. ASSUME NEW d \in Conns, LossIsNoticed(d) PROVE sock'[c] # "open"
  BY <1>2 DEF LossIsNoticed, HandleClose, FailPending, ScheduleReconnect, Deafen, Types, BrowserTypes, client, network, queue, server
<1>3. ASSUME NEW d \in Conns, LinkDies(d) PROVE sock'[c] # "open"
  BY <1>3 DEF LinkDies, Types, BrowserTypes, client, network, queue, server
<1>4. CASE UNCHANGED <<dead>>
  BY <1>4
<1> QED
  BY <1>1, <1>2, <1>3, <1>4, WhoWrites

\* What is on its way to a browser that listens stays on its way.
LEMMA DownKept ==
    ASSUME Types, NEW c \in Conns, sock'[c] = "open", c \notin dead'
          , [Next]_vars
    PROVE  down'[c] = down[c] \/ Receive(c) \/ PumpWrites(c)
<1>1. CASE Dispose
  <2>1. /\ sock' = IF current = 0 THEN sock ELSE [sock EXCEPT ![current] = "closing"]
        /\ down' = IF current = 0 THEN down ELSE [down EXCEPT ![current] = <<>>]
    BY <1>1 DEF Dispose, Deafen
  <2> QED
    BY <2>1 DEF Types, BrowserTypes, FrameTypes
<1>2. CASE PingTimesOut
  <2>1. /\ sock' = [sock EXCEPT ![current] = "closing"]
        /\ down' = [down EXCEPT ![current] = <<>>]
    BY <1>2 DEF PingTimesOut, Deafen
  <2> QED
    BY <2>1 DEF Types, BrowserTypes, FrameTypes
<1>3. ASSUME NEW d \in Conns, SocketCloses(d) PROVE down'[c] = down[c] \/ Receive(c) \/ PumpWrites(c)
  BY <1>3 DEF SocketCloses, HandleClose, FailPending, ScheduleReconnect, Deafen, Types, BrowserTypes, FrameTypes, client, network, queue, server
<1>4. ASSUME NEW d \in Conns, LossIsNoticed(d) PROVE down'[c] = down[c] \/ Receive(c) \/ PumpWrites(c)
  BY <1>4 DEF LossIsNoticed, HandleClose, FailPending, ScheduleReconnect, Deafen, Types, BrowserTypes, FrameTypes, client, network, queue, server
<1>5. ASSUME NEW d \in Conns, Receive(d) PROVE down'[c] = down[c] \/ Receive(c) \/ PumpWrites(c)
  BY <1>5, ReceiveShape
<1>6. ASSUME NEW d \in Conns, PumpWrites(d) PROVE down'[c] = down[c] \/ Receive(c) \/ PumpWrites(c)
  <2>1. down' = down \/ down' = [down EXCEPT ![d] = Append(down[d], Head(streams[d])[1])]
    BY <1>6 DEF PumpWrites
  <2> QED
    BY <1>6, <2>1 DEF Types, FrameTypes
<1>7. ASSUME NEW d \in Conns, LinkDies(d) PROVE down'[c] = down[c] \/ Receive(c) \/ PumpWrites(c)
  BY <1>7 DEF LinkDies, Types, BrowserTypes, FrameTypes, client, network, queue, server
<1>8. CASE UNCHANGED <<down>>
  BY <1>8
<1> QED
  BY <1>1, <1>2, <1>3, <1>4, <1>5, <1>6, <1>7, <1>8, WhoWrites


\* A request served over the connection that waits after a step waited before it.
LEMMA WaitingStays ==
    ASSUME Types, Sockets, RunOnce, [Next]_vars, NEW r \in Requests,
           work[r] # "none", outcome'[r] = "waiting"
    PROVE  outcome[r] = "waiting"
<1>1. OutcomeStep(r)
  BY OutcomeSteps
<1> QED
  BY <1>1 DEF OutcomeStep, RunOnce


\* Cancels are sent for requests that are given up.
LEMMA UnwantedStep ==
    ASSUME Types, Sockets, Unwanted, [Next]_vars
    PROVE  Unwanted'
<1> SUFFICES ASSUME NEW c \in Conns, NEW i \in 1..Len(up'[c]), up'[c][i].kind = "cancel"
             PROVE  outcome'[up'[c][i].id] \notin {"unsent", "waiting", "http"}
  BY DEF Unwanted
<1>1. PICK n \in {0, 1} :
         \A k \in 1..Len(up'[c]) :
               \/ k + n \in 1..Len(up[c]) /\ up'[c][k] = up[c][k + n]
               \/ \/ SendPing /\ up'[c][k] = [kind |-> "ping", id |-> Ping]
                  \/ \E r \in Requests : Request(r) /\ up'[c][k] = [kind |-> "request", id |-> r]
                  \/ \E r \in Requests : Abort(r) /\ up'[c][k] = [kind |-> "cancel", id |-> r]
  BY UpOrigins
<1>2. CASE i + n \in 1..Len(up[c]) /\ up'[c][i] = up[c][i + n]
  <2>1. up[c][i + n] \in Messages
    BY <1>2 DEF Types, FrameTypes
  <2>2. up[c][i + n].id \in Requests
    BY <1>2, <2>1 DEF Messages
  <2>3. outcome[up[c][i + n].id] \notin {"unsent", "waiting", "http"}
    BY <1>2 DEF Unwanted
  <2>4. OutcomeStep(up[c][i + n].id)
    BY <2>2, OutcomeSteps
  <2> QED
    BY <1>2, <2>3, <2>4 DEF OutcomeStep
<1>3. ASSUME NEW r \in Requests, Abort(r), up'[c][i] = [kind |-> "cancel", id |-> r]
      PROVE  outcome'[up'[c][i].id] \notin {"unsent", "waiting", "http"}
  <2>1. outcome' = [outcome EXCEPT ![r] = "aborted"] /\ up'[c][i].id = r
    BY <1>3 DEF Abort
  <2> QED
    BY <2>1 DEF Types, BrowserTypes
<1>4. [kind |-> "ping", id |-> Ping].kind = "ping"
  OBVIOUS
<1>5. \A r \in Requests : [kind |-> "request", id |-> r].kind = "request"
  OBVIOUS
<1> QED
  BY <1>1, <1>2, <1>3, <1>4, <1>5

\* A handler is stopped by a cancel, or with its connection.
LEMMA StopsStep ==
    ASSUME Types, Sockets, Opened, RunOnce, Unwanted, Stops, [Next]_vars
    PROVE  Stops'
<1> SUFFICES ASSUME NEW r \in Requests, outcome'[r] = "waiting", work'[r] \in {"cancelled", "stopped"}
             PROVE  conn'[home'[r]] \in {"cancelled", "closed"}
  BY DEF Stops
<1>0. WorkStep(r)
  BY WorkSteps
<1>1. work[r] # "none"
  BY <1>0 DEF WorkStep
<1>2. outcome[r] = "waiting" /\ home[r] \in Conns /\ conn[home[r]] # "none"
  BY <1>1, WaitingStays DEF Opened
<1>3. conn[home[r]] \in {"cancelled", "closed"} => conn'[home[r]] \in {"cancelled", "closed"}
  BY <1>2, ConnStays
<1>4. conn[home[r]] # "live" => conn[home[r]] \in {"cancelled", "closed"}
  BY <1>2 DEF Types, DaemonTypes
<1>5. work[r] \in {"cancelled", "stopped"} => conn[home[r]] \in {"cancelled", "closed"}
  BY <1>2 DEF Stops
<1>6. ASSUME NEW c \in Conns, ReadFrame(c), up[c][1].kind = "cancel", up[c][1].id = r
      PROVE  FALSE
  <2>1. 1 \in 1..Len(up[c])
    BY <1>6, ReadFrameSteps
  <2> QED
    BY <1>2, <1>6, <2>1 DEF Unwanted
<1> QED
  BY <1>0, <1>3, <1>4, <1>5, <1>6 DEF WorkStep

\* The first frame of those on their way comes right after what was collected.
LEMMA HeadInTurn ==
    ASSUME Types, InFlight, NEW c \in Conns, Receive(c), NEW r \in Requests, down[c][1].id = r
    PROVE  /\ work[r] \in {"done", "stopped"} /\ home[r] = c
           /\ outcome[r] = "waiting" =>
                 /\ work[r] = "done" /\ InTurn(c, 1, r)
                 /\ down[c][1].seq = Len(chunks[r])
<1>1. Len(down[c]) \in Nat \ {0} /\ down[c][1] \in Frames
  BY ReceiveShape
<1>2. 1 \in 1..Len(down[c])
  BY <1>1
<1>3. /\ work[r] \in {"done", "stopped"} /\ home[r] = c
      /\ outcome[r] = "waiting" => work[r] = "done" /\ InTurn(c, 1, r)
  BY <1>2 DEF InFlight
<1>4. ASSUME InTurn(c, 1, r)
      PROVE  down[c][1].seq = Len(chunks[r])
  <2>1. ~(down[c][1].seq > Len(chunks[r])) /\ down[c][1].seq >= Len(chunks[r])
    BY <1>4 DEF InTurn
  <2>2. down[c][1].seq \in Nat /\ Len(chunks[r]) \in Nat
    BY <1>1 DEF Frames, Types, FrameTypes, Ids
  <2> QED
    BY <2>1, <2>2
<1> QED
  BY <1>3, <1>4

\* Nothing is collected before a handler ends.
LEMMA EarlyStep ==
    ASSUME Types, Sockets, SentOnce, RunOnce, InFlight, Early, [Next]_vars
    PROVE  Early'
<1> SUFFICES ASSUME NEW r \in Requests,
                    outcome'[r] = "unsent" \/ (outcome'[r] = "waiting" /\ work'[r] # "done")
             PROVE  chunks'[r] = <<>>
  BY DEF Early
<1>1. OutcomeStep(r) /\ ChunksStep(r)
  BY OutcomeSteps, ChunksSteps
<1>2. work[r] = "done" => work'[r] = "done"
  BY DoneStays
<1>3. outcome[r] = "unsent" \/ (outcome[r] = "waiting" /\ work[r] # "done")
  BY <1>1, <1>2 DEF OutcomeStep, RunOnce
<1>4. chunks[r] = <<>>
  BY <1>3 DEF Early
<1>5. ASSUME NEW c \in Conns, Receive(c), down[c][1].id = r
      PROVE  FALSE
  BY <1>3, <1>5, HeadInTurn DEF RunOnce
<1> QED
  BY <1>1, <1>4, <1>5 DEF ChunksStep

\* The rest of a response less a frame is a rest of it.
LEMMA TailRest ==
    ASSUME NEW r \in Requests, NEW s \in Seq(Frames) \ {<<>>}, RestOf(s, r), Len(s) # 1
    PROVE  RestOf(Tail(s), r)
<1>1. PICK a \in Nat : a + Len(s) = Len(Answer(r)) /\ \A k \in 1..Len(s) : s[k] = Answer(r)[a + k]
  BY DEF RestOf
<1>2. /\ Len(s) \in Nat \ {0} /\ Len(Tail(s)) = Len(s) - 1
      /\ \A i \in 1..(Len(s) - 1) : Tail(s)[i] = s[i + 1]
  BY TailShape
<1>3. (a + 1) + Len(Tail(s)) = Len(Answer(r)) /\ a + 1 \in Nat
  BY <1>1, <1>2, AnswerShape
<1>4. \A k \in 1..Len(Tail(s)) : Tail(s)[k] = Answer(r)[(a + 1) + k]
  <2> SUFFICES ASSUME NEW k \in 1..Len(Tail(s)) PROVE Tail(s)[k] = Answer(r)[(a + 1) + k]
    OBVIOUS
  <2>1. k \in 1..(Len(s) - 1) /\ k + 1 \in 1..Len(s) /\ a + (k + 1) = (a + 1) + k
    BY <1>2
  <2> QED
    BY <1>1, <1>2, <2>1
<1> QED
  BY <1>3, <1>4 DEF RestOf

\* The first frame of the rest of a response.
LEMMA RestHead ==
    ASSUME NEW r \in Requests, NEW s \in Seq(Frames) \ {<<>>}, RestOf(s, r)
    PROVE  /\ s[1].seq + 1 \in 1..Len(Answer(r)) /\ s[1] = Answer(r)[s[1].seq + 1]
           /\ s[1].seq \in Nat
           /\ Len(s) # 1 => Tail(s)[1].seq = s[1].seq + 1
<1>1. PICK a \in Nat : a + Len(s) = Len(Answer(r)) /\ \A k \in 1..Len(s) : s[k] = Answer(r)[a + k]
  BY DEF RestOf
<1>2. /\ Len(s) \in Nat \ {0} /\ Len(Tail(s)) = Len(s) - 1
      /\ \A i \in 1..(Len(s) - 1) : Tail(s)[i] = s[i + 1]
  BY TailShape
<1>3. /\ Len(Answer(r)) \in Nat
      /\ \A i \in 1..Len(Answer(r)) : Answer(r)[i].seq = i - 1
  BY AnswerShape
<1>4. 1 \in 1..Len(s) /\ a + 1 \in 1..Len(Answer(r))
  BY <1>1, <1>2, <1>3
<1>5. s[1] = Answer(r)[a + 1] /\ s[1].seq = a
  BY <1>1, <1>3, <1>4
<1>6. ASSUME Len(s) # 1
      PROVE  Tail(s)[1].seq = a + 1
  <2>1. /\ 1 \in 1..(Len(s) - 1) /\ 1 + 1 \in 1..Len(s) /\ a + (1 + 1) \in 1..Len(Answer(r))
        /\ (a + (1 + 1)) - 1 = a + 1
    BY <1>1, <1>2, <1>3, <1>6
  <2>2. Tail(s)[1] = s[1 + 1] /\ s[1 + 1] = Answer(r)[a + (1 + 1)]
    BY <1>1, <1>2, <2>1
  <2> QED
    BY <1>3, <2>1, <2>2
<1> QED
  BY <1>4, <1>5, <1>6

\* A stream remains the rest of its response.
LEMMA QueuedStep ==
    ASSUME Types, Sockets, Opened, SentOnce, RunOnce, PumpsWake, InPlace, Stops, Queued, [Next]_vars
    PROVE  Queued'
<1> DEFINE Fine(c, s, r) == \/ work'[r] = "done" /\ RestOf(s, r)
                            \/ work'[r] = "stopped" /\ (outcome'[r] # "waiting" \/ conn'[c] = "closed")
<1>1. ASSUME NEW c \in Conns, NEW q \in 1..Len(streams[c]), NEW r \in Requests,
             IdOf(streams[c][q]) = r
      PROVE  /\ Fine(c, streams[c][q], r)
             /\ RestOf(streams[c][q], r) => work'[r] = "done" \/ Fine(c, streams[c][q], r)
  <2>1. \/ work[r] = "done" /\ RestOf(streams[c][q], r)
        \/ work[r] = "stopped" /\ (outcome[r] # "waiting" \/ conn[c] = "closed")
    BY <1>1 DEF Queued
  <2>2. work'[r] = work[r]
    BY <2>1, DoneStays
  <2>3. outcome'[r] = "waiting" => outcome[r] = "waiting"
    BY <2>1, WaitingStays
  <2>4. conn[c] = "closed" => conn'[c] = "closed"
    BY ConnStays
  <2> QED
    BY <2>1, <2>2, <2>3, <2>4
<1>2. ASSUME NEW c \in Conns, NEW p \in 1..Len(streams'[c]), NEW r \in Requests,
             IdOf(streams'[c][p]) = r, PumpWrites(c), Turned(c, p)
      PROVE  Fine(c, streams'[c][p], r)
  <2>1. /\ streams[c][1] \in Seq(Frames) \ {<<>>} /\ Len(streams[c]) \in Nat \ {0}
        /\ streams'[c][p] = Tail(streams[c][1]) /\ Len(streams[c][1]) # 1
    BY <1>2, NextFrameShape DEF PumpWrites, Turned
  <2>2. 1 \in 1..Len(streams[c]) /\ IdOf(streams[c][1]) = r
    BY <1>2, <2>1, TurnedId
  <2>3. Fine(c, streams[c][1], r)
    BY <1>1, <2>2
  <2>4. RestOf(streams[c][1], r) => RestOf(streams'[c][p], r)
    BY <2>1, TailRest
  <2> QED
    BY <2>3, <2>4
<1>3. ASSUME NEW c \in Conns, NEW s \in Seq(Frames) \ {<<>>}, pump[c] # "stopped", Pushed(c, s),
             NEW r \in Requests, IdOf(s) = r
      PROVE  Fine(c, s, r)
  <2>1. CASE s = <<Plain(Ping, <<>>)>>
    <3>1. IdOf(s) = Ping
      BY <2>1 DEF IdOf, Plain
    <3> QED
      BY <1>3, <3>1, Constants
  <2>2. ASSUME NEW q \in Requests, home[q] = c, FinishWork(q), s = Answer(q)
        PROVE  Fine(c, s, r)
    <3>1. q = r
      BY <1>3, <2>2, AnswerShape DEF IdOf
    <3>2. work'[r] = "done"
      BY <2>2, <3>1 DEF FinishWork, Types, DaemonTypes
    <3>3. RestOf(s, r)
      <4>1. 0 + Len(s) = Len(Answer(r)) /\ \A k \in 1..Len(s) : s[k] = Answer(r)[0 + k]
        BY <2>2, <3>1, AnswerShape
      <4> QED
        BY <4>1 DEF RestOf
    <3> QED
      BY <3>2, <3>3
  <2>3. ASSUME NEW q \in Requests, home[q] = c, StopWork(q), s = <<Plain(q, <<>>)>>
        PROVE  Fine(c, s, r)
    <3>1. q = r
      BY <1>3, <2>3 DEF IdOf, Plain
    <3>2. work'[r] = "stopped" /\ UNCHANGED <<conn, outcome>>
      BY <2>3, <3>1 DEF StopWork, client, Types, DaemonTypes
    <3>3. work[r] = "cancelled" \/ (work[r] = "running" /\ conn[c] # "live")
      BY <2>3, <3>1 DEF StopWork
    <3>4. conn[c] # "none" /\ (conn[c] = "cancelled" => pump[c] = "stopped")
      BY <2>3, <3>1, <3>3 DEF Opened, PumpsWake
    <3>5. outcome[r] = "waiting" => conn[c] \in {"cancelled", "closed"}
      BY <2>3, <3>1, <3>3, <3>4 DEF Stops, Types, DaemonTypes
    <3> QED
      BY <1>3, <3>2, <3>4, <3>5
  <2> QED
    BY <1>3, <2>1, <2>2, <2>3 DEF Pushed
<1> HIDE DEF Fine
<1> SUFFICES ASSUME NEW c \in Conns, NEW p \in 1..Len(streams'[c]), NEW r \in Requests,
                    IdOf(streams'[c][p]) = r
             PROVE  Fine(c, streams'[c][p], r)
  BY DEF Queued, Fine, IdOf, RestOf
<1>4. CASE Kept(c, 0, p) \/ Kept(c, 1, p)
  BY <1>1, <1>4 DEF Kept
<1>5. CASE \A k \in 1..Len(streams'[c]) : Kept(c, 0, k)
  BY <1>4, <1>5
<1>6. CASE PumpWrites(c) /\ \A k \in 1..Len(streams'[c]) : Kept(c, 1, k) \/ Turned(c, k)
  BY <1>2, <1>4, <1>6
<1>7. CASE /\ pump[c] # "stopped"
           /\ \E s \in Seq(Frames) \ {<<>>} :
                 /\ Pushed(c, s)
                 /\ \A k \in 1..Len(streams'[c]) : Kept(c, 0, k) \/ Added(c, s, k)
  <2>1. PICK s \in Seq(Frames) \ {<<>>} :
                 /\ Pushed(c, s)
                 /\ \A k \in 1..Len(streams'[c]) : Kept(c, 0, k) \/ Added(c, s, k)
    BY <1>7
  <2>2. CASE Added(c, s, p)
    BY <1>3, <1>7, <2>1, <2>2 DEF Added
  <2> QED
    BY <1>4, <2>1, <2>2
<1> QED
  BY <1>5, <1>6, <1>7, StreamOrigins

\* What a request that goes on waiting collects.
LEMMA Collects ==
    ASSUME Types, Sockets, InFlight, NEW c \in Conns, Receive(c), NEW r \in Requests,
           down[c][1].id = r, outcome[r] = "waiting", outcome'[r] = "waiting"
    PROVE  /\ ~down[c][1].last
           /\ chunks'[r] = AddPart(chunks[r], down[c][1])
           /\ Len(chunks'[r]) = Len(chunks[r]) + 1
           /\ chunks'[r][Len(chunks[r]) + 1] = down[c][1].data
           /\ \A i \in 1..Len(chunks[r]) : chunks'[r][i] = chunks[r][i]
<1>1. r \in pending
  BY DEF Sockets
<1>2. Hears(r, down[c][1]) /\ down[c][1] \in Frames
  BY ReceiveShape
<1>3. ~down[c][1].last /\ chunks'[r] = AddPart(chunks[r], down[c][1])
  BY <1>1, <1>2 DEF Hears, Told
<1>4. down[c][1].seq = Len(chunks[r]) /\ chunks[r] \in Seq(Seq(Letters))
  BY HeadInTurn DEF Types, FrameTypes, Ids
<1>5. /\ Len(AddPart(chunks[r], down[c][1])) = Len(chunks[r]) + 1
      /\ AddPart(chunks[r], down[c][1])[Len(chunks[r]) + 1] = down[c][1].data
      /\ \A i \in 1..Len(chunks[r]) : AddPart(chunks[r], down[c][1])[i] = chunks[r][i]
  BY <1>2, <1>4, AddPartShape
<1> QED
  BY <1>3, <1>5

\* A request that hears of nothing keeps what it has.
LEMMA Undisturbed ==
    ASSUME Types, Sockets, SentOnce, RunOnce, [Next]_vars, NEW r \in Requests,
           work[r] \in {"done", "stopped"}, outcome'[r] = "waiting",
           \A c \in Conns : ~(Receive(c) /\ down[c][1].id = r)
    PROVE  /\ outcome[r] = "waiting" /\ chunks'[r] = chunks[r]
           /\ work'[r] = work[r] /\ home'[r] = home[r]
<1>1. outcome[r] = "waiting"
  BY WaitingStays
<1> QED
  BY <1>1, ChunksSteps, DoneStays DEF ChunksStep

\* The pump writes frames in turn, and the socket keeps their order.
LEMMA InFlightStep ==
    ASSUME Types, Sockets, Opened, SentOnce, RunOnce, InPlace, Queued, InFlight, ToCome, [Next]_vars
    PROVE  InFlight'
<1> SUFFICES ASSUME NEW c \in Conns, NEW i \in 1..Len(down'[c]), NEW r \in Requests,
                    down'[c][i].id = r
             PROVE  /\ work'[r] \in {"done", "stopped"}
                    /\ home'[r] = c
                    /\ outcome'[r] = "waiting" => work'[r] = "done" /\ InTurn(c, i, r)'
  BY DEF InFlight
<1>0. /\ Len(down[c]) \in Nat /\ i \in Nat \ {0}
      /\ \A j \in 1..Len(down[c]) : down[c][j].seq \in Nat
      /\ Len(chunks[r]) \in Nat
  <2>1. down[c] \in Seq(Frames) /\ chunks[r] \in Seq(Seq(Letters))
    BY DEF Types, FrameTypes, Ids
  <2>2. \A j \in 1..Len(down[c]) : down[c][j] \in Frames
    BY <2>1
  <2>3. \A j \in 1..Len(down[c]) : down[c][j].seq \in Nat
    BY <2>2 DEF Frames
  <2>4. Len(down'[c]) \in Nat
    BY TypesStep DEF Types, FrameTypes
  <2> QED
    BY <2>1, <2>3, <2>4
<1>1. ASSUME NEW k \in 1..Len(down[c]), down[c][k].id = r
      PROVE  /\ work[r] \in {"done", "stopped"} /\ home[r] = c
             /\ work'[r] = work[r] /\ home'[r] = home[r]
             /\ outcome'[r] = "waiting" => outcome[r] = "waiting" /\ work[r] = "done" /\ InTurn(c, k, r)
  <2>1. /\ work[r] \in {"done", "stopped"} /\ home[r] = c
        /\ outcome[r] = "waiting" => work[r] = "done" /\ InTurn(c, k, r)
    BY <1>1 DEF InFlight
  <2> QED
    BY <2>1, DoneStays, WaitingStays
<1>2. ASSUME NEW d \in Conns, Receive(d), d # c
      PROVE  /\ work'[r] \in {"done", "stopped"} /\ home'[r] = c
             /\ outcome'[r] = "waiting" => work'[r] = "done" /\ InTurn(c, i, r)'
  <2>1. down'[c] = down[c]
    BY <1>2, ReceiveShape
  <2>2. /\ work[r] \in {"done", "stopped"} /\ home[r] = c
        /\ work'[r] = work[r] /\ home'[r] = home[r]
        /\ outcome'[r] = "waiting" => outcome[r] = "waiting" /\ work[r] = "done" /\ InTurn(c, i, r)
    BY <1>1, <2>1
  <2>3. down[d][1].id # r
    BY <1>2, <2>2, HeadInTurn
  <2>4. chunks'[r] = chunks[r]
    BY <1>2, <2>3, ReceiveShape
  <2> QED
    BY <2>1, <2>2, <2>4 DEF InTurn, Answer
<1>3. ASSUME Receive(c)
      PROVE  /\ work'[r] \in {"done", "stopped"} /\ home'[r] = c
             /\ outcome'[r] = "waiting" => work'[r] = "done" /\ InTurn(c, i, r)'
  <2>1. /\ Len(down[c]) \in Nat \ {0} /\ Len(down'[c]) = Len(down[c]) - 1
        /\ \A j \in 1..(Len(down[c]) - 1) : down'[c][j] = down[c][j + 1]
    BY <1>3, ReceiveShape
  <2>2. i + 1 \in 1..Len(down[c]) /\ down'[c][i] = down[c][i + 1]
    BY <2>1
  <2>3. /\ work[r] \in {"done", "stopped"} /\ home[r] = c
        /\ work'[r] = work[r] /\ home'[r] = home[r]
        /\ outcome'[r] = "waiting" => outcome[r] = "waiting" /\ work[r] = "done" /\ InTurn(c, i + 1, r)
    BY <1>1, <2>2
  <2>4. ASSUME outcome'[r] = "waiting"
        PROVE  InTurn(c, i, r)'
    <3> DEFINE s == down[c][i + 1].seq
    <3>1. outcome[r] = "waiting" /\ InTurn(c, i + 1, r) /\ 1 \in 1..Len(down[c]) /\ s \in Nat
      BY <1>0, <2>1, <2>2, <2>3, <2>4
    <3>2. /\ Len(chunks'[r]) \in Nat /\ s >= Len(chunks'[r])
          /\ Len(chunks'[r]) >= Len(chunks[r])
          /\ s > Len(chunks'[r]) /\ down[c][1].id = r => down[c][1].seq + 1 # s
      <4>1. CASE down[c][1].id # r
        <5>1. chunks'[r] = chunks[r]
          BY <1>3, <4>1, ReceiveShape
        <5> QED
          BY <1>0, <3>1, <4>1, <5>1 DEF InTurn
      <4>2. CASE down[c][1].id = r
        <5>1. Len(chunks'[r]) = Len(chunks[r]) + 1
          BY <1>3, <2>4, <3>1, <4>2, Collects
        <5>2. InTurn(c, 1, r) /\ down[c][1].seq = Len(chunks[r])
          BY <1>3, <3>1, <4>2, HeadInTurn
        <5>3. 1 < i + 1
          BY <1>0
        <5>4. down[c][1].seq < s
          BY <2>2, <5>2, <5>3 DEF InTurn
        <5> QED
          BY <1>0, <3>1, <5>1, <5>2, <5>4
      <4> QED
        BY <4>1, <4>2
    <3>3. ASSUME s > Len(chunks'[r])
          PROVE  \E j \in 1..Len(down'[c]) : j < i /\ down'[c][j].id = r /\ down'[c][j].seq + 1 = s
      <4>1. s > Len(chunks[r])
        BY <1>0, <3>1, <3>2, <3>3
      <4>2. PICK j \in 1..Len(down[c]) : j < i + 1 /\ down[c][j].id = r /\ down[c][j].seq + 1 = s
        BY <3>1, <4>1 DEF InTurn
      <4>3. j # 1
        BY <3>2, <3>3, <4>2
      <4>4. j - 1 \in 1..(Len(down[c]) - 1) /\ j - 1 \in 1..Len(down'[c]) /\ j - 1 < i /\ (j - 1) + 1 = j
        BY <1>0, <2>1, <4>2, <4>3
      <4>5. down'[c][j - 1] = down[c][j]
        BY <2>1, <4>4
      <4> QED
        BY <4>2, <4>4, <4>5
    <3>4. ASSUME NEW j \in 1..Len(down'[c]), i < j, down'[c][j].id = r
          PROVE  s < down'[c][j].seq
      <4>1. j + 1 \in 1..Len(down[c]) /\ j \in 1..(Len(down[c]) - 1) /\ i + 1 < j + 1
        BY <1>0, <2>1, <3>4
      <4>2. down'[c][j] = down[c][j + 1]
        BY <2>1, <4>1
      <4> QED
        BY <3>1, <3>4, <4>1, <4>2 DEF InTurn
    <3>5. s + 1 \in 1..Len(Answer(r)) /\ down[c][i + 1] = Answer(r)[s + 1]
      BY <3>1 DEF InTurn
    <3> HIDE DEF s
    <3>6. down'[c][i].seq = s
      BY <2>2 DEF s
    <3> QED
      BY <2>2, <3>2, <3>3, <3>4, <3>5, <3>6 DEF InTurn, Answer
  <2> QED
    BY <2>3, <2>4
<1>4. ASSUME \A d \in Conns : ~Receive(d), Coming(c, 0, i),
             \A j \in 1..Len(down'[c]) :
                 \/ Coming(c, 0, j)
                 \/ PumpWrites(c) /\ sock[c] = "open" /\ c \notin dead /\ Written(c, j)
                    /\ 1 \in 1..Len(streams[c])
      PROVE  /\ work'[r] \in {"done", "stopped"} /\ home'[r] = c
             /\ outcome'[r] = "waiting" => work'[r] = "done" /\ InTurn(c, i, r)'
  <2>1. i \in 1..Len(down[c]) /\ down'[c][i] = down[c][i]
    BY <1>0, <1>4 DEF Coming
  <2>2. /\ work[r] \in {"done", "stopped"} /\ home[r] = c
        /\ work'[r] = work[r] /\ home'[r] = home[r]
        /\ outcome'[r] = "waiting" => outcome[r] = "waiting" /\ work[r] = "done" /\ InTurn(c, i, r)
    BY <1>1, <2>1
  <2>3. ASSUME outcome'[r] = "waiting"
        PROVE  InTurn(c, i, r)'
    <3>1. chunks'[r] = chunks[r]
      BY <1>4, <2>2, <2>3, Undisturbed
    <3>2. InTurn(c, i, r) /\ outcome[r] = "waiting" /\ work[r] = "done"
      BY <2>2, <2>3
    <3>3. ASSUME NEW j \in 1..Len(down'[c]), i < j, down'[c][j].id = r
          PROVE  down[c][i].seq < down'[c][j].seq
      <4>1. CASE Coming(c, 0, j)
        <5>1. j \in 1..Len(down[c]) /\ down'[c][j] = down[c][j]
          BY <1>0, <4>1 DEF Coming
        <5> QED
          BY <3>2, <3>3, <5>1 DEF InTurn
      <4>2. CASE /\ sock[c] = "open" /\ c \notin dead /\ Written(c, j)
                 /\ 1 \in 1..Len(streams[c])
        <5>1. IdOf(streams[c][1]) = r /\ down'[c][j] = streams[c][1][1]
          BY <3>3, <4>2 DEF Written, IdOf
        <5>2. GoesOn(c, 1, r)
          BY <3>2, <4>2, <5>1 DEF ToCome
        <5> QED
          BY <1>4, <2>1, <5>1, <5>2 DEF GoesOn
      <4> QED
        BY <1>4, <4>1, <4>2
    <3>4. ASSUME down[c][i].seq > Len(chunks[r])
          PROVE  \E j \in 1..Len(down'[c]) :
                    j < i /\ down'[c][j].id = r /\ down'[c][j].seq + 1 = down[c][i].seq
      <4>1. PICK j \in 1..Len(down[c]) :
                   j < i /\ down[c][j].id = r /\ down[c][j].seq + 1 = down[c][i].seq
        BY <3>2, <3>4 DEF InTurn
      <4>2. j \in 1..Len(down'[c]) /\ j # Len(down[c]) + 1
        <5>1. \A m \in Nat : i \in 1..m => j \in 1..m
          BY <1>0, <4>1
        <5>2. Len(down'[c]) \in Nat
          BY TypesStep DEF Types, FrameTypes
        <5> QED
          BY <1>0, <5>1, <5>2
      <4>3. down'[c][j] = down[c][j]
        BY <1>0, <1>4, <4>2 DEF Coming, Written
      <4> QED
        BY <4>1, <4>2, <4>3
    <3> QED
      BY <2>1, <3>1, <3>2, <3>3, <3>4 DEF InTurn, Answer
  <2> QED
    BY <2>2, <2>3
<1>5. ASSUME PumpWrites(c), \A d \in Conns : ~Receive(d), sock[c] = "open", c \notin dead,
             1 \in 1..Len(streams[c]),
             Len(down'[c]) = Len(down[c]) + 1,
             \A j \in 1..Len(down[c]) : Coming(c, 0, j),
             Written(c, i)
      PROVE  /\ work'[r] \in {"done", "stopped"} /\ home'[r] = c
             /\ outcome'[r] = "waiting" => work'[r] = "done" /\ InTurn(c, i, r)'
  <2>1. down'[c][i] = streams[c][1][1] /\ IdOf(streams[c][1]) = r /\ i = Len(down[c]) + 1
    BY <1>5 DEF Written, IdOf
  <2>2. r # Ping
    BY Constants
  <2>3. home[r] = c /\ work[r] \in {"done", "stopped"}
    BY <1>5, <2>1, <2>2 DEF InPlace
  <2>4. work'[r] = work[r] /\ home'[r] = home[r]
    BY <2>3, DoneStays
  <2>5. ASSUME outcome'[r] = "waiting"
        PROVE  work[r] = "done" /\ InTurn(c, i, r)'
    <3>1. outcome[r] = "waiting" /\ chunks'[r] = chunks[r]
      BY <1>5, <2>3, <2>5, Undisturbed
    <3>2. conn[c] # "closed" /\ streams[c][1] \in Seq(Frames) \ {<<>>}
      BY <1>5, NextFrameShape DEF PumpWrites
    <3>3. work[r] = "done" /\ RestOf(streams[c][1], r)
      BY <1>5, <2>1, <3>1, <3>2 DEF Queued
    <3>4. /\ streams[c][1][1].seq + 1 \in 1..Len(Answer(r))
          /\ streams[c][1][1] = Answer(r)[streams[c][1][1].seq + 1]
      BY <3>2, <3>3, RestHead
    <3>5. GoesOn(c, 1, r)
      BY <1>5, <2>1, <3>1, <3>3 DEF ToCome
    <3>6. ASSUME streams[c][1][1].seq > Len(chunks[r])
          PROVE  \E j \in 1..Len(down'[c]) :
                    j < i /\ down'[c][j].id = r /\ down'[c][j].seq + 1 = streams[c][1][1].seq
      <4>1. PICK j \in 1..Len(down[c]) : down[c][j].id = r /\ down[c][j].seq + 1 = streams[c][1][1].seq
        BY <3>5, <3>6 DEF GoesOn
      <4>2. j < i /\ j \in 1..Len(down'[c])
        BY <1>0, <1>5, <2>1
      <4>3. down'[c][j] = down[c][j]
        BY <1>0, <1>5 DEF Coming
      <4> QED
        BY <4>1, <4>2, <4>3
    <3>7. \A j \in 1..Len(down'[c]) : ~(i < j)
      BY <1>0, <1>5, <2>1
    <3>8. streams[c][1][1].seq >= Len(chunks[r])
      BY <3>5 DEF GoesOn
    <3> QED
      BY <2>1, <3>1, <3>3, <3>4, <3>6, <3>7, <3>8 DEF InTurn, Answer
  <2> QED
    BY <2>3, <2>4, <2>5
<1>6. CASE \A d \in Conns : ~Receive(d)
  <2>1. CASE \A j \in 1..Len(down'[c]) : Coming(c, 0, j)
    BY <1>4, <1>6, <2>1
  <2>2. CASE /\ PumpWrites(c) /\ sock[c] = "open" /\ c \notin dead
             /\ 1 \in 1..Len(streams[c])
             /\ Len(down'[c]) = Len(down[c]) + 1
             /\ \A j \in 1..Len(down[c]) : Coming(c, 0, j)
             /\ Written(c, Len(down[c]) + 1)
    <3>1. \A j \in 1..Len(down'[c]) : j \in 1..Len(down[c]) \/ j = Len(down[c]) + 1
      BY <1>0, <2>2
    <3>2. \A j \in 1..Len(down'[c]) : Coming(c, 0, j) \/ Written(c, j)
      BY <2>2, <3>1
    <3> QED
      BY <1>4, <1>5, <1>6, <2>2, <3>2
  <2> QED
    BY <1>6, <2>1, <2>2, DownOrigins
<1> QED
  BY <1>2, <1>3, <1>6

\* The stream goes on where the frames end.
LEMMA ToComeStep ==
    ASSUME Types, Sockets, Opened, SentOnce, RunOnce, InPlace, Early, Queued, InFlight, ToCome,
           [Next]_vars
    PROVE  ToCome'
<1> SUFFICES ASSUME NEW c \in Conns, NEW p \in 1..Len(streams'[c]), NEW r \in Requests,
                    IdOf(streams'[c][p]) = r, outcome'[r] = "waiting", work'[r] = "done",
                    sock'[c] = "open", c \notin dead'
             PROVE  GoesOn(c, p, r)'
  BY DEF ToCome, IdOf
<1>0. /\ Len(down[c]) \in Nat /\ Len(streams[c]) \in Nat
      /\ \A j \in 1..Len(down[c]) : down[c][j].seq \in Nat
      /\ Len(chunks[r]) \in Nat
  <2>1. down[c] \in Seq(Frames) /\ chunks[r] \in Seq(Seq(Letters)) /\ Len(streams[c]) \in Nat
    BY DEF Types, FrameTypes, Ids
  <2>2. \A j \in 1..Len(down[c]) : down[c][j] \in Frames
    BY <2>1
  <2>3. \A j \in 1..Len(down[c]) : down[c][j].seq \in Nat
    BY <2>2 DEF Frames
  <2> QED
    BY <2>1, <2>3
<1>1. r # Ping
  BY Constants
<1>2. sock[c] = "open" /\ c \notin dead
  <2>1. ASSUME sock[c] # "open"
        PROVE  FALSE
    <3>1. /\ streams[c] = <<>> /\ pump[c] = "stopped"
      BY <2>1, OpensFirst DEF Opened
    <3>2. ~Kept(c, 0, p) /\ ~PumpWrites(c)
      BY <3>1 DEF Kept, PumpWrites
    <3> QED
      BY <3>1, <3>2, StreamOrigins
  <2>2. c \notin dead
    BY LostStays
  <2> QED
    BY <2>1, <2>2
<1>3. ASSUME NEW q \in 1..Len(streams[c]), IdOf(streams[c][q]) = r
      PROVE  /\ work[r] = "done" /\ home[r] = c /\ outcome[r] = "waiting"
             /\ RestOf(streams[c][q], r) /\ GoesOn(c, q, r)
             /\ streams[c][q] \in Seq(Frames) \ {<<>>} /\ streams[c][q][1].seq \in Nat
  <2>1. work[r] \in {"done", "stopped"} /\ home[r] = c
    <3>1. IdOf(streams[c][q]) # Ping
      BY <1>1, <1>3
    <3>2. /\ home[IdOf(streams[c][q])] = c
          /\ work[IdOf(streams[c][q])] \in {"done", "stopped"}
      BY <3>1 DEF InPlace
    <3> QED
      BY <1>3, <3>2
  <2>2. work[r] = "done" /\ outcome[r] = "waiting"
    BY <2>1, DoneStays, WaitingStays
  <2>3. GoesOn(c, q, r)
    BY <1>2, <1>3, <2>2 DEF ToCome
  <2>4. RestOf(streams[c][q], r)
    BY <1>3, <2>2 DEF Queued
  <2>5. streams[c][q] \in Seq(Frames) \ {<<>>}
    BY DEF Types, FrameTypes
  <2> QED
    BY <2>1, <2>2, <2>3, <2>4, <2>5, RestHead
<1>4. ASSUME NEW d \in Conns, Receive(d), d # c
      PROVE  GoesOn(c, p, r)'
  <2>1. down'[c] = down[c] /\ streams' = streams
    BY <1>4, ReceiveShape, Leaves
  <2>2. home[r] = c /\ GoesOn(c, p, r)
    BY <1>3, <2>1
  <2>3. down[d][1].id # r
    BY <1>4, <2>2, HeadInTurn
  <2>4. chunks'[r] = chunks[r]
    BY <1>4, <2>3, ReceiveShape
  <2> QED
    BY <2>1, <2>2, <2>4 DEF GoesOn
<1>5. ASSUME Receive(c)
      PROVE  GoesOn(c, p, r)'
  <2> DEFINE s == streams[c][p][1].seq
  <2>1. /\ Len(down[c]) \in Nat \ {0} /\ Len(down'[c]) = Len(down[c]) - 1
        /\ \A j \in 1..(Len(down[c]) - 1) : down'[c][j] = down[c][j + 1]
        /\ streams' = streams
    BY <1>5, ReceiveShape, Leaves
  <2>2. /\ work[r] = "done" /\ home[r] = c /\ outcome[r] = "waiting"
        /\ GoesOn(c, p, r) /\ s \in Nat /\ 1 \in 1..Len(down[c])
    BY <1>3, <2>1
  <2>3. /\ Len(chunks'[r]) \in Nat /\ s >= Len(chunks'[r])
        /\ Len(chunks'[r]) >= Len(chunks[r])
        /\ s > Len(chunks'[r]) /\ down[c][1].id = r => down[c][1].seq + 1 # s
    <3>1. CASE down[c][1].id # r
      <4>1. chunks'[r] = chunks[r]
        BY <1>5, <3>1, ReceiveShape
      <4> QED
        BY <1>0, <2>2, <3>1, <4>1 DEF GoesOn
    <3>2. CASE down[c][1].id = r
      <4>1. Len(chunks'[r]) = Len(chunks[r]) + 1
        BY <1>5, <2>2, <3>2, Collects
      <4>2. down[c][1].seq = Len(chunks[r])
        BY <1>5, <2>2, <3>2, HeadInTurn
      <4>3. down[c][1].seq < s
        BY <2>2, <3>2 DEF GoesOn
      <4> QED
        BY <1>0, <2>2, <4>1, <4>2, <4>3
    <3> QED
      BY <3>1, <3>2
  <2>4. ASSUME s > Len(chunks'[r])
        PROVE  \E j \in 1..Len(down'[c]) : down'[c][j].id = r /\ down'[c][j].seq + 1 = s
    <3>1. s > Len(chunks[r])
      BY <1>0, <2>2, <2>3, <2>4
    <3>2. PICK j \in 1..Len(down[c]) : down[c][j].id = r /\ down[c][j].seq + 1 = s
      BY <2>2, <3>1 DEF GoesOn
    <3>3. j # 1
      BY <2>3, <2>4, <3>2
    <3>4. j - 1 \in 1..(Len(down[c]) - 1) /\ j - 1 \in 1..Len(down'[c]) /\ (j - 1) + 1 = j
      BY <1>0, <2>1, <3>2, <3>3
    <3>5. down'[c][j - 1] = down[c][j]
      BY <2>1, <3>4
    <3> QED
      BY <3>2, <3>4, <3>5
  <2>5. ASSUME NEW j \in 1..Len(down'[c]), down'[c][j].id = r
        PROVE  down'[c][j].seq < s
    <3>1. j + 1 \in 1..Len(down[c]) /\ j \in 1..(Len(down[c]) - 1)
      BY <1>0, <2>1
    <3>2. down'[c][j] = down[c][j + 1]
      BY <2>1, <3>1
    <3> QED
      BY <2>2, <2>5, <3>1, <3>2 DEF GoesOn
  <2> HIDE DEF s
  <2>6. streams'[c][p][1].seq = s
    BY <2>1 DEF s
  <2> QED
    BY <2>3, <2>4, <2>5, <2>6 DEF GoesOn
<1>6. ASSUME PumpWrites(c)
      PROVE  GoesOn(c, p, r)'
  <2>1. /\ NextFrame(c) /\ UNCHANGED chunks
        /\ down' = [down EXCEPT ![c] = Append(down[c], Head(streams[c])[1])]
    BY <1>2, <1>6 DEF PumpWrites, client
  <2>2. /\ Len(streams[c]) \in Nat \ {0} /\ Head(streams[c]) = streams[c][1]
        /\ streams[c][1] \in Seq(Frames) \ {<<>>} /\ streams[c][1][1] \in Frames
    BY <2>1, NextFrameShape
  <2>3. /\ down'[c] = Append(down[c], streams[c][1][1]) /\ down[c] \in Seq(Frames)
    BY <2>1, <2>2 DEF Types, FrameTypes
  <2>4. /\ Len(down'[c]) = Len(down[c]) + 1
        /\ down'[c][Len(down[c]) + 1] = streams[c][1][1]
        /\ \A j \in 1..Len(down[c]) : down'[c][j] = down[c][j]
    BY <2>2, <2>3
  <2>5. 1 \in 1..Len(streams[c])
    BY <2>2
  <2>6. \A j \in 1..Len(down'[c]) : j \in 1..Len(down[c]) \/ j = Len(down[c]) + 1
    BY <1>0, <2>4
  <2>7. CASE Kept(c, 1, p)
    <3>1. p + 1 \in 1..Len(streams[c]) /\ streams'[c][p] = streams[c][p + 1]
      BY <2>7 DEF Kept
    <3>2. GoesOn(c, p + 1, r) /\ IdOf(streams[c][p + 1]) = r
      BY <1>3, <3>1
    <3>3. streams[c][1][1].id # r
      <4>1. p \in Nat \ {0} /\ p + 1 # 1
        OBVIOUS
      <4> QED
        BY <2>5, <3>1, <3>2, <4>1 DEF InPlace, IdOf
    <3>4. \A j \in 1..Len(down[c]) : j \in 1..Len(down'[c])
      BY <1>0, <2>4
    <3> QED
      BY <2>1, <2>4, <2>6, <3>1, <3>2, <3>3, <3>4 DEF GoesOn
  <2>8. CASE Turned(c, p)
    <3>1. IdOf(streams[c][1]) = r
      BY <1>6, <2>8, TurnedId
    <3>2. /\ GoesOn(c, 1, r) /\ RestOf(streams[c][1], r) /\ streams[c][1][1].seq \in Nat
      BY <1>3, <2>5, <3>1
    <3>3. streams'[c][p] = Tail(streams[c][1]) /\ Len(streams[c][1]) # 1
      BY <2>8 DEF Turned
    <3>4. streams'[c][p][1].seq = streams[c][1][1].seq + 1
      BY <2>2, <3>2, <3>3, RestHead
    <3>5. \A j \in 1..Len(down'[c]) :
             down'[c][j].id = r => down'[c][j].seq < streams[c][1][1].seq + 1
      <4> SUFFICES ASSUME NEW j \in 1..Len(down'[c]), down'[c][j].id = r
                   PROVE  down'[c][j].seq < streams[c][1][1].seq + 1
        OBVIOUS
      <4>1. CASE j \in 1..Len(down[c])
        <5>1. down[c][j].seq < streams[c][1][1].seq /\ down'[c][j] = down[c][j]
          BY <2>4, <3>2, <4>1 DEF GoesOn
        <5> QED
          BY <1>0, <3>2, <4>1, <5>1, SMTT(30)
      <4>2. CASE j = Len(down[c]) + 1
        BY <2>4, <3>2, <4>2
      <4> QED
        BY <2>6, <4>1, <4>2
    <3>6. \E j \in 1..Len(down'[c]) :
             down'[c][j].id = r /\ down'[c][j].seq + 1 = streams[c][1][1].seq + 1
      <4>1. Len(down[c]) + 1 \in 1..Len(down'[c])
        BY <1>0, <2>4
      <4> QED
        BY <2>4, <3>1, <4>1 DEF IdOf
    <3>7. streams[c][1][1].seq + 1 >= Len(chunks'[r])
      <4>1. streams[c][1][1].seq >= Len(chunks[r])
        BY <3>2 DEF GoesOn
      <4> QED
        BY <1>0, <2>1, <3>2, <4>1
    <3> QED
      BY <3>4, <3>5, <3>6, <3>7 DEF GoesOn
  <2> QED
    BY <1>6, <2>7, <2>8, PumpOrigins
<1>7. ASSUME \A d \in Conns : ~Receive(d), ~PumpWrites(c)
      PROVE  GoesOn(c, p, r)'
  <2>1. down'[c] = down[c]
    BY <1>7, DownKept
  <2>2. CASE Kept(c, 0, p)
    <3>1. p \in 1..Len(streams[c]) /\ streams'[c][p] = streams[c][p]
      BY <1>0, <2>2 DEF Kept
    <3>2. GoesOn(c, p, r) /\ work[r] = "done"
      BY <1>3, <3>1
    <3>3. chunks'[r] = chunks[r]
      BY <1>7, <3>2, Undisturbed
    <3> QED
      BY <2>1, <3>1, <3>2, <3>3 DEF GoesOn
  <2>3. ASSUME NEW s \in Seq(Frames) \ {<<>>}, Pushed(c, s), Added(c, s, p)
        PROVE  GoesOn(c, p, r)'
    <3>1. streams'[c][p] = s /\ IdOf(s) = r
      BY <2>3 DEF Added
    <3>2. CASE s = <<Plain(Ping, <<>>)>>
      BY <1>1, <3>1, <3>2 DEF IdOf, Plain
    <3>3. ASSUME NEW q \in Requests, StopWork(q), s = <<Plain(q, <<>>)>>
          PROVE  FALSE
      <4>1. q = r
        BY <3>1, <3>3 DEF IdOf, Plain
      <4>2. work'[r] = "stopped"
        BY <3>3, <4>1 DEF StopWork, Types, DaemonTypes
      <4> QED
        BY <4>2
    <3>4. ASSUME NEW q \in Requests, FinishWork(q), s = Answer(q), work[q] \in {"running", "cancelled"}
          PROVE  GoesOn(c, p, r)'
      <4>1. q = r
        BY <3>1, <3>4, AnswerShape DEF IdOf
      <4>2. UNCHANGED <<outcome, chunks>>
        BY <3>4 DEF FinishWork, client
      <4>3. chunks[r] = <<>>
        BY <3>4, <4>1, <4>2 DEF Early
      <4>4. \A j \in 1..Len(down[c]) : down[c][j].id # r
        BY <3>4, <4>1 DEF InFlight
      <4>5. streams'[c][p][1].seq = 0
        <5>1. 1 \in DOMAIN Answer(r) /\ \A k \in DOMAIN Answer(r) : Answer(r)[k].seq = k - 1
          BY AnswerShape
        <5> QED
          BY <3>1, <3>4, <4>1, <5>1
      <4>6. Len(chunks'[r]) = 0
        BY <4>2, <4>3
      <4> QED
        BY <2>1, <4>4, <4>5, <4>6 DEF GoesOn
    <3> QED
      BY <2>3, <3>2, <3>3, <3>4 DEF Pushed
  <2>4. CASE \E s \in Seq(Frames) \ {<<>>} :
                /\ Pushed(c, s)
                /\ \A k \in 1..Len(streams'[c]) : Kept(c, 0, k) \/ Added(c, s, k)
    BY <2>2, <2>3, <2>4
  <2> QED
    BY <1>7, <2>2, <2>4, StreamOrigins
<1> QED
  BY <1>4, <1>5, <1>6, <1>7

\* What arrives continues what was collected.
LEMMA CollectedStep ==
    ASSUME Types, Sockets, SentOnce, RunOnce, Early, InFlight, Collected, [Next]_vars
    PROVE  Collected'
<1> SUFFICES ASSUME NEW r \in Requests, outcome'[r] = "waiting", work'[r] = "done"
             PROVE  /\ Len(chunks'[r]) < Len(Answer(r))
                    /\ \A i \in 1..Len(chunks'[r]) : chunks'[r][i] = Answer(r)[i].data
  BY DEF Collected, Answer
<1>0. Len(chunks[r]) \in Nat /\ Len(Answer(r)) \in Nat \ {0}
  BY AnswerShape DEF Types, FrameTypes, Ids
<1>1. CASE work[r] # "done"
  <2>1. FinishWork(r) /\ work[r] # "none"
    BY <1>1, WorkSteps DEF WorkStep
  <2>2. outcome[r] = "waiting" /\ UNCHANGED chunks
    BY <2>1 DEF FinishWork, client
  <2>3. chunks'[r] = <<>>
    BY <1>1, <2>2 DEF Early
  <2>4. Len(chunks'[r]) = 0
    BY <2>3
  <2> QED
    BY <1>0, <2>4
<1>2. CASE work[r] = "done"
  <2>1. outcome[r] = "waiting"
    BY <1>2, WaitingStays
  <2>2. /\ Len(chunks[r]) < Len(Answer(r))
        /\ \A i \in 1..Len(chunks[r]) : chunks[r][i] = Answer(r)[i].data
    BY <1>2, <2>1 DEF Collected
  <2>3. CASE chunks'[r] = chunks[r]
    BY <2>2, <2>3
  <2>4. ASSUME NEW c \in Conns, Receive(c), down[c][1].id = r
        PROVE  /\ Len(chunks'[r]) < Len(Answer(r))
               /\ \A i \in 1..Len(chunks'[r]) : chunks'[r][i] = Answer(r)[i].data
    <3>1. /\ ~down[c][1].last
          /\ Len(chunks'[r]) = Len(chunks[r]) + 1
          /\ chunks'[r][Len(chunks[r]) + 1] = down[c][1].data
          /\ \A i \in 1..Len(chunks[r]) : chunks'[r][i] = chunks[r][i]
      BY <2>1, <2>4, Collects
    <3>2. InTurn(c, 1, r) /\ down[c][1].seq = Len(chunks[r])
      BY <2>1, <2>4, HeadInTurn
    <3>3. Len(chunks[r]) + 1 \in 1..Len(Answer(r)) /\ down[c][1] = Answer(r)[Len(chunks[r]) + 1]
      BY <3>2 DEF InTurn
    <3>4. Len(chunks[r]) + 1 # Len(Answer(r))
      BY <3>1, <3>3, AnswerShape
    <3>5. \A i \in 1..Len(chunks'[r]) : i \in 1..Len(chunks[r]) \/ i = Len(chunks[r]) + 1
      BY <1>0, <3>1
    <3>6. Len(chunks'[r]) < Len(Answer(r))
      BY <1>0, <3>1, <3>3, <3>4
    <3>7. chunks'[r][Len(chunks[r]) + 1] = Answer(r)[Len(chunks[r]) + 1].data
      BY <3>1, <3>3
    <3> QED
      BY <2>2, <3>1, <3>5, <3>6, <3>7
  <2> QED
    BY <2>3, <2>4, ChunksSteps DEF ChunksStep
<1> QED
  BY <1>1, <1>2

\* The frames of r's response join to its text.
Joins(r) ==
    Answer(r)[1].chunk => FlattenSeq([i \in DOMAIN Answer(r) |-> Answer(r)[i].data]) = Reply[r]

\* The last frame completes the response.
LEMMA AnswersStep ==
    ASSUME \A r \in Requests : Joins(r),
           Types, Sockets, SentOnce, RunOnce, InFlight, Collected, Answers, [Next]_vars
    PROVE  Answers'
<1> SUFFICES ASSUME NEW r \in Requests, outcome'[r] = "answered"
             PROVE  work'[r] = "done" /\ got'[r] = Reply[r]
  BY DEF Answers
<1>1. CASE outcome[r] = "answered"
  <2>1. work[r] = "done" /\ got[r] = Reply[r]
    BY <1>1 DEF Answers
  <2> QED
    BY <1>1, <2>1, DoneStays, GotKept
<1>2. CASE outcome[r] # "answered"
  <2>1. outcome[r] = "waiting"
    BY <1>2, OutcomeSteps DEF OutcomeStep
  <2>2. PICK c \in Conns : Receive(c) /\ down[c][1].id = r
    BY <1>2, AnsweredBy
  <2> DEFINE f == down[c][1]
  <2>3. /\ work[r] = "done" /\ InTurn(c, 1, r) /\ f.seq = Len(chunks[r])
    BY <2>1, <2>2, HeadInTurn
  <2>4. f \in Frames /\ Hears(r, f) /\ r \in pending
    BY <2>1, <2>2, ReceiveShape DEF Sockets
  <2>5. Len(chunks[r]) + 1 \in 1..Len(Answer(r)) /\ f = Answer(r)[Len(chunks[r]) + 1]
    BY <2>3 DEF InTurn
  <2>6. /\ Len(chunks[r]) < Len(Answer(r)) /\ Len(chunks[r]) \in Nat
        /\ \A i \in 1..Len(chunks[r]) : chunks[r][i] = Answer(r)[i].data
        /\ chunks[r] \in Seq(Seq(Letters))
    BY <2>1, <2>3 DEF Collected, Types, FrameTypes, Ids
  <2> HIDE DEF f
  <2>7. work'[r] = "done"
    BY <2>3, DoneStays
  <2>8. CASE ~f.chunk
    <3>1. Answer(r) = <<Plain(r, Reply[r])>>
      BY <2>5, <2>8, AnswerShape
    <3>2. f = Plain(r, Reply[r])
      BY <2>5, <3>1
    <3>3. f.data = Reply[r] /\ got'[r] = f.data
      BY <2>4, <2>8, <3>2 DEF Hears, Told, Plain
    <3> QED
      BY <2>7, <3>3
  <2>9. CASE f.chunk
    <3>1. f.last /\ got'[r] = FlattenSeq(AddPart(chunks[r], f))
      BY <1>2, <2>4, <2>9 DEF Hears, Told
    <3>2. /\ AddPart(chunks[r], f) \in Seq(Seq(Letters))
          /\ Len(AddPart(chunks[r], f)) = Len(chunks[r]) + 1
          /\ AddPart(chunks[r], f)[Len(chunks[r]) + 1] = f.data
          /\ \A i \in 1..Len(chunks[r]) : AddPart(chunks[r], f)[i] = chunks[r][i]
      BY <2>3, <2>4, <2>6, AddPartShape
    <3>3. Len(chunks[r]) + 1 = Len(Answer(r)) /\ DOMAIN Answer(r) = 1..Len(Answer(r))
      BY <2>5, <3>1, AnswerShape
    <3>4. \A i \in 1..Len(Answer(r)) : AddPart(chunks[r], f)[i] = Answer(r)[i].data
      <4>1. \A i \in 1..Len(Answer(r)) : i \in 1..Len(chunks[r]) \/ i = Len(Answer(r))
        <5>1. \A m \in Nat : \A i \in 1..(m + 1) : i \in 1..m \/ i = m + 1
          OBVIOUS
        <5> QED
          BY <2>6, <3>3, <5>1
      <4> QED
        BY <2>5, <2>6, <3>2, <3>3, <4>1
    <3>5. AddPart(chunks[r], f) = [i \in DOMAIN Answer(r) |-> Answer(r)[i].data]
      <4> DEFINE parts == AddPart(chunks[r], f)
      <4>0. parts \in Seq(Seq(Letters))
        BY <3>2
      <4> HIDE DEF parts
      <4>1. parts = [i \in 1..Len(parts) |-> parts[i]]
        BY <4>0
      <4>2. Len(parts) = Len(Answer(r)) /\ \A i \in 1..Len(Answer(r)) : parts[i] = Answer(r)[i].data
        BY <3>2, <3>3, <3>4 DEF parts
      <4>3. parts = [i \in DOMAIN Answer(r) |-> Answer(r)[i].data]
        BY <3>3, <4>1, <4>2
      <4> QED
        BY <4>3 DEF parts
    <3>6. Answer(r)[1].chunk
      <4>1. 1 \in DOMAIN Answer(r) /\ Len(chunks[r]) + 1 \in DOMAIN Answer(r)
        <5>1. Len(Answer(r)) \in Nat \ {0}
          BY AnswerShape
        <5>2. 1 \in 1..Len(Answer(r))
          <6>1. \A m \in Nat \ {0} : 1 \in 1..m
            OBVIOUS
          <6> QED
            BY <5>1, <6>1
        <5>4. DOMAIN Answer(r) = 1..Len(Answer(r))
          BY <3>3
        <5>3. Len(chunks[r]) + 1 \in 1..Len(Answer(r))
          BY <2>5
        <5> QED
          BY <5>2, <5>3, <5>4
      <4>2. CASE Answer(r) = <<Plain(r, Reply[r])>>
        <5>1. f = Plain(r, Reply[r])
          BY <2>5, <4>1, <4>2
        <5> QED
          BY <2>9, <5>1 DEF Plain
      <4> QED
        BY <4>1, <4>2, AnswerShape
    <3> QED
      BY <2>7, <3>1, <3>5, <3>6 DEF Joins
  <2> QED
    BY <2>8, <2>9
<1> QED
  BY <1>1, <1>2

-----------------------------------------------------------------------------
(* Responses whose frames join to their text. *)

\* Pieces cut from a sequence one after the other join to it.
LEMMA PiecesJoin ==
    ASSUME NEW S, NEW s \in Seq(S), NEW n \in Nat \ {0}, NEW cut \in [0..n -> 0..Len(s)],
           \A i \in 1..n : cut[i - 1] <= cut[i],
           cut[0] = 0, cut[n] = Len(s)
    PROVE  FlattenSeq([i \in 1..n |-> SubSeq(s, cut[i - 1] + 1, cut[i])]) = s
<1> DEFINE seqs == [i \in 1..n |-> SubSeq(s, cut[i - 1] + 1, cut[i])]
           g == [i \in 1..n |-> SubSeq(s, 1, cut[i])]
<1>0. Len(s) \in Nat /\ \A i \in 1..Len(s) : s[i] \in S
  OBVIOUS
<1>1. ASSUME NEW i \in 1..n
      PROVE  /\ i - 1 \in 0..n /\ i \in 0..n
             /\ cut[i - 1] \in 0..Len(s) /\ cut[i] \in 0..Len(s)
             /\ seqs[i] \in Seq(S)
  <2>1. i - 1 \in 0..n /\ i \in 0..n
    OBVIOUS
  <2>2. cut[i - 1] \in 0..Len(s) /\ cut[i] \in 0..Len(s)
    BY <2>1
  <2>3. \A k \in (cut[i - 1] + 1)..cut[i] : s[k] \in S
    BY <1>0, <2>2
  <2>4. cut[i - 1] + 1 \in Int /\ cut[i] \in Int
    BY <1>0, <2>2
  <2>5. SubSeq(s, cut[i - 1] + 1, cut[i]) \in Seq(S)
    BY <2>3, <2>4, SubSeqProperties
  <2> QED
    BY <2>1, <2>2, <2>5
<1>2. seqs \in Seq(Seq(S)) /\ Len(seqs) = n /\ seqs # <<>>
  <2>1. seqs = [i \in 1..n |-> seqs[i]]
    OBVIOUS
  <2>2. \A i \in 1..n : seqs[i] \in Seq(S)
    BY <1>1
  <2> HIDE DEF seqs
  <2>3. seqs \in [1..n -> Seq(S)]
    BY <2>1, <2>2
  <2>4. seqs \in Seq(Seq(S)) /\ Len(seqs) = n
    BY <2>3
  <2> QED
    BY <2>4
<1>3. ASSUME NEW i \in 1..n
      PROVE  g[i] = IF i = 1 THEN seqs[i] ELSE g[i - 1] \o seqs[i]
  <2>1. CASE i = 1
    BY <2>1
  <2>2. CASE i # 1
    <3>1. i - 1 \in 1..n /\ cut[i - 1] <= cut[i]
      BY <2>2
    <3>2. ASSUME NEW a \in 0..Len(s), NEW b \in 0..Len(s), a <= b
          PROVE  SubSeq(s, 1, a) \o SubSeq(s, a + 1, b) = SubSeq(s, 1, b)
      <4>1. 1 \in 1..(Len(s) + 1) /\ a \in (1 - 1)..Len(s) /\ b \in a..Len(s)
        BY <1>0, <3>2
      <4> QED
        BY <4>1, ConcatAdjacentSubSeq
    <3>3. SubSeq(s, 1, cut[i - 1]) \o SubSeq(s, cut[i - 1] + 1, cut[i]) = SubSeq(s, 1, cut[i])
      BY <1>1, <3>1, <3>2
    <3> QED
      BY <2>2, <3>1, <3>3
  <2> QED
    BY <2>1, <2>2
<1>4. Joining(seqs, g)
  <2>1. g = [i \in 1..n |-> g[i]]
    OBVIOUS
  <2> HIDE DEF g, seqs
  <2> QED
    BY <1>2, <1>3, <2>1 DEF Joining
<1>5. FlattenSeq(seqs) = g[n]
  <2> HIDE DEF g, seqs
  <2> QED
    BY <1>2, <1>4, FlattenUnfolds
<1>6. g[n] = s
  BY SubSeqFull
<1> QED
  BY <1>5, <1>6

\* One letter a piece joins to the letters.
LEMMA SinglesJoin ==
    ASSUME NEW S, NEW s \in Seq(S)
    PROVE  FlattenSeq([i \in DOMAIN s |-> <<s[i]>>]) = s
<1>1. Len(s) \in Nat /\ DOMAIN s = 1..Len(s)
  OBVIOUS
<1>2. CASE s = <<>>
  <2>1. DOMAIN s = {} /\ [i \in DOMAIN s |-> <<s[i]>>] = <<>>
    BY <1>2
  <2> QED
    BY <1>2, <2>1 DEF FlattenSeq
<1>3. CASE s # <<>>
  <2> DEFINE cut == [i \in 0..Len(s) |-> i]
  <2>1. Len(s) \in Nat \ {0}
    BY <1>3
  <2>2. cut \in [0..Len(s) -> 0..Len(s)] /\ cut[0] = 0 /\ cut[Len(s)] = Len(s)
    BY <1>1
  <2>3. \A i \in 1..Len(s) : cut[i - 1] = i - 1 /\ cut[i] = i /\ cut[i - 1] <= cut[i]
    BY <1>1
  <2>4. ASSUME NEW i \in 1..Len(s)
        PROVE  SubSeq(s, cut[i - 1] + 1, cut[i]) = <<s[i]>>
    <3>1. cut[i - 1] + 1 = i /\ cut[i] = i
      BY <2>3
    <3>2. SubSeq(s, i, i) = <<s[i]>>
      <4>1. \A k \in i..i : s[k] \in S
        BY <1>1
      <4>2. /\ SubSeq(s, i, i) \in Seq(S) /\ Len(SubSeq(s, i, i)) = 1
            /\ \A k \in 1 .. i - i + 1 : SubSeq(s, i, i)[k] = s[i + k - 1]
        BY <1>1, <4>1, SubSeqProperties
      <4>3. 1 \in 1 .. i - i + 1 /\ i + 1 - 1 = i
        BY <1>1
      <4>4. SubSeq(s, i, i)[1] = s[i]
        BY <4>2, <4>3
      <4>5. <<s[i]>> \in Seq(S) /\ Len(<<s[i]>>) = 1 /\ <<s[i]>>[1] = s[i]
        BY <1>1
      <4>6. \A k \in 1..Len(SubSeq(s, i, i)) : SubSeq(s, i, i)[k] = <<s[i]>>[k]
        BY <4>2, <4>4, <4>5
      <4> QED
        BY <4>2, <4>5, <4>6, SeqEqual
    <3> QED
      BY <3>1, <3>2
  <2> HIDE DEF cut
  <2>5. FlattenSeq([i \in 1..Len(s) |-> SubSeq(s, cut[i - 1] + 1, cut[i])]) = s
    BY <2>1, <2>2, <2>3, PiecesJoin
  <2>6. [i \in 1..Len(s) |-> SubSeq(s, cut[i - 1] + 1, cut[i])] = [i \in DOMAIN s |-> <<s[i]>>]
    BY <1>1, <2>4
  <2> QED
    BY <2>5, <2>6
<1> QED
  BY <1>2, <1>3

\* A text of one-byte characters is encoded, and written as JSON, byte for byte.
LEMMA OneByteEach ==
    ASSUME NEW text \in Seq(DOMAIN Width), \A i \in DOMAIN text : Width[text[i]] = 1
    PROVE  Utf8(text) = [i \in DOMAIN text |-> <<text[i], 1>>]
<1> DEFINE bytes == [i \in DOMAIN text |-> <<text[i], 1>>]
<1>1. Len(text) \in Nat /\ DOMAIN text = 1..Len(text) /\ \A i \in 1..Len(text) : text[i] \in DOMAIN Width
  OBVIOUS
<1>2. bytes \in Seq((DOMAIN Width) \X {1}) /\ DOMAIN bytes = DOMAIN text
  <2>1. \A i \in 1..Len(text) : bytes[i] \in (DOMAIN Width) \X {1}
    BY <1>1
  <2>2. bytes = [i \in 1..Len(text) |-> bytes[i]] /\ DOMAIN bytes = DOMAIN text
    BY <1>1
  <2> HIDE DEF bytes
  <2> QED
    BY <1>1, <2>1, <2>2
<1>3. ASSUME NEW i \in DOMAIN text
      PROVE  [k \in 1..Width[text[i]] |-> <<text[i], k>>] = <<bytes[i]>>
  <2>1. 1..Width[text[i]] = {1}
    OBVIOUS
  <2>2. [k \in {1} |-> <<text[i], k>>] = <<<<text[i], 1>>>>
    OBVIOUS
  <2> QED
    BY <2>1, <2>2
<1>4. Utf8(text) = FlattenSeq([i \in DOMAIN bytes |-> <<bytes[i]>>])
  <2>1. [i \in DOMAIN text |-> [k \in 1..Width[text[i]] |-> <<text[i], k>>]]
           = [i \in DOMAIN bytes |-> <<bytes[i]>>]
    BY <1>2, <1>3
  <2> QED
    BY <2>1 DEF Utf8
<1> HIDE DEF bytes
<1>5. FlattenSeq([i \in DOMAIN bytes |-> <<bytes[i]>>]) = bytes
  BY <1>2, SinglesJoin
<1> QED
  BY <1>4, <1>5 DEF bytes

\* Bytes that are characters decode to them.
LEMMA OneByteJson ==
    ASSUME NEW bytes \in Seq((DOMAIN Width) \X {1}), \A i \in DOMAIN bytes : Width[bytes[i][1]] = 1
    PROVE  JsonString(bytes) = [i \in DOMAIN bytes |-> bytes[i][1]]
<1> DEFINE text == [i \in DOMAIN bytes |-> bytes[i][1]]
<1>1. /\ Len(bytes) \in Nat /\ DOMAIN bytes = 1..Len(bytes)
      /\ \A i \in 1..Len(bytes) : bytes[i][1] \in DOMAIN Width /\ bytes[i][2] = 1
  OBVIOUS
<1>2. text \in Seq(DOMAIN Width) /\ DOMAIN text = DOMAIN bytes
  <2>1. \A i \in 1..Len(bytes) : text[i] \in DOMAIN Width
    BY <1>1
  <2>2. text = [i \in 1..Len(bytes) |-> text[i]] /\ DOMAIN text = DOMAIN bytes
    BY <1>1
  <2> HIDE DEF text
  <2> QED
    BY <1>1, <2>1, <2>2
<1>3. ASSUME NEW i \in DOMAIN bytes
      PROVE  (IF ~Whole(bytes, i) THEN <<Replacement>>
              ELSE IF bytes[i][2] = 1 THEN <<bytes[i][1]>> ELSE <<>>) = <<text[i]>>
  <2>1. bytes[i][2] = 1 /\ Width[bytes[i][1]] = 1 /\ i \in 1..Len(bytes)
    BY <1>1
  <2>2. i + 1 - 1 >= 1 /\ (i + 1 - 1) + 1 - 1 <= Len(bytes)
    BY <1>1, <2>1
  <2>3. Whole(bytes, i)
    BY <2>1, <2>2 DEF Whole
  <2> QED
    BY <2>1, <2>3
<1>4. JsonString(bytes) = FlattenSeq([i \in DOMAIN text |-> <<text[i]>>])
  <2>1. [i \in DOMAIN bytes |-> IF ~Whole(bytes, i) THEN <<Replacement>>
                                ELSE IF bytes[i][2] = 1 THEN <<bytes[i][1]>> ELSE <<>>]
           = [i \in DOMAIN text |-> <<text[i]>>]
    BY <1>2, <1>3
  <2> QED
    BY <2>1 DEF JsonString
<1> HIDE DEF text
<1>5. FlattenSeq([i \in DOMAIN text |-> <<text[i]>>]) = text
  BY <1>2, SinglesJoin
<1> QED
  BY <1>4, <1>5 DEF text

\* A response of one-byte characters joins, wherever it is cut.
LEMMA OneByteJoins ==
    ASSUME NEW r \in Requests, \A i \in DOMAIN Reply[r] : Width[Reply[r][i]] = 1
    PROVE  Joins(r)
<1> DEFINE text == Reply[r]
           bytes == Utf8(text)
           n == (Len(bytes) + ChunkSize - 1) \div ChunkSize
           End(i) == IF i = n THEN Len(bytes) ELSE i * ChunkSize
           data(i) == JsonString(SubSeq(bytes, (i - 1) * ChunkSize + 1, End(i)))
           cut == [i \in 0..n |-> End(i)]
<1>1. text \in Seq(DOMAIN Width) /\ Len(text) \in Nat /\ DOMAIN text = 1..Len(text)
  BY Constants
<1>2. bytes = [i \in DOMAIN text |-> <<text[i], 1>>]
  BY <1>1, OneByteEach
<1> HIDE DEF text, bytes
<1>3. /\ DOMAIN bytes = 1..Len(text) /\ Len(bytes) = Len(text)
      /\ \A i \in 1..Len(text) : /\ bytes[i] = <<text[i], 1>> /\ bytes[i] \in (DOMAIN Width) \X {1}
                                 /\ Width[text[i]] = 1
  <2>1. \A i \in 1..Len(text) : /\ bytes[i] = <<text[i], 1>> /\ bytes[i] \in (DOMAIN Width) \X {1}
                                /\ Width[text[i]] = 1
    BY <1>1, <1>2 DEF text
  <2>2. bytes = [i \in 1..Len(text) |-> bytes[i]]
    BY <1>1, <1>2
  <2>3. bytes \in [1..Len(text) -> (DOMAIN Width) \X {1}]
    BY <2>1, <2>2
  <2>4. bytes \in Seq((DOMAIN Width) \X {1}) /\ Len(bytes) = Len(text)
    BY <1>1, <2>3
  <2> QED
    BY <2>1, <2>3, <2>4
<1>4. CASE Len(bytes) <= ChunkSize
  <2>1. Answer(r) = <<Plain(r, text)>>
    BY <1>4 DEF Answer, Split, bytes, text
  <2> QED
    BY <2>1 DEF Joins, Plain
<1>5. CASE ~(Len(bytes) <= ChunkSize)
  <2>0. ChunkSize \in Nat \ {0}
    BY FramesAssumption
  <2>1. /\ DOMAIN Answer(r) = 1..n
        /\ \A i \in 1..n : Answer(r)[i].data = data(i)
    BY <1>5 DEF Answer, Split, bytes, text
  <2>2. n \in Nat \ {0} /\ (n - 1) * ChunkSize < Len(bytes) /\ Len(bytes) <= n * ChunkSize
    <3>1. ASSUME NEW L \in Nat, NEW K \in Nat \ {0}, ~(L <= K),
                 NEW m, m = (L + K - 1) \div K
          PROVE  m \in Nat \ {0} /\ (m - 1) * K < L /\ L <= m * K
      BY <3>1
    <3> HIDE DEF n
    <3> QED
      BY <1>1, <1>3, <1>5, <2>0, <3>1 DEF n
  <2> HIDE DEF n
  <2>3. ASSUME NEW i \in 1..n
        PROVE  /\ (i - 1) * ChunkSize \in 0..Len(text) /\ End(i) \in 0..Len(text)
               /\ (i - 1) * ChunkSize <= End(i)
               /\ End(i - 1) = (i - 1) * ChunkSize
    <3>1. ASSUME NEW K \in Nat \ {0}, NEW m \in Nat \ {0}, NEW k \in 1..m
          PROVE  /\ (k - 1) * K \in Nat /\ k * K \in Nat /\ (k - 1) * K <= k * K
                 /\ (k - 1) * K <= (m - 1) * K
                 /\ k # m => k * K <= (m - 1) * K
      BY <3>1
    <3>2. /\ (i - 1) * ChunkSize \in Nat /\ i * ChunkSize \in Nat
          /\ (i - 1) * ChunkSize <= i * ChunkSize
          /\ (i - 1) * ChunkSize <= (n - 1) * ChunkSize
          /\ i # n => i * ChunkSize <= (n - 1) * ChunkSize
      BY <2>0, <2>2, <3>1
    <3>3. (n - 1) * ChunkSize \in Nat
      BY <2>0, <2>2, <3>1
    <3>4. End(i - 1) = (i - 1) * ChunkSize
      BY <2>2
    <3> QED
      BY <1>1, <1>3, <2>2, <3>2, <3>3, <3>4
  <2>4. End(0) = 0 /\ End(n) = Len(text)
    BY <1>3, <2>0, <2>2
  <2> HIDE DEF End
  <2>5. ASSUME NEW i \in 1..n
        PROVE  data(i) = SubSeq(text, (i - 1) * ChunkSize + 1, End(i))
    <3>1. ASSUME NEW a \in 0..Len(text), NEW b \in 0..Len(text), a <= b
          PROVE  JsonString(SubSeq(bytes, a + 1, b)) = SubSeq(text, a + 1, b)
      <4> DEFINE part == SubSeq(bytes, a + 1, b)
                 chars == SubSeq(text, a + 1, b)
      <4>0. /\ a \in Nat /\ b \in Nat /\ a + 1 \in Int /\ b \in Int
            /\ \A k \in (a + 1)..b : k \in 1..Len(text)
        BY <1>1, <3>1
      <4>1. /\ part \in Seq((DOMAIN Width) \X {1})
            /\ Len(part) = IF a + 1 <= b THEN b - (a + 1) + 1 ELSE 0
            /\ \A k \in 1 .. b - (a + 1) + 1 : part[k] = bytes[(a + 1) + k - 1]
        <5>1. \A k \in (a + 1)..b : bytes[k] \in (DOMAIN Width) \X {1}
          BY <1>3, <4>0
        <5> QED
          BY <4>0, <5>1, SubSeqProperties
      <4>2. /\ chars \in Seq(DOMAIN Width)
            /\ Len(chars) = IF a + 1 <= b THEN b - (a + 1) + 1 ELSE 0
            /\ \A k \in 1 .. b - (a + 1) + 1 : chars[k] = text[(a + 1) + k - 1]
        <5>1. \A k \in (a + 1)..b : text[k] \in DOMAIN Width
          BY <1>1, <4>0
        <5> QED
          BY <4>0, <5>1, SubSeqProperties
      <4> HIDE DEF part, chars
      <4>3. /\ Len(part) = b - a /\ Len(chars) = b - a
            /\ DOMAIN part = 1..(b - a) /\ DOMAIN chars = 1..(b - a)
        <5>1. Len(part) = b - a /\ Len(chars) = b - a
          BY <3>1, <4>0, <4>1, <4>2
        <5> QED
          BY <4>1, <4>2, <5>1
      <4>4. ASSUME NEW k \in 1..(b - a)
            PROVE  part[k] = <<text[a + k], 1>> /\ chars[k] = text[a + k] /\ Width[text[a + k]] = 1
        <5>1. k \in 1 .. b - (a + 1) + 1 /\ (a + 1) + k - 1 = a + k /\ a + k \in 1..Len(text)
          BY <3>1, <4>0, <4>4
        <5> QED
          BY <1>3, <4>1, <4>2, <5>1
      <4>5. JsonString(part) = [k \in DOMAIN part |-> part[k][1]]
        <5>1. \A k \in DOMAIN part : Width[part[k][1]] = 1
          BY <4>3, <4>4
        <5> QED
          BY <4>1, <5>1, OneByteJson
      <4>6. [k \in DOMAIN part |-> part[k][1]] = [k \in 1..(b - a) |-> chars[k]]
        BY <4>3, <4>4
      <4>7. chars = [k \in 1..(b - a) |-> chars[k]]
        BY <4>2, <4>3
      <4>8. JsonString(part) = chars
        BY <4>5, <4>6, <4>7
      <4> QED
        BY <4>8 DEF part, chars
    <3> QED
      BY <2>3, <3>1
  <2> HIDE DEF data
  <2>6. \A i \in 1..n : cut[i - 1] = (i - 1) * ChunkSize /\ cut[i] = End(i)
    <3>1. \A i \in 1..n : i - 1 \in 0..n /\ i \in 0..n
      BY <2>2
    <3> QED
      BY <2>3, <3>1
  <2>7. cut \in [0..n -> 0..Len(text)] /\ cut[0] = 0 /\ cut[n] = Len(text)
    <3>1. \A i \in 0..n : i = 0 \/ i \in 1..n
      BY <2>2
    <3>2. \A i \in 0..n : End(i) \in 0..Len(text)
      BY <1>1, <2>3, <2>4, <3>1
    <3>3. 0 \in 0..n /\ n \in 0..n
      BY <2>2
    <3> QED
      BY <2>4, <3>2, <3>3
  <2>8. \A i \in 1..n : cut[i - 1] <= cut[i]
    BY <2>3, <2>6
  <2> HIDE DEF cut
  <2>9. FlattenSeq([i \in 1..n |-> SubSeq(text, cut[i - 1] + 1, cut[i])]) = text
    BY <1>1, <2>2, <2>7, <2>8, PiecesJoin
  <2>10. [i \in 1..n |-> SubSeq(text, cut[i - 1] + 1, cut[i])]
            = [i \in DOMAIN Answer(r) |-> Answer(r)[i].data]
    BY <2>1, <2>5, <2>6
  <2> QED
    BY <2>9, <2>10 DEF Joins, text
<1> QED
  BY <1>4, <1>5

-----------------------------------------------------------------------------
(* The inductive invariants, and what follows from them. *)

Steady ==
    /\ Types /\ Sockets /\ Opened /\ SentOnce /\ RunOnce
    /\ PumpsWake /\ InPlace /\ OnePing /\ TurnsCome

Delivery ==
    /\ Unwanted /\ Stops /\ Early /\ Queued
    /\ InFlight /\ ToCome /\ Collected /\ Answers

\* Both invariants hold at the start and are kept.
LEMMA InitSteady == Init => Steady
<1> SUFFICES ASSUME Init PROVE Steady
  OBVIOUS
<1>1. Types
  BY InitTypes
<1>2. Sockets
  BY Constants DEF Init, Sockets, Conns
<1>3. /\ \A c \in Conns : /\ up[c] = <<>> /\ down[c] = <<>> /\ streams[c] = <<>>
                          /\ Len(up[c]) = 0 /\ Len(down[c]) = 0 /\ Len(streams[c]) = 0
                          /\ conn[c] = "none" /\ pump[c] = "stopped" /\ c \notin dead
      /\ \A r \in Requests : work[r] = "none" /\ executed[r] = 0 /\ outcome[r] = "unsent"
  BY DEF Init
<1>4. Opened
  BY <1>3 DEF Opened
<1>5. SentOnce
  BY <1>3 DEF SentOnce
<1>6. RunOnce
  BY <1>3 DEF RunOnce
<1>7. PumpsWake
  BY <1>3 DEF PumpsWake
<1>8. InPlace
  BY <1>3 DEF InPlace
<1>9. OnePing
  BY <1>3 DEF OnePing, PingsUp, PingsQueued, PingsDown
<1>10. TurnsCome
  <2> SUFFICES ASSUME NEW i \in Ids PROVE lag[i] + Cardinality(Ahead(i)) < Cardinality(Ids)
    BY DEF TurnsCome
  <2>1. Ahead(i) = {}
    BY <1>3 DEF Ahead
  <2>2. lag[i] = 0
    BY DEF Init
  <2>3. i \notin Ahead(i) /\ Ahead(i) \in SUBSET Ids
    BY <2>1
  <2> QED
    BY <2>2, <2>3, FewerIds
<1> QED
  BY <1>1, <1>2, <1>4, <1>5, <1>6, <1>7, <1>8, <1>9, <1>10 DEF Steady

LEMMA SteadyStep ==
    ASSUME Steady, [Next]_vars
    PROVE  Steady'
<1> USE DEF Steady
<1>1. Types'
  BY TypesStep
<1>2. Sockets'
  BY SocketsStep
<1>3. Opened'
  BY OpenedStep
<1>4. SentOnce'
  BY SentOnceStep
<1>5. RunOnce'
  BY RunOnceStep
<1>6. PumpsWake'
  BY PumpsWakeStep
<1>7. InPlace'
  BY InPlaceStep
<1>8. OnePing'
  BY OnePingStep
<1>9. TurnsCome'
  BY <1>7, TurnsComeStep
<1> QED
  BY <1>1, <1>2, <1>3, <1>4, <1>5, <1>6, <1>7, <1>8, <1>9

LEMMA AlwaysSteady == Spec => []Steady
<1>1. Init => Steady
  BY InitSteady
<1>2. Steady /\ [Next]_vars => Steady'
  BY SteadyStep
<1> QED
  BY <1>1, <1>2, PTL DEF Spec

LEMMA InitDelivery == Init => Delivery
<1> SUFFICES ASSUME Init PROVE Delivery
  OBVIOUS
<1>1. /\ \A c \in Conns : Len(up[c]) = 0 /\ Len(down[c]) = 0 /\ Len(streams[c]) = 0
      /\ \A r \in Requests : work[r] = "none" /\ outcome[r] = "unsent" /\ chunks[r] = <<>>
  BY DEF Init, NoParts, Ids
<1> QED
  BY <1>1 DEF Delivery, Unwanted, Stops, Early, Queued, InFlight, ToCome, Collected, Answers

LEMMA DeliveryStep ==
    ASSUME \A r \in Requests : Joins(r), Steady, Delivery, [Next]_vars
    PROVE  Delivery'
<1> USE DEF Steady, Delivery
<1>1. Unwanted'
  BY UnwantedStep
<1>2. Stops'
  BY StopsStep
<1>3. Early'
  BY EarlyStep
<1>4. Queued'
  BY QueuedStep
<1>5. InFlight'
  BY InFlightStep
<1>6. ToCome'
  BY ToComeStep
<1>7. Collected'
  BY CollectedStep
<1>8. Answers'
  BY AnswersStep
<1> QED
  BY <1>1, <1>2, <1>3, <1>4, <1>5, <1>6, <1>7, <1>8

\* "They are deliberately not replayed over HTTP" (ws-rpc-channel.ts): however many
\* connections are lost, and whenever, no handler runs twice for one request.
THEOREM RequestsRunOnce == Spec => []NeverReplayed
<1>1. Steady => NeverReplayed
  BY DEF Steady, RunOnce, NeverReplayed
<1> QED
  BY <1>1, AlwaysSteady, PTL

\* _scheduleReconnect, _handleClose and dispose() between them: a channel without a
\* socket has a timer that will try again, or has been disposed, or has given up; and
\* one that was disposed keeps no socket, no timer and no request.
THEOREM ChannelIsUpOrOver == Spec => []UpOrOver
<1>1. Steady => UpOrOver
  BY DEF Steady, Sockets, UpOrOver, ComesBack, DisposeIsFinal
<1> QED
  BY <1>1, AlwaysSteady, PTL

\* writePump and nextFrame (ws_rpc.go): the pump never sleeps on frames without a signal
\* to wake it, and a stream that waits sees every other one pass at most once, however
\* many requests, connections and frames there are.
THEOREM PumpServes == Spec => []PumpServesAll
<1>1. Steady => TypeOK
  <2> SUFFICES ASSUME Steady PROVE TypeOK
    OBVIOUS
  <2>1. \A c \in Conns : \A i \in DOMAIN streams[c] : streams[c][i] # <<>>
    BY DEF Steady, Types, FrameTypes
  <2>2. pending \cap Requests = {r \in Requests : outcome[r] = "waiting"}
    BY DEF Steady, Sockets
  <2> QED
    BY <2>1, <2>2 DEF Steady, Types, BrowserTypes, DaemonTypes, TypeOK
<1>2. Steady => NoLostWake
  BY DEF Steady, PumpsWake, NoLostWake
<1>3. Steady => LongResponsesYield
  <2> SUFFICES ASSUME Steady, NEW i \in Ids PROVE lag[i] < Cardinality(Ids)
    BY DEF LongResponsesYield
  <2>1. lag[i] \in Nat /\ Ahead(i) \in SUBSET Ids
    BY DEF Steady, Types, DaemonTypes, Ahead
  <2>2. Cardinality(Ahead(i)) \in Nat /\ Cardinality(Ids) \in Nat
    BY <2>1, FewerAhead, Constants, FS_CardinalityType, FS_Singleton, FS_Union DEF Ids
  <2>3. lag[i] + Cardinality(Ahead(i)) < Cardinality(Ids)
    BY DEF Steady, TurnsCome
  <2> QED
    BY <2>1, <2>2, <2>3
<1> QED
  BY <1>1, <1>2, <1>3, AlwaysSteady, PTL DEF PumpServesAll

\* Frames in flight, streams half written, cancels that come too late and connections
\* that are lost or closed with all of it: a promise that resolves has the text its own
\* handler produced, and that handler ran once.  It holds of responses whose frames join
\* to their text, which splitResponse does not see to.
THEOREM AnswersAreTheirOwn ==
    ASSUME \A r \in Requests : Joins(r)
    PROVE  Spec => []AnswersAreIntact
<1>1. Init => Steady /\ Delivery
  BY InitSteady, InitDelivery
<1>2. Steady /\ Delivery /\ [Next]_vars => (Steady /\ Delivery)'
  BY SteadyStep, DeliveryStep
<1>3. Steady /\ Delivery => AnswersAreIntact
  BY DEF Steady, Delivery, RunOnce, Answers, AnswersAreIntact
<1> QED
  BY <1>1, <1>2, <1>3, PTL DEF Spec

\* Responses that fit one frame do join, and so do those of one-byte characters, which
\* no boundary between chunks can cut.
THEOREM SmallOrAsciiAnswers ==
    ASSUME \A r \in Requests : \/ Len(Utf8(Reply[r])) <= ChunkSize
                               \/ \A i \in DOMAIN Reply[r] : Width[Reply[r][i]] = 1
    PROVE  Spec => []AnswersAreIntact
<1>1. ASSUME NEW r \in Requests, Len(Utf8(Reply[r])) <= ChunkSize
      PROVE  Joins(r)
  <2>1. Answer(r) = <<Plain(r, Reply[r])>>
    BY <1>1 DEF Answer, Split
  <2> QED
    BY <2>1 DEF Joins, Plain
<1>2. \A r \in Requests : Joins(r)
  BY <1>1, OneByteJoins
<1> QED
  BY <1>2, AnswersAreTheirOwn
=============================================================================
