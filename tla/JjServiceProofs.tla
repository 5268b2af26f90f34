-------------------------- MODULE JjServiceProofs --------------------------
(***************************************************************************)
(* What is proved of JjService, for any clients, any mutations, any number *)
(* of retries and any number of operations: types and turn-taking, and     *)
(* that no lookup answers from before what was known when it began.        *)
(***************************************************************************)
EXTENDS JjService, TLAPS

\* Neither the caches nor the replies that may still enter them are older than
\* operation v, what a last attempt stored apart.
CacheSound(v) == /\ cached["log"] # None => cached["log"] >= v
                 /\ cached["diff"] # None /\ ~forced => cached["diff"] >= v

Sound(v) ==
    /\ CacheSound(v)
    /\ \A r \in Readers : reader[r].current /\ reader[r].at = "replied" => reader[r].seen >= v

\* What may become known is sound already: to the views what the last refresh
\* listed, to its caller what a mutation wrote whose caches are cleared.
KnownIsSound ==
    /\ Sound(told)
    /\ lastHeads # None => Sound(lastHeads)
    /\ \A m \in Mutations : mutation[m].at = "clearing" => Sound(mutation[m].wrote)

\* Nothing is known that is not recorded.
KnownIsRecorded ==
    /\ told <= op
    /\ lastHeads # None => lastHeads <= op
    /\ refresh.heads # None => refresh.heads <= op
    /\ \A m \in Mutations : mutation[m].wrote <= op

\* A call whose client knew of operation t at the latest.
CallOK(c, t) ==
    /\ c \in Reader
    /\ c.born <= t
    /\ c.at = "replied" => c.seen \in Ops /\ c.seen >= c.born
    /\ c.at = "reading" \/ c.reads > 1 => c.kind = "content"
    /\ c.at = "reading" \/ (c.at = "done" /\ c.kind # "content")
          => c.seen \in Ops /\ (c.forced \/ c.seen >= c.born)

CallsOK == \A r \in Readers : CallOK(reader[r], told)

Active(m) == mutation[m].at \in {"running", "committed", "clearing"}

\* The mutation at work heads the chain, and those that wait are on it.
Turns == \A m \in Mutations :
            /\ Active(m) => chain # <<>> /\ Head(chain) = m
            /\ mutation[m].at = "waiting" => \E i \in 1..Len(chain) : chain[i] = m

IInv == TypeOK /\ KnownIsSound /\ KnownIsRecorded /\ CallsOK /\ Turns

CacheTypes == /\ forced \in BOOLEAN /\ cached \in [Kinds -> Ops \cup {None, Torn}]
              /\ \A k \in {"log", "diff"} : cached[k] # Torn

\* Reader r goes on with a call that is in order and waits for no reply.
GoesOn(r) == \E c : /\ reader' = [reader EXCEPT ![r] = c]
                    /\ CallOK(c, told) /\ c.at # "replied"

-----------------------------------------------------------------------------
(* The steps that lookups are made of.                                     *)

LEMMA AnswerGoesOn ==
    ASSUME NEW r \in Readers, NEW call \in Reader, call.born <= told, call.kind = "content",
           NEW v \in Ops \cup {Torn}, Answer(r, call, v)
    PROVE  GoesOn(r)
<1> DEFINE c == [call EXCEPT !.at = "done", !.seen = v, !.current = FALSE]
<1>1. reader' = [reader EXCEPT ![r] = c]
  BY DEF Answer
<1>2. c \in Reader /\ c.born = call.born /\ c.at = "done" /\ c.kind = "content"
  BY DEF Reader
<1>3. CallOK(c, told)
  BY <1>2 DEF CallOK
<1> QED BY <1>1, <1>2, <1>3 DEF GoesOn

LEMMA ObtainGoesOn ==
    ASSUME NEW r \in Readers, NEW call \in Reader, call.born <= told,
           call.reads > 1 => call.kind = "content",
           NEW v \in Ops, call.forced \/ v >= call.born, Obtain(r, call, v)
    PROVE  GoesOn(r)
<1> DEFINE c == IF call.kind = "content"
                THEN [call EXCEPT !.at = "reading", !.seen = v, !.current = TRUE]
                ELSE [call EXCEPT !.at = "done", !.seen = v, !.current = FALSE]
<1>1. reader' = [reader EXCEPT ![r] = c]
  BY DEF Obtain, Answer
<1>2. /\ c \in Reader /\ c.born = call.born /\ c.forced = call.forced /\ c.seen = v
      /\ c.at = (IF call.kind = "content" THEN "reading" ELSE "done")
      /\ c.kind = call.kind /\ c.reads = call.reads
  BY DEF Reader
<1>3. CallOK(c, told) /\ c.at # "replied"
  BY <1>2 DEF CallOK
<1> HIDE DEF c
<1> QED BY <1>1, <1>3 DEF GoesOn

\* Whatever the cache answers is no older than what is known now, so none the
\* older for a client that began with less.
LEMMA LookupGoesOn ==
    ASSUME IInv, NEW r \in Readers, NEW call \in Reader, call.born <= told,
           call.reads > 1 => call.kind = "content", Lookup(r, call)
    PROVE  GoesOn(r)
<1> DEFINE k == LookupOf(call)
           c == [call EXCEPT !.forced = forced /\ call.kind # "log"]
           q == [call EXCEPT !.at = "querying", !.seen = 0, !.current = TRUE, !.forced = FALSE]
<1>0. forced \in BOOLEAN /\ told \in Ops /\ call.born \in Ops
  BY DEF IInv, TypeOK, Reader
<1>1. CASE cached[k] # None
  <2>1. cached[k] \in Ops
    BY <1>1 DEF IInv, TypeOK, LookupOf, Kinds
  <2>2. c \in Reader
    BY <1>0 DEF Reader
  <2>6. /\ c.born = call.born /\ c.forced = (forced /\ call.kind # "log")
        /\ c.kind = call.kind /\ c.reads = call.reads
    BY <1>0 DEF Reader
  <2>3. CacheSound(told)
    BY DEF IInv, KnownIsSound, Sound
  <2>4. c.forced \/ cached[k] >= c.born
    BY <1>0, <1>1, <2>1, <2>6, <2>3 DEF CacheSound, LookupOf, Ops
  <2>5. Obtain(r, c, cached[k])
    BY <1>1 DEF Lookup
  <2> HIDE DEF c, k
  <2> QED BY <2>1, <2>2, <2>4, <2>5, <2>6, ObtainGoesOn
<1>2. CASE cached[k] = None
  <2>1. reader' = [reader EXCEPT ![r] = q]
    BY <1>2 DEF Lookup
  <2>2. 0 \in Ops
    BY ServiceAssumption DEF Ops
  <2>3. q \in Reader
    BY <2>2 DEF Reader
  <2>4. /\ q.born = call.born /\ q.at = "querying"
        /\ q.kind = call.kind /\ q.reads = call.reads
    BY DEF Reader
  <2>5. CallOK(q, told)
    BY <2>3, <2>4 DEF CallOK
  <2> QED BY <2>1, <2>4, <2>5 DEF GoesOn
<1> QED BY <1>1, <1>2

\* A reader that goes on, with caches that stay as sound as they were, preserves
\* the invariant.
LEMMA GoingOn ==
    ASSUME IInv, NEW r \in Readers, GoesOn(r), CacheTypes',
           \A v \in Ops : Sound(v) => CacheSound(v)',
           UNCHANGED <<op, mutation, chain, repository, told>>
    PROVE  IInv'
<1> USE DEF repository
<1>1. PICK c : reader' = [reader EXCEPT ![r] = c] /\ CallOK(c, told) /\ c.at # "replied"
  BY DEF GoesOn
<1>2. reader \in [Readers -> Reader] /\ c \in Reader
  BY <1>1 DEF IInv, TypeOK, CallOK
<1>3. reader' \in [Readers -> Reader]
  BY <1>1, <1>2
<1>4. \A s \in Readers : reader'[s] = IF s = r THEN c ELSE reader[s]
  BY <1>1, <1>2
<1>5. \A v \in Ops : Sound(v) => Sound(v)'
  BY <1>1, <1>4 DEF Sound
<1>6. TypeOK'
  BY <1>3 DEF IInv, TypeOK, CacheTypes
<1>7. KnownIsSound'
  BY <1>5 DEF IInv, TypeOK, KnownIsSound, Mutation
<1>8. KnownIsRecorded'
  BY DEF IInv, KnownIsRecorded
<1>9. CallsOK'
  BY <1>1, <1>4 DEF IInv, CallsOK
<1>10. Turns'
  BY DEF IInv, Turns, Active
<1> QED BY <1>6, <1>7, <1>8, <1>9, <1>10 DEF IInv

LEMMA GoingOnUnchanged ==
    ASSUME IInv, NEW r \in Readers, GoesOn(r), UNCHANGED service,
           UNCHANGED <<op, mutation, chain, repository, told>>
    PROVE  IInv'
<1>1. CacheTypes'
  BY DEF IInv, TypeOK, CacheTypes, service
<1>2. \A v \in Ops : Sound(v) => CacheSound(v)'
  BY DEF Sound, CacheSound, service
<1> QED BY <1>1, <1>2, GoingOn

\* A text is of no account to the lookups.
LEMMA StoringContent ==
    ASSUME IInv, NEW r \in Readers, reader[r].kind = "content",
           NEW v \in Ops \cup {Torn}, StoreContent(r, v),
           UNCHANGED <<op, mutation, chain, repository, told>>
    PROVE  IInv'
<1>1. /\ cached \in [Kinds -> Ops \cup {None, Torn}]
      /\ cached' = [cached EXCEPT !["content"] = v] /\ forced' = forced
  BY DEF IInv, TypeOK, StoreContent
<1>2. CacheTypes'
  BY <1>1 DEF IInv, TypeOK, CacheTypes, Kinds
<1>3. cached'["log"] = cached["log"] /\ cached'["diff"] = cached["diff"]
  BY <1>1 DEF Kinds
<1>4. \A w \in Ops : Sound(w) => CacheSound(w)'
  BY <1>1, <1>3 DEF Sound, CacheSound
<1>5. reader[r] \in Reader /\ reader[r].born <= told
  BY DEF IInv, CallsOK, CallOK
<1>6. GoesOn(r)
  BY <1>5, AnswerGoesOn DEF StoreContent
<1> QED BY <1>2, <1>4, <1>6, GoingOn

-----------------------------------------------------------------------------
(* Clearing makes everything sound: what is cached is gone, and what is    *)
(* still in flight will not be cached.                                     *)

LEMMA ClearingIsSound ==
    ASSUME IInv, ClearCache
    PROVE  /\ CacheTypes' /\ reader' \in [Readers -> Reader]
           /\ \A v : Sound(v)'
           /\ \A r \in Readers : CallOK(reader'[r], told)
<1>1. /\ cached' = [k \in Kinds |-> None] /\ forced' = FALSE
      /\ reader' = [r \in Readers |-> [reader[r] EXCEPT !.current = FALSE]]
  BY DEF ClearCache
<1>2. CacheTypes' /\ \A v : CacheSound(v)'
  BY <1>1, ServiceAssumption DEF CacheTypes, CacheSound, Kinds
<1>3. ASSUME NEW r \in Readers
      PROVE  /\ reader'[r] \in Reader /\ ~reader'[r].current
             /\ CallOK(reader'[r], told)
  <2>1. reader[r] \in Reader /\ CallOK(reader[r], told)
    BY DEF IInv, CallsOK, CallOK
  <2>2. reader'[r] = [reader[r] EXCEPT !.current = FALSE]
    BY <1>1
  <2> QED BY <2>1, <2>2 DEF CallOK, Reader
<1>4. reader' \in [Readers -> Reader]
  BY <1>1, <1>3
<1>5. \A v : Sound(v)'
  BY <1>2, <1>3 DEF Sound
<1> QED BY <1>2, <1>3, <1>4, <1>5

-----------------------------------------------------------------------------
(* The lookups preserve the invariant.                                     *)

LEMMA StartReadStep ==
    ASSUME IInv, NEW r \in Readers, NEW kind \in Kinds, StartRead(r, kind)
    PROVE  IInv'
<1> DEFINE call == [reader[r] EXCEPT !.kind = kind, !.born = told, !.attempt = 0, !.reads = 1]
<1>1. told \in Ops /\ reader[r] \in Reader /\ cached["content"] \in Ops \cup {None, Torn}
  BY DEF IInv, TypeOK, Kinds
<1>2. call \in Reader /\ call.kind = kind /\ call.born <= told /\ ~(call.reads > 1)
  <2>1. [reader[r] EXCEPT !.kind = kind, !.born = told] \in Reader
    BY <1>1 DEF Reader
  <2>2. call \in Reader
    BY <2>1, 0 \in Nat, 1 \in 1..3 DEF Reader
  <2>3. call.born = told /\ call.kind = kind /\ call.reads = 1
    BY <1>1 DEF Reader
  <2> QED BY <1>1, <2>2, <2>3 DEF Ops
<1>3. UNCHANGED service /\ UNCHANGED <<op, mutation, chain, repository, told>>
  BY DEF StartRead
<1>4. \/ kind = "content" /\ cached["content"] # None /\ Answer(r, call, cached["content"])
      \/ Lookup(r, call)
  BY DEF StartRead
<1> HIDE DEF call
<1>5. GoesOn(r)
  BY <1>1, <1>2, <1>4, AnswerGoesOn, LookupGoesOn
<1> QED BY <1>3, <1>5, GoingOnUnchanged

\* The reply holds the head of the operation log, and nothing newer is known.
LEMMA QueryStep ==
    ASSUME IInv, NEW r \in Readers, Query(r)
    PROVE  IInv'
<1> DEFINE c == [reader[r] EXCEPT !.at = "replied", !.seen = op]
<1>1. /\ reader' = [reader EXCEPT ![r] = c]
      /\ UNCHANGED <<op, cached, forced, mutation, chain, refresh, lastHeads, told>>
  BY DEF Query, service, repository, IInv, TypeOK
<1>2. /\ op \in Ops /\ told \in Ops /\ told <= op
      /\ reader \in [Readers -> Reader] /\ reader[r] \in Reader /\ reader[r].born <= told
  BY DEF IInv, TypeOK, KnownIsRecorded, CallsOK, CallOK
<1>3. /\ c \in Reader /\ c.at = "replied" /\ c.seen = op /\ c.born = reader[r].born
      /\ c.kind = reader[r].kind /\ c.reads = reader[r].reads
  BY <1>2 DEF Reader
<1>4. c.seen >= c.born
  BY <1>2, <1>3 DEF Reader, Ops
<1>5. CallOK(c, told)
  BY <1>2, <1>3, <1>4 DEF CallOK, IInv, CallsOK
<1>6. reader' \in [Readers -> Reader] /\ \A s \in Readers : reader'[s] = IF s = r THEN c ELSE reader[s]
  BY <1>1, <1>2, <1>3
<1>7. ASSUME NEW v \in Ops, v <= op, Sound(v)
      PROVE  Sound(v)'
  <2>1. op >= v
    BY <1>2, <1>7 DEF Ops
  <2> QED BY <1>1, <1>3, <1>6, <1>7, <2>1 DEF Sound, CacheSound
<1>8. TypeOK'
  BY <1>1, <1>6 DEF IInv, TypeOK
<1>9. KnownIsSound'
  BY <1>1, <1>2, <1>7 DEF IInv, TypeOK, KnownIsSound, KnownIsRecorded, Mutation
<1>10. KnownIsRecorded' /\ Turns'
  BY <1>1 DEF IInv, KnownIsRecorded, Turns, Active
<1>11. CallsOK'
  BY <1>1, <1>5, <1>6 DEF IInv, CallsOK
<1> QED BY <1>8, <1>9, <1>10, <1>11 DEF IInv

LEMMA QueryFailsStep ==
    ASSUME IInv, NEW r \in Readers, QueryFails(r)
    PROVE  IInv'
<1> DEFINE c == [reader[r] EXCEPT !.at = "failed", !.current = FALSE]
<1>1. /\ reader[r] \in Reader /\ reader[r].born <= told
      /\ reader[r].reads > 1 => reader[r].kind = "content"
  BY DEF IInv, CallsOK, CallOK
<1>2. UNCHANGED <<op, mutation, chain, repository, told>>
  BY DEF QueryFails
<1>3. CASE reader[r].reads # 3
  <2>1. UNCHANGED service /\ reader' = [reader EXCEPT ![r] = c]
    BY <1>3 DEF QueryFails, IInv, TypeOK
  <2>2. /\ c \in Reader /\ c.born = reader[r].born /\ c.at = "failed"
        /\ c.kind = reader[r].kind /\ c.reads = reader[r].reads
    BY <1>1 DEF Reader
  <2>3. GoesOn(r)
    BY <1>1, <2>1, <2>2 DEF GoesOn, CallOK
  <2> QED BY <1>2, <2>1, <2>3, GoingOnUnchanged
<1>4. CASE reader[r].reads = 3
  <2>1. StoreContent(r, Torn) /\ reader[r].kind = "content"
    BY <1>1, <1>4 DEF QueryFails
  <2> QED BY <1>2, <2>1, StoringContent
<1> QED BY <1>3, <1>4

\* A reply that is kept is as sound as what is known now: it is current, or it is
\* the last attempt's, which the diff cache marks.
LEMMA KeepStep ==
    ASSUME IInv, NEW r \in Readers, reader[r].at = "replied",
           NEW call \in Reader, call.kind = reader[r].kind, call.born = reader[r].born,
           call.seen = reader[r].seen, call.reads = reader[r].reads, Keep(r, call),
           reader[r].current \/ (call.kind # "log" /\ call.forced),
           UNCHANGED <<op, mutation, chain, repository, told>>
    PROVE  IInv'
<1> DEFINE k == LookupOf(call)
<1>1. /\ call.seen \in Ops /\ call.seen >= call.born /\ call.born <= told
      /\ call.forced \in BOOLEAN /\ (call.reads > 1 => call.kind = "content")
  BY DEF IInv, CallsOK, CallOK, Reader
<1>2. /\ cached \in [Kinds -> Ops \cup {None, Torn}] /\ forced \in BOOLEAN
      /\ cached["log"] # Torn /\ cached["diff"] # Torn
  BY DEF IInv, TypeOK
<1>3. /\ cached' = [cached EXCEPT ![k] = call.seen]
      /\ forced' = IF call.kind = "log" THEN forced ELSE call.forced
      /\ Obtain(r, call, call.seen)
  BY DEF Keep
<1>4. k = IF call.kind = "log" THEN "log" ELSE "diff"
  BY DEF LookupOf
<1> HIDE DEF k
<1>5. /\ cached' \in [Kinds -> Ops \cup {None, Torn}]
      /\ cached'["log"] = IF k = "log" THEN call.seen ELSE cached["log"]
      /\ cached'["diff"] = IF k = "diff" THEN call.seen ELSE cached["diff"]
  BY <1>1, <1>2, <1>3, <1>4 DEF Kinds
<1>6. CacheTypes'
  BY <1>1, <1>2, <1>3, <1>5, ServiceAssumption DEF CacheTypes
<1>7. \A v \in Ops : Sound(v) => CacheSound(v)'
  BY <1>3, <1>4, <1>5 DEF Sound, CacheSound
<1>8. GoesOn(r)
  BY <1>1, <1>3, ObtainGoesOn
<1> QED BY <1>6, <1>7, <1>8, GoingOn

LEMMA ReplyStep ==
    ASSUME IInv, NEW r \in Readers, Reply(r)
    PROVE  IInv'
<1> DEFINE call == reader[r]
           last == [call EXCEPT !.forced = TRUE]
           next == [call EXCEPT !.attempt = @ + 1]
<1>1. /\ call \in Reader /\ call.born <= told /\ call.at = "replied"
      /\ call.seen \in Ops /\ call.seen >= call.born
      /\ call.reads > 1 => call.kind = "content"
      /\ UNCHANGED <<op, mutation, chain, repository, told>>
  BY DEF IInv, CallsOK, CallOK, Reply
<1>2. CASE call.current
  <2>1. Keep(r, call)
    BY <1>2 DEF Reply
  <2> QED BY <1>1, <1>2, <2>1, KeepStep
<1>3. CASE Keep(r, last) /\ call.kind # "log"
  <2>1. /\ last \in Reader /\ last.kind = call.kind /\ last.born = call.born
        /\ last.seen = call.seen /\ last.forced /\ last.reads = call.reads
    BY <1>1 DEF Reader
  <2> QED BY <1>1, <1>3, <2>1, KeepStep
<1>4. CASE Obtain(r, call, call.seen) /\ UNCHANGED service
  <2>1. GoesOn(r)
    BY <1>1, <1>4, ObtainGoesOn
  <2> QED BY <1>1, <1>4, <2>1, GoingOnUnchanged
<1>5. CASE Lookup(r, next) /\ UNCHANGED service
  <2>1. next \in Reader
    BY <1>1 DEF Reader
  <2>2. next.born = call.born /\ next.kind = call.kind /\ next.reads = call.reads
    BY <1>1 DEF Reader
  <2> HIDE DEF next
  <2>3. GoesOn(r)
    BY <1>1, <1>5, <2>1, <2>2, LookupGoesOn
  <2> QED BY <1>1, <1>5, <2>3, GoingOnUnchanged
<1> QED BY <1>2, <1>3, <1>4, <1>5 DEF Reply

LEMMA ReadFilesStep ==
    ASSUME IInv, NEW r \in Readers, ReadFiles(r)
    PROVE  IInv'
<1> DEFINE again == [reader[r] EXCEPT !.reads = @ + 1, !.attempt = 0]
<1>1. /\ reader[r] \in Reader /\ reader[r].born <= told /\ reader[r].at = "reading"
      /\ reader[r].kind = "content" /\ reader[r].seen \in Ops
      /\ UNCHANGED <<op, mutation, chain, repository, told>>
  BY DEF IInv, CallsOK, CallOK, ReadFiles
<1>2. CASE StoreContent(r, reader[r].seen) \/ StoreContent(r, Torn)
  BY <1>1, <1>2, StoringContent
<1>3. CASE reader[r].reads < 3 /\ Lookup(r, again) /\ UNCHANGED service
  <2>1. reader[r].reads + 1 \in 1..3
    BY <1>1, <1>3 DEF Reader
  <2>2. again \in Reader
    BY <1>1, <2>1 DEF Reader
  <2>3. again.born = reader[r].born /\ again.kind = "content"
    BY <1>1 DEF Reader
  <2> HIDE DEF again
  <2>4. GoesOn(r)
    BY <1>1, <1>3, <2>2, <2>3, LookupGoesOn
  <2> QED BY <1>1, <1>3, <2>4, GoingOnUnchanged
<1> QED BY <1>2, <1>3 DEF ReadFiles

LEMMA ReaderStepOK ==
    ASSUME IInv, NEW r \in Readers, ReaderStep(r)
    PROVE  IInv'
BY StartReadStep, QueryStep, QueryFailsStep, ReplyStep, ReadFilesStep DEF ReaderStep

-----------------------------------------------------------------------------
(* The mutations preserve the invariant.                                   *)

\* Steps that leave caches, lookups and what is known alone.
LEMMA Elsewhere ==
    ASSUME IInv, UNCHANGED <<service, reader, lastHeads, told>>, op' \in Ops, op' >= op,
           refresh' \in [stage : {"idle", "listing", "listed", "warming"}, heads : Ops \cup {None}],
           refresh'.heads # None => refresh'.heads <= op',
           mutation' \in [Mutations -> Mutation], chain' \in Seq(Mutations), Turns',
           \A m \in Mutations :
              /\ mutation'[m].wrote <= op'
              /\ mutation'[m].at = "clearing"
                    => mutation[m].at = "clearing" /\ mutation'[m].wrote = mutation[m].wrote
    PROVE  IInv'
<1>1. told \in Ops /\ op \in Ops /\ lastHeads \in Ops \cup {None} /\ told <= op
      /\ (lastHeads # None => lastHeads <= op)
  BY DEF IInv, TypeOK, KnownIsRecorded
<1>2. KnownIsRecorded'
  BY <1>1, ServiceAssumption DEF KnownIsRecorded, Ops
<1>3. \A v : Sound(v) => Sound(v)'
  BY DEF Sound, CacheSound, service
<1>4. KnownIsSound'
  BY <1>3 DEF IInv, KnownIsSound
<1>5. CallsOK'
  BY DEF IInv, CallsOK
<1>6. \A m, n \in Mutations : {mutation'[m].at, mutation'[n].at} \subseteq {"running", "committed", "clearing"} => m = n
  BY DEF Turns, Active
<1>7. TypeOK'
  BY <1>6 DEF IInv, TypeOK, service
<1> QED BY <1>2, <1>4, <1>5, <1>7 DEF IInv

\* A step of mutation m that takes it from one state to another.
LEMMA MoveTyped ==
    ASSUME IInv, NEW m \in Mutations, NEW s \in Mutation, mutation' = [mutation EXCEPT ![m] = s]
    PROVE  /\ mutation' \in [Mutations -> Mutation]
           /\ \A n \in Mutations : mutation'[n] = IF n = m THEN s ELSE mutation[n]
BY DEF IInv, TypeOK

LEMMA MutateStep ==
    ASSUME IInv, NEW m \in Mutations, Mutate(m)
    PROVE  IInv'
<1> DEFINE s == [mutation[m] EXCEPT !.at = "waiting"]
<1>1. /\ mutation \in [Mutations -> Mutation] /\ chain \in Seq(Mutations) /\ op \in Ops
      /\ mutation[m] \in Mutation /\ mutation[m].wrote <= op /\ Turns
  BY DEF IInv, TypeOK, KnownIsRecorded
<1>2. /\ mutation' = [mutation EXCEPT ![m] = s] /\ chain' = Append(chain, m)
      /\ UNCHANGED <<op, service, reader, refresh, lastHeads, told>>
  BY DEF Mutate, repository
<1>3. s \in Mutation /\ s.at = "waiting" /\ s.wrote = mutation[m].wrote
  BY <1>1 DEF Mutation
<1> HIDE DEF s
<1>4. /\ mutation' \in [Mutations -> Mutation]
      /\ \A n \in Mutations : mutation'[n] = IF n = m THEN s ELSE mutation[n]
  BY <1>2, <1>3, MoveTyped
<1>5. /\ chain' \in Seq(Mutations) /\ Len(chain') = Len(chain) + 1 /\ Len(chain) \in Nat
      /\ chain'[Len(chain) + 1] = m
      /\ \A i \in 1..Len(chain) : chain'[i] = chain[i]
  BY <1>1, <1>2
<1>6. chain' # <<>> /\ (chain # <<>> => Head(chain') = Head(chain))
  BY <1>1, <1>2
<1>7. Turns'
  BY <1>1, <1>3, <1>4, <1>5, <1>6 DEF Turns, Active
<1>8. refresh \in [stage : {"idle", "listing", "listed", "warming"}, heads : Ops \cup {None}]
      /\ (refresh.heads # None => refresh.heads <= op) /\ op >= op
      /\ \A n \in Mutations : mutation[n].wrote <= op
  BY <1>1 DEF IInv, TypeOK, KnownIsRecorded, Ops
<1> QED BY <1>1, <1>2, <1>3, <1>4, <1>5, <1>7, <1>8, Elsewhere

LEMMA BeginStep ==
    ASSUME IInv, NEW m \in Mutations, Begin(m)
    PROVE  IInv'
<1> DEFINE s == [mutation[m] EXCEPT !.at = "running"]
<1>1. /\ mutation \in [Mutations -> Mutation] /\ mutation[m] \in Mutation
      /\ Turns /\ chain \in Seq(Mutations) /\ op \in Ops /\ op >= op
      /\ refresh \in [stage : {"idle", "listing", "listed", "warming"}, heads : Ops \cup {None}]
      /\ (refresh.heads # None => refresh.heads <= op)
      /\ \A n \in Mutations : mutation[n].wrote <= op
  BY DEF IInv, TypeOK, KnownIsRecorded, Ops
<1>2. /\ mutation[m].at = "waiting" /\ Head(chain) = m
      /\ mutation' = [mutation EXCEPT ![m] = s]
      /\ UNCHANGED <<chain, op, service, reader, refresh, lastHeads, told>>
  BY DEF Begin, repository
<1>3. s \in Mutation /\ s.at = "running" /\ s.wrote = mutation[m].wrote
  BY <1>1 DEF Mutation
<1> HIDE DEF s
<1>4. /\ mutation' \in [Mutations -> Mutation]
      /\ \A n \in Mutations : mutation'[n] = IF n = m THEN s ELSE mutation[n]
  BY <1>2, <1>3, MoveTyped
<1>5. chain # <<>>
  BY <1>1, <1>2 DEF Turns
<1>6. Turns'
  BY <1>1, <1>2, <1>3, <1>4, <1>5 DEF Turns, Active
<1> QED BY <1>1, <1>2, <1>3, <1>4, <1>6, Elsewhere

LEMMA CommitStep ==
    ASSUME IInv, NEW m \in Mutations, Commit(m)
    PROVE  IInv'
<1> DEFINE s == IF mutation[m].at = "killed" THEN [at |-> "idle", wrote |-> 0]
                ELSE [at |-> "committed", wrote |-> op + 1]
<1>1. /\ mutation \in [Mutations -> Mutation] /\ mutation[m] \in Mutation
      /\ Turns /\ chain \in Seq(Mutations) /\ op \in Ops
      /\ refresh \in [stage : {"idle", "listing", "listed", "warming"}, heads : Ops \cup {None}]
      /\ (refresh.heads # None => refresh.heads <= op)
      /\ \A n \in Mutations : mutation[n].wrote <= op
  BY DEF IInv, TypeOK, KnownIsRecorded
<1>2. /\ mutation[m].at \in {"running", "killed"} /\ op < MaxOps /\ op' = op + 1
      /\ mutation' = [mutation EXCEPT ![m] = s]
      /\ UNCHANGED <<chain, service, reader, refresh, lastHeads, told>>
  BY DEF Commit, Record, BackToIdle, repository
<1>3. /\ op' \in Ops /\ op' >= op /\ 0 \in Ops
      /\ \A v \in Ops : v <= op => v <= op'
  BY <1>1, <1>2, ServiceAssumption DEF Ops
<1>4. /\ s \in Mutation /\ s.wrote <= op' /\ s.at \in {"idle", "committed"}
      /\ (s.at = "committed" => Active(m))
  BY <1>1, <1>2, <1>3 DEF Mutation, Active, Ops
<1> HIDE DEF s
<1>5. /\ mutation' \in [Mutations -> Mutation]
      /\ \A n \in Mutations : mutation'[n] = IF n = m THEN s ELSE mutation[n]
  BY <1>2, <1>4, MoveTyped
<1>6. Turns'
  BY <1>1, <1>2, <1>4, <1>5 DEF Turns, Active
<1>7. \A n \in Mutations : mutation'[n].wrote <= op'
  BY <1>1, <1>3, <1>4, <1>5 DEF Mutation
<1>8. refresh.heads # None => refresh.heads <= op'
  BY <1>1, <1>3
<1> QED BY <1>1, <1>2, <1>3, <1>4, <1>5, <1>6, <1>7, <1>8, Elsewhere

\* What a call that leaves the head of the chain does to the turns.
LEMMA Leaving ==
    ASSUME IInv, NEW m \in Mutations, Active(m), NEW s \in Mutation, s.at \in {"idle", "killed"},
           mutation' = [mutation EXCEPT ![m] = s], chain' = Tail(chain)
    PROVE  chain' \in Seq(Mutations) /\ Turns'
<1>1. /\ Turns /\ chain \in Seq(Mutations) /\ chain # <<>> /\ Head(chain) = m
      /\ \A n \in Mutations : Active(n) => n = m
  BY DEF IInv, TypeOK, Turns
<1>2. /\ chain' \in Seq(Mutations) /\ Len(chain') = Len(chain) - 1 /\ Len(chain) \in Nat
      /\ \A i \in 1..Len(chain') : chain'[i] = chain[i + 1]
      /\ chain[1] = m
  BY <1>1
<1>3. \A n \in Mutations : mutation'[n] = IF n = m THEN s ELSE mutation[n]
  BY MoveTyped
<1>4. ASSUME NEW n \in Mutations, mutation'[n].at = "waiting"
      PROVE  \E i \in 1..Len(chain') : chain'[i] = n
  <2>1. n # m /\ mutation[n].at = "waiting"
    BY <1>3, <1>4
  <2>2. PICK i \in 1..Len(chain) : chain[i] = n
    BY <1>1, <2>1 DEF Turns
  <2>3. i - 1 \in 1..Len(chain') /\ chain'[i - 1] = chain[i - 1 + 1] /\ i - 1 + 1 = i
    BY <1>2, <2>1, <2>2
  <2> QED BY <2>2, <2>3
<1>5. \A n \in Mutations : ~(mutation'[n].at \in {"running", "committed", "clearing"})
  BY <1>1, <1>3 DEF Active
<1> QED BY <1>2, <1>4, <1>5 DEF Turns, Active

LEMMA FailStep ==
    ASSUME IInv, NEW m \in Mutations, Fail(m)
    PROVE  IInv'
<1>1. /\ mutation \in [Mutations -> Mutation] /\ mutation[m] \in Mutation /\ op \in Ops /\ op >= op
      /\ refresh \in [stage : {"idle", "listing", "listed", "warming"}, heads : Ops \cup {None}]
      /\ (refresh.heads # None => refresh.heads <= op)
      /\ \A n \in Mutations : mutation[n].wrote <= op
  BY DEF IInv, TypeOK, KnownIsRecorded, Ops
<1>2. /\ Active(m) /\ chain' = Tail(chain)
      /\ UNCHANGED <<op, service, reader, refresh, lastHeads, told>>
  BY DEF Fail, Active, repository
<1>3. PICK s : mutation' = [mutation EXCEPT ![m] = s] /\ s \in {[at |-> "idle", wrote |-> 0],
                                                              [mutation[m] EXCEPT !.at = "killed"]}
  BY <1>1 DEF Fail, BackToIdle
<1>4. s \in Mutation /\ s.at \in {"idle", "killed"} /\ s.wrote <= op
  BY <1>1, <1>3, ServiceAssumption DEF Mutation, Ops
<1>5. /\ mutation' \in [Mutations -> Mutation]
      /\ \A n \in Mutations : mutation'[n] = IF n = m THEN s ELSE mutation[n]
  BY <1>3, <1>4, MoveTyped
<1>6. chain' \in Seq(Mutations) /\ Turns'
  BY <1>2, <1>3, <1>4, Leaving
<1>7. \A n \in Mutations : mutation'[n].wrote <= op
  BY <1>1, <1>4, <1>5
<1> QED BY <1>1, <1>2, <1>4, <1>5, <1>6, <1>7, Elsewhere

LEMMA DiesStep ==
    ASSUME IInv, NEW m \in Mutations, Dies(m)
    PROVE  IInv'
<1> DEFINE s == [at |-> "idle", wrote |-> 0]
<1>1. /\ mutation \in [Mutations -> Mutation] /\ chain \in Seq(Mutations) /\ op \in Ops /\ op >= op
      /\ refresh \in [stage : {"idle", "listing", "listed", "warming"}, heads : Ops \cup {None}]
      /\ (refresh.heads # None => refresh.heads <= op)
      /\ Turns /\ \A n \in Mutations : mutation[n].wrote <= op
  BY DEF IInv, TypeOK, KnownIsRecorded, Ops
<1>2. /\ mutation' = [mutation EXCEPT ![m] = s]
      /\ UNCHANGED <<chain, op, service, reader, refresh, lastHeads, told>>
  BY DEF Dies, BackToIdle, repository
<1>3. s \in Mutation /\ s.at = "idle" /\ s.wrote <= op
  BY <1>1, ServiceAssumption DEF Mutation, Ops
<1> HIDE DEF s
<1>4. /\ mutation' \in [Mutations -> Mutation]
      /\ \A n \in Mutations : mutation'[n] = IF n = m THEN s ELSE mutation[n]
  BY <1>2, <1>3, MoveTyped
<1>5. Turns'
  BY <1>1, <1>2, <1>3, <1>4 DEF Turns, Active
<1>6. \A n \in Mutations : mutation'[n].wrote <= op
  BY <1>1, <1>3, <1>4
<1> QED BY <1>1, <1>2, <1>3, <1>4, <1>5, <1>6, Elsewhere

\* The caches are cleared before what the mutation wrote becomes known.
LEMMA SucceedStep ==
    ASSUME IInv, NEW m \in Mutations, Succeed(m)
    PROVE  IInv'
<1> DEFINE s == [mutation[m] EXCEPT !.at = "clearing"]
<1>1. /\ mutation \in [Mutations -> Mutation] /\ mutation[m] \in Mutation
      /\ Turns /\ \A n \in Mutations : mutation[n].wrote <= op
  BY DEF IInv, TypeOK, KnownIsRecorded
<1>2. /\ Active(m) /\ ClearCache /\ mutation' = [mutation EXCEPT ![m] = s]
      /\ UNCHANGED <<op, chain, refresh, lastHeads, told>>
  BY DEF Succeed, Active, repository
<1>3. s \in Mutation /\ s.at = "clearing" /\ s.wrote = mutation[m].wrote
  BY <1>1 DEF Mutation
<1> HIDE DEF s
<1>4. /\ mutation' \in [Mutations -> Mutation]
      /\ \A n \in Mutations : mutation'[n] = IF n = m THEN s ELSE mutation[n]
  BY <1>2, <1>3, MoveTyped
<1>5. /\ CacheTypes' /\ reader' \in [Readers -> Reader]
      /\ \A v : Sound(v)'
      /\ \A r \in Readers : CallOK(reader'[r], told)
  BY <1>2, ClearingIsSound
<1>6. Turns'
  BY <1>1, <1>2, <1>3, <1>4 DEF Turns, Active
<1>7. TypeOK'
  <2>1. \A n, o \in Mutations : {mutation'[n].at, mutation'[o].at} \subseteq {"running", "committed", "clearing"} => n = o
    BY <1>6 DEF Turns, Active
  <2> QED BY <1>2, <1>4, <1>5, <2>1 DEF IInv, TypeOK, CacheTypes
<1>8. KnownIsRecorded' /\ KnownIsSound' /\ CallsOK'
  BY <1>1, <1>2, <1>3, <1>4, <1>5 DEF IInv, KnownIsRecorded, KnownIsSound, CallsOK
<1> QED BY <1>6, <1>7, <1>8 DEF IInv

\* More becomes known, but nothing that is not sound already.
LEMMA Telling ==
    ASSUME IInv, NEW v \in Ops, v <= op, Sound(v), told' = Newer(told, v),
           UNCHANGED <<cached, forced, reader>>
    PROVE  /\ told' \in Ops /\ told' <= op /\ Sound(told)' /\ CallsOK'
           /\ \A w : Sound(w) => Sound(w)'
<1>1. told \in Ops /\ told <= op /\ Sound(told) /\ CallsOK /\ reader \in [Readers -> Reader]
  BY DEF IInv, TypeOK, KnownIsSound, KnownIsRecorded
<1>2. told' \in Ops /\ told' <= op /\ Sound(told') /\ told' >= told
  BY <1>1 DEF Newer, Ops
<1>3. \A w : Sound(w) => Sound(w)'
  BY DEF Sound, CacheSound
<1>4. Sound(told)'
  BY <1>2 DEF Sound, CacheSound
<1>5. CallsOK'
  <2> SUFFICES ASSUME NEW r \in Readers PROVE CallOK(reader[r], told')
    BY DEF CallsOK
  <2>1. CallOK(reader[r], told) /\ reader[r].born \in Ops
    BY <1>1 DEF CallsOK, CallOK, Reader
  <2>2. reader[r].born <= told'
    BY <1>1, <1>2, <2>1 DEF CallOK, Ops
  <2> QED BY <2>1, <2>2 DEF CallOK
<1> QED BY <1>2, <1>3, <1>4, <1>5

LEMMA ReturnStep ==
    ASSUME IInv, NEW m \in Mutations, Return(m)
    PROVE  IInv'
<1> DEFINE s == [at |-> "idle", wrote |-> 0]
<1>1. /\ mutation \in [Mutations -> Mutation] /\ mutation[m] \in Mutation /\ op \in Ops
      /\ mutation[m].wrote \in Ops /\ \A n \in Mutations : mutation[n].wrote <= op
  BY DEF IInv, TypeOK, KnownIsRecorded, Mutation
<1>2. /\ mutation[m].at = "clearing" /\ Active(m) /\ chain' = Tail(chain)
      /\ mutation' = [mutation EXCEPT ![m] = s] /\ told' = Newer(told, mutation[m].wrote)
      /\ UNCHANGED <<op, cached, forced, reader, refresh, lastHeads>>
  BY DEF Return, Active, BackToIdle, service, repository
<1>3. s \in Mutation /\ s.at = "idle" /\ s.wrote <= op
  BY <1>1, ServiceAssumption DEF Mutation, Ops
<1> HIDE DEF s
<1>4. /\ mutation' \in [Mutations -> Mutation]
      /\ \A n \in Mutations : mutation'[n] = IF n = m THEN s ELSE mutation[n]
  BY <1>2, <1>3, MoveTyped
<1>5. chain' \in Seq(Mutations) /\ Turns'
  BY <1>2, <1>3, Leaving
<1>6. Sound(mutation[m].wrote)
  BY <1>2 DEF IInv, KnownIsSound
<1>7. told' \in Ops /\ told' <= op /\ Sound(told)' /\ CallsOK' /\ \A w : Sound(w) => Sound(w)'
  BY <1>1, <1>2, <1>6, Telling
<1>8. TypeOK'
  <2>1. \A n, o \in Mutations : {mutation'[n].at, mutation'[o].at} \subseteq {"running", "committed", "clearing"} => n = o
    BY <1>5 DEF Turns, Active
  <2> QED BY <1>2, <1>4, <1>5, <1>7, <2>1 DEF IInv, TypeOK
<1>9. KnownIsSound'
  BY <1>2, <1>3, <1>4, <1>7 DEF IInv, KnownIsSound
<1>10. KnownIsRecorded'
  BY <1>1, <1>2, <1>3, <1>4, <1>7 DEF IInv, KnownIsRecorded
<1> QED BY <1>5, <1>7, <1>8, <1>9, <1>10 DEF IInv

LEMMA MutationStepOK ==
    ASSUME IInv, NEW m \in Mutations, MutationStep(m)
    PROVE  IInv'
BY MutateStep, BeginStep, CommitStep, SucceedStep, ReturnStep, FailStep, DiesStep DEF MutationStep

-----------------------------------------------------------------------------
(* The repository and the refresh task preserve the invariant.             *)

LEMMA ExternalStep ==
    ASSUME IInv, ExternalOperation
    PROVE  IInv'
<1>1. /\ mutation \in [Mutations -> Mutation] /\ chain \in Seq(Mutations) /\ op \in Ops /\ Turns
      /\ refresh \in [stage : {"idle", "listing", "listed", "warming"}, heads : Ops \cup {None}]
      /\ (refresh.heads # None => refresh.heads <= op)
      /\ \A m \in Mutations : mutation[m].wrote <= op
  BY DEF IInv, TypeOK, KnownIsRecorded
<1>2. /\ op < MaxOps /\ op' = op + 1
      /\ UNCHANGED <<service, reader, mutation, chain, refresh, lastHeads, told>>
  BY DEF ExternalOperation, Record, repository
<1>3. op' \in Ops /\ op' >= op /\ \A v \in Ops : v <= op => v <= op'
  BY <1>1, <1>2, ServiceAssumption DEF Ops
<1>4. \A m \in Mutations : mutation[m].wrote <= op'
  BY <1>1, <1>3 DEF Mutation
<1>5. refresh.heads # None => refresh.heads <= op'
  BY <1>1, <1>3
<1>6. Turns'
  BY <1>1, <1>2 DEF Turns, Active
<1> QED BY <1>1, <1>2, <1>3, <1>4, <1>5, <1>6, Elsewhere

LEMMA RefreshStartsStep ==
    ASSUME IInv, RefreshStarts
    PROVE  IInv'
<1>1. /\ mutation \in [Mutations -> Mutation] /\ chain \in Seq(Mutations) /\ op \in Ops /\ Turns
      /\ \A m \in Mutations : mutation[m].wrote <= op
  BY DEF IInv, TypeOK, KnownIsRecorded
<1>2. /\ (op < MaxOps /\ op' = op + 1) \/ op' = op
      /\ refresh' = [stage |-> "listing", heads |-> None]
      /\ UNCHANGED <<service, reader, mutation, chain, lastHeads, told>>
  BY DEF RefreshStarts, Record, Proceed
<1>3. op' \in Ops /\ op' >= op /\ \A v \in Ops : v <= op => v <= op'
  BY <1>1, <1>2, ServiceAssumption DEF Ops
<1>4. \A m \in Mutations : mutation[m].wrote <= op'
  BY <1>1, <1>3 DEF Mutation
<1>5. /\ refresh' \in [stage : {"idle", "listing", "listed", "warming"}, heads : Ops \cup {None}]
      /\ refresh'.heads = None
  BY <1>2
<1>6. Turns'
  BY <1>1, <1>2 DEF Turns, Active
<1> QED BY <1>1, <1>2, <1>3, <1>4, <1>5, <1>6, Elsewhere

LEMMA ListHeadsStep ==
    ASSUME IInv, ListHeads
    PROVE  IInv'
<1>1. /\ mutation \in [Mutations -> Mutation] /\ chain \in Seq(Mutations) /\ op \in Ops /\ Turns
      /\ op >= op /\ \A m \in Mutations : mutation[m].wrote <= op
  BY DEF IInv, TypeOK, KnownIsRecorded, Ops
<1>2. UNCHANGED <<op, service, reader, mutation, chain, lastHeads, told>>
  BY DEF ListHeads
<1>3. PICK heads \in {op, None} : refresh' = [stage |-> "listed", heads |-> heads]
  BY DEF ListHeads
<1>4. /\ refresh' \in [stage : {"idle", "listing", "listed", "warming"}, heads : Ops \cup {None}]
      /\ (refresh'.heads # None => refresh'.heads <= op)
  BY <1>1, <1>3 DEF Ops
<1>5. Turns'
  BY <1>1, <1>2 DEF Turns, Active
<1> QED BY <1>1, <1>2, <1>4, <1>5, Elsewhere

\* Announcing heads that are sound preserves the invariant.
LEMMA Announcing ==
    ASSUME IInv, NEW v \in Ops, v <= op, Sound(v), lastHeads = v, lastHeads' = v,
           refresh' = [stage |-> "idle", heads |-> None], told' = Newer(told, v),
           UNCHANGED <<op, service, reader, mutation, chain>>
    PROVE  IInv'
<1>1. told' \in Ops /\ told' <= op /\ Sound(told)' /\ CallsOK' /\ \A w : Sound(w) => Sound(w)'
  BY Telling DEF service
<1>2. refresh' \in [stage : {"idle", "listing", "listed", "warming"}, heads : Ops \cup {None}]
      /\ refresh'.heads = None
  OBVIOUS
<1>3. TypeOK'
  BY <1>1, <1>2 DEF IInv, TypeOK, service
<1>4. KnownIsSound'
  BY <1>1 DEF IInv, KnownIsSound
<1>5. KnownIsRecorded'
  BY <1>1, <1>2 DEF IInv, KnownIsRecorded
<1>6. Turns'
  BY DEF IInv, Turns, Active
<1> QED BY <1>1, <1>3, <1>4, <1>5, <1>6 DEF IInv

\* The last heads are those of a time after which the caches were cleared.
LEMMA HeadsArriveStep ==
    ASSUME IInv, HeadsArrive
    PROVE  IInv'
<1>1. /\ refresh \in [stage : {"idle", "listing", "listed", "warming"}, heads : Ops \cup {None}]
      /\ (refresh.heads # None => refresh.heads <= op)
  BY DEF IInv, TypeOK, KnownIsRecorded
<1>2. CASE refresh.heads # None /\ refresh.heads = lastHeads
  <2>1. /\ lastHeads' = refresh.heads /\ refresh' = [stage |-> "idle", heads |-> None]
        /\ told' = Newer(told, refresh.heads)
        /\ UNCHANGED <<op, service, reader, mutation, chain>>
    BY <1>2 DEF HeadsArrive, Announce, Proceed
  <2>2. Sound(lastHeads)
    BY <1>2 DEF IInv, KnownIsSound
  <2> QED BY <1>1, <1>2, <2>1, <2>2, Announcing
<1>3. CASE refresh.heads = None \/ refresh.heads # lastHeads
  <2>1. /\ ClearCache /\ lastHeads' = refresh.heads
        /\ refresh' = [stage |-> "warming", heads |-> None]
        /\ UNCHANGED <<op, mutation, chain, told>>
    BY <1>3 DEF HeadsArrive, Proceed
  <2>2. /\ CacheTypes' /\ reader' \in [Readers -> Reader]
        /\ \A v : Sound(v)'
        /\ \A r \in Readers : CallOK(reader'[r], told)
    BY <2>1, ClearingIsSound
  <2>3. /\ refresh' \in [stage : {"idle", "listing", "listed", "warming"}, heads : Ops \cup {None}]
        /\ refresh'.heads = None
    BY <2>1
  <2>4. TypeOK'
    BY <1>1, <2>1, <2>2, <2>3 DEF IInv, TypeOK, CacheTypes
  <2>5. KnownIsSound' /\ CallsOK'
    BY <2>1, <2>2 DEF KnownIsSound, CallsOK
  <2>6. KnownIsRecorded' /\ Turns'
    BY <1>1, <2>1, <2>3 DEF IInv, KnownIsRecorded, Turns, Active
  <2> QED BY <2>4, <2>5, <2>6 DEF IInv
<1> QED BY <1>2, <1>3

LEMMA WarmedStep ==
    ASSUME IInv, Warmed
    PROVE  IInv'
<1>1. /\ refresh' = [stage |-> "idle", heads |-> None]
      /\ UNCHANGED <<op, service, reader, mutation, chain, lastHeads>>
      /\ told' = told \/ (lastHeads # None /\ told' = Newer(told, lastHeads))
  BY DEF Warmed, Announce, Proceed
<1>2. /\ mutation \in [Mutations -> Mutation] /\ chain \in Seq(Mutations) /\ op \in Ops /\ Turns
      /\ op >= op /\ \A m \in Mutations : mutation[m].wrote <= op
      /\ lastHeads \in Ops \cup {None} /\ (lastHeads # None => lastHeads <= op /\ Sound(lastHeads))
  BY DEF IInv, TypeOK, KnownIsSound, KnownIsRecorded, Ops
<1>3. CASE told' = told
  <2>1. /\ refresh' \in [stage : {"idle", "listing", "listed", "warming"}, heads : Ops \cup {None}]
        /\ refresh'.heads = None
    BY <1>1
  <2>2. Turns'
    BY <1>1, <1>2 DEF Turns, Active
  <2> QED BY <1>1, <1>2, <1>3, <2>1, <2>2, Elsewhere
<1>4. CASE lastHeads # None /\ told' = Newer(told, lastHeads)
  BY <1>1, <1>2, <1>4, Announcing
<1> QED BY <1>1, <1>3, <1>4

-----------------------------------------------------------------------------
(* The theorems.                                                           *)

LEMMA InitIInv == Init => IInv
<1> SUFFICES ASSUME Init PROVE IInv
  OBVIOUS
<1>1. 0 \in Ops /\ 0 <= 0 /\ 0 \in Nat /\ 1 \in 1..3
  BY ServiceAssumption DEF Ops
<1>2. /\ op = 0 /\ told = 0 /\ lastHeads = None /\ chain = <<>> /\ forced = FALSE
      /\ refresh = [stage |-> "idle", heads |-> None]
      /\ cached = [k \in Kinds |-> None]
      /\ mutation = [m \in Mutations |-> [at |-> "idle", wrote |-> 0]]
  BY DEF Init
<1>3. \A r \in Readers : /\ reader[r] \in Reader /\ reader[r].at = "idle"
                         /\ reader[r].born = 0 /\ reader[r].reads = 1
  BY <1>1 DEF Init, Reader, Kinds
<1>4. reader \in [Readers -> Reader]
  BY <1>3 DEF Init
<1>5. \A m \in Mutations : /\ mutation[m] \in Mutation /\ mutation[m].at = "idle"
                           /\ mutation[m].wrote = 0
  BY <1>1, <1>2 DEF Mutation
<1>6. cached["log"] = None /\ cached["diff"] = None /\ cached \in [Kinds -> Ops \cup {None, Torn}]
  BY <1>2 DEF Kinds
<1>7. TypeOK
  <2>1. \A m, n \in Mutations :
           {mutation[m].at, mutation[n].at} \subseteq {"running", "committed", "clearing"} => m = n
    BY <1>5
  <2>2. /\ chain \in Seq(Mutations) /\ mutation \in [Mutations -> Mutation]
        /\ refresh \in [stage : {"idle", "listing", "listed", "warming"}, heads : Ops \cup {None}]
    BY <1>2, <1>5
  <2>3. cached["log"] # Torn /\ cached["diff"] # Torn
    BY <1>6, ServiceAssumption
  <2> QED BY <1>1, <1>2, <1>4, <1>6, <2>1, <2>2, <2>3 DEF TypeOK
<1>8. KnownIsSound
  BY <1>2, <1>3, <1>5, <1>6 DEF KnownIsSound, Sound, CacheSound
<1>9. KnownIsRecorded
  BY <1>1, <1>2, <1>5 DEF KnownIsRecorded
<1>10. CallsOK
  <2>1. ~(1 > 1)
    OBVIOUS
  <2> QED BY <1>1, <1>2, <1>3, <2>1 DEF CallsOK, CallOK
<1>11. Turns
  BY <1>5 DEF Turns, Active
<1> QED BY <1>7, <1>8, <1>9, <1>10, <1>11 DEF IInv

LEMMA NextIInv == IInv /\ [Next]_vars => IInv'
<1> SUFFICES ASSUME IInv, [Next]_vars PROVE IInv'
  OBVIOUS
<1>1. CASE ExternalOperation
  BY <1>1, ExternalStep
<1>2. ASSUME NEW r \in Readers, ReaderStep(r) PROVE IInv'
  BY <1>2, ReaderStepOK
<1>3. ASSUME NEW m \in Mutations, MutationStep(m) PROVE IInv'
  BY <1>3, MutationStepOK
<1>4. CASE RefreshStep
  BY <1>4, RefreshStartsStep, ListHeadsStep, HeadsArriveStep, WarmedStep DEF RefreshStep
<1>5. CASE UNCHANGED vars
  BY <1>5 DEF vars, IInv, TypeOK, KnownIsSound, KnownIsRecorded, CallsOK, Turns, Active, Sound, CacheSound
<1> QED BY <1>1, <1>2, <1>3, <1>4, <1>5 DEF Next

\* Every variable keeps to its type, and the mutations take turns on the chain.
THEOREM ServiceTypeCorrect == Spec => []TypeOK
<1>1. IInv => TypeOK
  BY DEF IInv
<1> QED BY <1>1, InitIInv, NextIInv, PTL DEF Spec

\* No lookup through the log or diff cache answers from before what its client knew
\* when it called, but for what a last attempt stored, whatever the clients, the
\* mutations and the refreshes do in between.
THEOREM NothingOldIsServed == Spec => []ReadsAreCurrent
<1>1. IInv => ReadsAreCurrent
  BY DEF IInv, CallsOK, CallOK, ReadsAreCurrent
<1> QED BY <1>1, InitIInv, NextIInv, PTL DEF Spec
=============================================================================
