---------------------------- MODULE AsyncCache -----------------------------
(***************************************************************************)
(* src/utils/async-cache.ts on top of src/utils/lru-cache.ts: a cache of   *)
(* fetched values that coalesces the fetches of a key, drops what is       *)
(* fetched across an invalidation, retries, and after MaxRetries stores    *)
(* the value regardless.                                                   *)
(*                                                                         *)
(* A method is one action up to its first await; the continuation of each  *)
(* await is an action of its own.  A caller is one call of getOrFetch.     *)
(* The n-th fetch a caller starts is <<caller, n>>, and it names the value *)
(* that fetch produces; a write is one call of set() and names its value.  *)
(*                                                                         *)
(* clock, invalidated, born and evictions record history for the           *)
(* properties; no action reads them, but for the bound on clock.           *)
(***************************************************************************)
EXTENDS Integers, Sequences, FiniteSets, SequencesExt

CONSTANTS Keys,
          Callers, CallerKey,     \* the calls of getOrFetch, and their keys
          Writes, WriteKey,       \* the calls of set, and their keys
          MaxEntries,             \* options.maxEntries
          MaxRetries,             \* MAX_INVALIDATION_RETRIES
          Options,                \* the options a cache may be made with
          MaxInvalidations,       \* bound on clear(), delete() and set()
          None                    \* undefined

Fetches == Callers \X (0..MaxInvalidations)
Values  == Fetches \cup Writes
Entry   == [value : Values, fresh : BOOLEAN]

\* onEvict is given, keepStaleOnError, and the TTL is finite.
OptionSet == [hook : BOOLEAN, keepStale : BOOLEAN, expires : BOOLEAN]

InFlight == {"evicting", "fetching", "replacing"}
Discarded == {"discarding", "unstored"}
Settled == {"stored", "unstored", "failed"}
Fetch == [stage : InFlight \cup Discarded \cup Settled, epoch : Nat,
          replaces : Entry \cup {None}, force : BOOLEAN, born : Nat]
Call == [at : {"idle", "looking", "awaiting", "returned", "threw"},
         attempt : Nat, on : Values \cup {None}, born : Nat]

ASSUME CacheAssumption ==
    /\ CallerKey \in [Callers -> Keys] /\ WriteKey \in [Writes -> Keys]
    /\ MaxEntries \in Nat \ {0}
    /\ MaxRetries \in Nat /\ MaxInvalidations \in Nat
    /\ Options \subseteq OptionSet
    /\ None \notin Entry \cup Values \cup Fetch
    /\ Fetches \cap Writes = {}

VARIABLES options,       \* the constructor's
          entry,         \* _cache: each key's entry, or None
          recency,       \* _cache: its keys, least recently used first
          current,       \* _promises: the fetch calls of the key join, or None
          epoch,         \* _epoch
          fetch,         \* the fetches started so far
          call,          \* the calls of getOrFetch
          written,       \* the calls of set already made
          evictions,     \* how often the hook was called with each value
          clock,         \* how many invalidations there were
          invalidated    \* the clock of each key's last one

vars == <<options, entry, recency, current, epoch, fetch, call, written,
          evictions, clock, invalidated>>
lru == <<entry, recency>>
history == <<clock, invalidated>>

KeyOf(f) == CallerKey[f[1]]

Init == /\ options \in Options
        /\ entry = [k \in Keys |-> None]
        /\ recency = <<>>
        /\ current = [k \in Keys |-> None]
        /\ epoch = 0
        /\ fetch = [f \in Fetches |-> None]
        /\ call = [c \in Callers |-> [at |-> "idle", attempt |-> 0, on |-> None, born |-> 0]]
        /\ written = {}
        /\ evictions = [v \in Values |-> 0]
        /\ clock = 0
        /\ invalidated = [k \in Keys |-> 0]

-----------------------------------------------------------------------------
(* lru-cache.ts, and the hook.                                             *)

\* onEvict, for the values of S.
Evict(S) == evictions' = IF options.hook
                         THEN [v \in Values |-> evictions[v] + IF v \in S THEN 1 ELSE 0]
                         ELSE evictions

LruDelete(k) == /\ entry' = [entry EXCEPT ![k] = None]
                /\ recency' = RemoveFirst(recency, k)

LruTouch(k) == recency' = Append(RemoveFirst(recency, k), k)

\* The key LruCache.set(k) makes room by evicting.
Victim(k) == IF entry[k] = None /\ Len(recency) >= MaxEntries
             THEN {Head(recency)} ELSE {}

\* _store: LruCache.set, with the hook for the victim.
Store(k, v) ==
    /\ entry' = [x \in Keys |-> IF x = k THEN [value |-> v, fresh |-> TRUE]
                                ELSE IF x \in Victim(k) THEN None ELSE entry[x]]
    /\ recency' = Append(IF Victim(k) = {} THEN RemoveFirst(recency, k) ELSE Tail(recency), k)
    /\ Evict({entry[x].value : x \in Victim(k)})

\* The entry a Date.now() passes, or get() and has() find live.
Live(k) == entry[k] # None /\ entry[k].fresh

Expire(k) ==
    /\ options.expires
    /\ Live(k)
    /\ entry' = [entry EXCEPT ![k].fresh = FALSE]
    /\ UNCHANGED <<recency, current, epoch, fetch, call, written, evictions, history>>

-----------------------------------------------------------------------------
(* getOrFetch and _fetchAndStore.                                          *)

Await(c, f) == call' = [call EXCEPT ![c].at = "awaiting", ![c].on = f,
                    ![c].born = IF call[c].at = "idle" THEN invalidated[CallerKey[c]] ELSE @]
Return(c, v) == call' = [call EXCEPT ![c].at = "returned", ![c].on = v,
                    ![c].born = IF call[c].at = "idle" THEN invalidated[CallerKey[c]] ELSE @]

\* A call is made, or comes round its loop again.
MayLook(c) == call[c].at \in {"idle", "looking"}

JoinFetch(c) ==
    /\ MayLook(c)
    /\ current[CallerKey[c]] # None
    /\ Await(c, current[CallerKey[c]])
    /\ UNCHANGED <<lru, current, epoch, fetch, written, evictions, history>>

ReturnCached(c) ==
    /\ MayLook(c)
    /\ current[CallerKey[c]] = None
    /\ Live(CallerKey[c])
    /\ Return(c, entry[CallerKey[c]].value)
    /\ LruTouch(CallerKey[c])
    /\ UNCHANGED <<entry, current, epoch, fetch, written, evictions, history>>

StartFetchAlways(c) ==
    LET k == CallerKey[c]
        f == <<c, call[c].attempt>>
    IN  /\ MayLook(c)
        /\ ~Live(k)
        /\ UNCHANGED <<lru, evictions>>
        /\ fetch' = [fetch EXCEPT ![f] = [stage |-> "fetching", epoch |-> epoch, born |-> clock,
                         replaces |-> entry[k], force |-> call[c].attempt >= MaxRetries]]
        /\ current' = [current EXCEPT ![k] = f]
        /\ Await(c, f)
        /\ UNCHANGED <<epoch, written, history>>

\* An expired entry goes before the fetch, unless it is kept for a failure.
StartFetch(c) ==
    LET k == CallerKey[c]
        f == <<c, call[c].attempt>>
        drop == entry[k] # None /\ ~options.keepStale
    IN  /\ MayLook(c)
        /\ current[k] = None
        /\ ~Live(k)
        /\ IF drop THEN LruDelete(k) /\ Evict({entry[k].value})
                   ELSE UNCHANGED <<lru, evictions>>
        /\ fetch' = [fetch EXCEPT ![f] =
                        [stage |-> IF drop /\ options.hook THEN "evicting" ELSE "fetching",
                         epoch |-> epoch, replaces |-> entry[k], born |-> clock,
                         force |-> call[c].attempt >= MaxRetries]]
        /\ current' = [current EXCEPT ![k] = f]
        /\ Await(c, f)
        /\ UNCHANGED <<epoch, written, history>>

Move(f, stage) == fetch' = [fetch EXCEPT ![f].stage = stage]
In(f, stage) == fetch[f] # None /\ fetch[f].stage = stage

\* The hook awaited ahead of the fetcher is done.
ExpiredEvicted(f) ==
    /\ In(f, "evicting")
    /\ Move(f, "fetching")
    /\ UNCHANGED <<lru, current, epoch, call, written, evictions, history>>

StillCurrentAlways(f) == TRUE

\* stillCurrent, evaluated once, when the fetcher's value arrives.
StillCurrent(f) == current[KeyOf(f)] = f /\ epoch = fetch[f].epoch

\* The fetcher's value arrives and is stored, or first the hook is awaited for
\* the stale entry it replaces.
FetchCurrent(f) ==
    LET k == KeyOf(f)
    IN  /\ In(f, "fetching")
        /\ StillCurrent(f)
        /\ IF options.keepStale /\ options.hook /\ entry[k] # None /\ entry[k] = fetch[f].replaces
           THEN Move(f, "replacing") /\ Evict({entry[k].value}) /\ UNCHANGED lru
           ELSE Move(f, "stored") /\ Store(k, f)
        /\ UNCHANGED <<current, epoch, call, written, history>>

ReplacedEvicted(f) ==
    /\ In(f, "replacing")
    /\ Move(f, "stored")
    /\ Store(KeyOf(f), f)
    /\ UNCHANGED <<current, epoch, call, written, history>>

\* The value of an invalidated fetch: stored on the last attempt, if the key has none.
FetchForced(f) ==
    /\ In(f, "fetching")
    /\ ~StillCurrent(f)
    /\ fetch[f].force /\ entry[KeyOf(f)] = None
    /\ Move(f, "stored")
    /\ Store(KeyOf(f), f)
    /\ UNCHANGED <<current, epoch, call, written, history>>

FetchDiscardedKept(f) ==
    /\ In(f, "fetching")
    /\ ~StillCurrent(f)
    /\ ~(fetch[f].force /\ entry[KeyOf(f)] = None)
    /\ Move(f, "unstored")
    /\ UNCHANGED <<lru, current, epoch, call, written, evictions, history>>

FetchDiscarded(f) ==
    /\ In(f, "fetching")
    /\ ~StillCurrent(f)
    /\ ~(fetch[f].force /\ entry[KeyOf(f)] = None)
    /\ Move(f, IF options.hook THEN "discarding" ELSE "unstored")
    /\ Evict({f})
    /\ UNCHANGED <<lru, current, epoch, call, written, history>>

DiscardEvicted(f) ==
    /\ In(f, "discarding")
    /\ Move(f, "unstored")
    /\ UNCHANGED <<lru, current, epoch, call, written, evictions, history>>

\* The fetcher throws: what the key holds by now is deleted without the hook.
FetchFails(f) ==
    /\ In(f, "fetching")
    /\ Move(f, "failed")
    /\ IF fetch[f].replaces # None /\ ~options.keepStale
       THEN LruDelete(KeyOf(f)) ELSE UNCHANGED lru
    /\ UNCHANGED <<current, epoch, call, written, evictions, history>>

ResumeAwaitingSame(c) ==
    LET f == call[c].on
    IN  /\ call[c].at = "awaiting"
        /\ fetch[f].stage \in {"stored", "failed"}
        /\ IF f[1] = c /\ current[KeyOf(f)] = f
           THEN current' = [current EXCEPT ![KeyOf(f)] = None] ELSE UNCHANGED current
        /\ call' = [call EXCEPT ![c].at = IF fetch[f].stage = "stored" THEN "returned" ELSE "threw"]
        /\ UNCHANGED <<lru, epoch, fetch, written, evictions, history>>

\* The awaited promise is settled.  The caller that started the fetch resumes
\* first, and releases the key if the fetch still holds it.
Resume(c) ==
    LET f == call[c].on
        owner == f[1]
    IN  /\ call[c].at = "awaiting"
        /\ fetch[f].stage \in Settled
        /\ owner # c => call[owner].on # f \/ call[owner].at # "awaiting"
        /\ IF owner = c /\ current[KeyOf(f)] = f
           THEN current' = [current EXCEPT ![KeyOf(f)] = None] ELSE UNCHANGED current
        /\ call' = CASE fetch[f].stage = "stored" -> [call EXCEPT ![c].at = "returned"]
                     [] fetch[f].stage = "failed" -> [call EXCEPT ![c].at = "threw"]
                     [] OTHER -> [call EXCEPT ![c].at = "looking", ![c].attempt = @ + 1,
                                              ![c].on = None]
        /\ UNCHANGED <<lru, epoch, fetch, written, evictions, history>>

-----------------------------------------------------------------------------
(* The synchronous parts of set(), delete() and clear().                   *)

Invalidate(S) == /\ clock < MaxInvalidations
                 /\ clock' = clock + 1
                 /\ invalidated' = [k \in Keys |-> IF k \in S THEN clock + 1 ELSE invalidated[k]]

\* set(w): it replaces an entry of its key without calling the hook.
Set(w) ==
    /\ w \notin written
    /\ written' = written \cup {w}
    /\ current' = [current EXCEPT ![WriteKey[w]] = None]
    /\ Store(WriteKey[w], w)
    /\ Invalidate({WriteKey[w]})
    /\ UNCHANGED <<epoch, fetch, call>>

Delete(k) ==
    /\ current' = [current EXCEPT ![k] = None]
    /\ IF entry[k] = None THEN UNCHANGED <<lru, evictions>>
       ELSE LruDelete(k) /\ Evict({entry[k].value})
    /\ Invalidate({k})
    /\ UNCHANGED <<epoch, fetch, call, written>>

Clear ==
    /\ epoch' = epoch + 1
    /\ current' = [k \in Keys |-> None]
    /\ entry' = [k \in Keys |-> None]
    /\ recency' = <<>>
    /\ Evict({entry[k].value : k \in {x \in Keys : entry[x] # None}})
    /\ Invalidate(Keys)
    /\ UNCHANGED <<fetch, call, written>>

GetExpired(k) ==
    /\ entry[k] # None /\ ~Live(k)
    /\ ~options.keepStale
    /\ LruDelete(k)
    /\ UNCHANGED <<current, epoch, fetch, call, written, evictions, history>>

\* get() of a live entry refreshes its recency; peek, peekStale and has change nothing.
GetLive(k) ==
    /\ Live(k)
    /\ LruTouch(k)
    /\ UNCHANGED <<entry, current, epoch, fetch, call, written, evictions, history>>

FetchStep(f) == /\ UNCHANGED options
                /\ \/ ExpiredEvicted(f) \/ FetchCurrent(f) \/ ReplacedEvicted(f)
                   \/ FetchForced(f) \/ FetchDiscarded(f) \/ DiscardEvicted(f)
                   \/ FetchFails(f)

CallStep(c) == /\ UNCHANGED options
               /\ JoinFetch(c) \/ ReturnCached(c) \/ StartFetch(c) \/ Resume(c)

OtherStep == /\ UNCHANGED options
             /\ \/ \E w \in Writes : Set(w)
                \/ \E k \in Keys : Delete(k) \/ GetExpired(k) \/ GetLive(k) \/ Expire(k)
                \/ Clear

Next == \/ \E c \in Callers : CallStep(c)
        \/ \E f \in Fetches : FetchStep(f)
        \/ OtherStep

Spec == Init /\ [][Next]_vars

\* Fetchers and hooks settle, and a call that has been made goes on.
Fairness == /\ \A f \in Fetches : WF_vars(FetchStep(f))
            /\ \A c \in Callers : WF_vars(call[c].at # "idle" /\ CallStep(c))

FairSpec == Spec /\ Fairness

-----------------------------------------------------------------------------
Present == {k \in Keys : entry[k] # None}
Holds(k, v) == entry[k] # None /\ entry[k].value = v

\* Types, and the LRU cache's structure: the recency list is the Map's key
\* order, with each key present once and never more than MaxEntries.
TypeOK == /\ options \in Options
          /\ entry \in [Keys -> Entry \cup {None}]
          /\ recency \in Seq(Keys)
          /\ {recency[i] : i \in DOMAIN recency} = Present
          /\ Len(recency) = Cardinality(Present)
          /\ Len(recency) <= MaxEntries
          /\ current \in [Keys -> Fetches \cup {None}]
          /\ epoch \in Nat
          /\ fetch \in [Fetches -> Fetch \cup {None}]
          /\ call \in [Callers -> Call]
          /\ written \subseteq Writes
          /\ evictions \in [Values -> Nat]
          /\ clock \in Nat /\ invalidated \in [Keys -> Nat]

\* With keepStaleOnError and a hook, the hook is awaited for the entry about to be
\* replaced after the fetch was found current, and an invalidation during that
\* await goes unseen (async-cache.ts:137-142).  No user of the class combines the
\* two, and the properties this breaks exclude the combination.
Combined == options.hook /\ options.keepStale

\* No stale data comes back: what the cache holds was not fetched from before
\* the last clear(), delete() or set() of its key, save by a last-attempt store.
NoStaleResurrection ==
    ~Combined =>
    \A k \in Keys : \A f \in Fetches :
        Holds(k, f) => /\ KeyOf(f) = k
                       /\ fetch[f].born >= invalidated[k] \/ fetch[f].force

\* A caller sees the invalidations made before its call: it is never handed a
\* value fetched before one of them, joined fetches included.
ReturnedSinceCall ==
    ~Combined =>
    \A c \in Callers : \A f \in Fetches :
        call[c].at = "returned" /\ call[c].on = f =>
            fetch[f].stage = "stored" /\ (fetch[f].born >= call[c].born \/ fetch[f].force)

\* The hook never runs twice for a value, nor for one the cache still holds: it
\* deletes the temporary directory the entry names.
HookOnce ==
    ~Combined =>
    \A v \in Values : /\ evictions[v] <= 1
                      /\ \A k \in Keys : Holds(k, v) => evictions[v] = 0

\* Nothing leaks: each value fetched is in the cache or was given to the hook, as
\* _diffCache relies on.  Three ways to leak that it does not meet are excluded:
\* get() deletes an expired entry and set() replaces one without the hook, and a
\* value stored on the last attempt may be overwritten by a newer fetch.
NoLeak ==
    options.hook /\ ~options.expires =>
    \A f \in Fetches :
        /\ fetch[f] # None
        /\ \A w \in written : WriteKey[w] # KeyOf(f)
        /\ fetch[f].stage \in {"stored"} \cup Discarded
        /\ ~fetch[f].force
        => evictions[f] = 1 \/ Holds(KeyOf(f), f)

\* Concurrent lookups share a fetch: two in flight for a key are separated by
\* an invalidation.
OneFetchPerKey ==
    \A f, g \in Fetches :
        /\ f # g /\ KeyOf(f) = KeyOf(g)
        /\ fetch[f] # None /\ fetch[g] # None
        /\ fetch[f].stage \in InFlight /\ fetch[g].stage \in InFlight
        => fetch[f].born < invalidated[KeyOf(f)] \/ fetch[g].born < invalidated[KeyOf(f)]

\* A value given to set() is not lost to a fetch that was already in flight: it
\* goes by an invalidation, by expiry, or to make room for another key.  (Stated
\* for the forge caches' options: without keepStaleOnError the failure of a fetch
\* that found an expired entry deletes whatever the key holds by then.)
SetWins ==
    [][options.keepStale /\ ~Combined =>
       \A k \in Keys :
          Live(k) /\ entry[k].value \in Writes /\ entry'[k] # entry[k] =>
              \/ clock' > clock
              \/ entry'[k] = [entry[k] EXCEPT !.fresh = FALSE]
              \/ entry'[k] = None /\ \E x \in Keys : entry[x] = None /\ entry'[x] # None]_vars

\* Every lookup ends, whatever is invalidated while it waits.
EveryCallEnds ==
    \A c \in Callers :
        call[c].at \in {"looking", "awaiting"} ~> call[c].at \in {"returned", "threw"}

-----------------------------------------------------------------------------
(* What the run checks together. *)

\* Lookups share a fetch whenever they may, and never one from before an
\* invalidation they were told of; what it dropped does not come back.
FetchesAreShared == OneFetchPerKey /\ ReturnedSinceCall /\ NoStaleResurrection

\* A cache within its bounds gives each value it drops to the hook, once, and no
\* value it still holds.
DroppedOnce == TypeOK /\ HookOnce /\ NoLeak
=============================================================================
