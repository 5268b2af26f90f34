----------------------------- MODULE JjService -----------------------------
(***************************************************************************)
(* src/core/jj-service.ts: the caches, the lookups that fill them and the  *)
(* chain of mutations, with the refresh task of src/core/jj-repository.ts  *)
(* that clears the caches when the operation log has advanced.             *)
(*                                                                         *)
(* The repository is external: op numbers its operations, and the version  *)
(* of anything read from it is the operation the jj process saw.  Lookups  *)
(* are of one revision and one file its diff touches, such as "@" and an   *)
(* edited file, by getLogEntry (log), by a lookup through an AsyncCache    *)
(* (diff: getDiffForRevision, getChanges) or by getDiffContent (content).  *)
(* What AsyncCache does inside, such as letting two lookups join a fetch,  *)
(* is left to its own module; the refreshes come one at a time, as the     *)
(* queue's module shows.                                                   *)
(*                                                                         *)
(* told, born and forced record history for the properties; no action      *)
(* reads them.                                                             *)
(***************************************************************************)
EXTENDS Integers, Sequences

CONSTANTS Readers,          \* clients of JjService, one call at a time each
          Mutations,        \* callers of mutating commands
          MaxRetries,       \* AsyncCache.MAX_INVALIDATION_RETRIES
          MaxOps,           \* bound on the operations
          None,             \* undefined
          Torn              \* contents that are no version's two sides

Ops == 0..MaxOps
Kinds == {"log", "diff", "content"}
Reader == [kind : Kinds,
           at : {"idle", "querying", "replied", "reading", "done", "failed"},
           current : BOOLEAN, seen : Ops \cup {Torn},
           attempt : Nat, reads : 1..3,
           born : Ops, forced : BOOLEAN]
Mutation == [at : {"idle", "waiting", "running", "committed", "clearing", "killed"},
             wrote : Ops]

ASSUME ServiceAssumption == /\ MaxRetries \in Nat /\ MaxOps \in Nat
                            /\ None \notin Ops /\ Torn \notin Ops \cup {None}

VARIABLES op,               \* the repository's operation head
          cached,           \* what each cache holds
          forced,           \* that of diff was stored on a lookup's last attempt
          reader,           \* the clients' calls
          mutation, chain,  \* the mutating calls; those on _mutationMutex
          refresh,          \* the refresh task's stage, and the heads it listed
          lastHeads,        \* _lastOpHeads
          told              \* the newest operation a caller or view was told of

vars == <<op, cached, forced, reader, mutation, chain, refresh, lastHeads, told>>
service == <<cached, forced>>
repository == <<refresh, lastHeads>>

Newer(a, b) == IF b > a THEN b ELSE a

Init == /\ op = 0
        /\ cached = [k \in Kinds |-> None] /\ forced = FALSE
        /\ reader = [r \in Readers |-> [kind |-> "log", at |-> "idle", current |-> FALSE,
                                        seen |-> 0, attempt |-> 0, reads |-> 1, born |-> 0, forced |-> FALSE]]
        /\ mutation = [m \in Mutations |-> [at |-> "idle", wrote |-> 0]]
        /\ chain = <<>>
        /\ refresh = [stage |-> "idle", heads |-> None]
        /\ lastHeads = None
        /\ told = 0

-----------------------------------------------------------------------------
(* The repository: jj processes, ours or somebody else's, record.          *)

Record == op < MaxOps /\ op' = op + 1

ExternalOperation == /\ Record
                     /\ UNCHANGED <<service, reader, mutation, chain, repository, told>>

-----------------------------------------------------------------------------
(* clearCache, and the lookups.                                            *)

\* The synchronous part of clearCache().  _cacheEpoch, and AsyncCache's _epoch, are
\* only compared with what a lookup captured when it began: current says of a
\* lookup in flight that they are the same.
ClearCache ==
    /\ cached' = [k \in Kinds |-> None] /\ forced' = FALSE
    /\ reader' = [r \in Readers |-> [reader[r] EXCEPT !.current = FALSE]]

\* The cache a call looks into.
LookupOf(call) == IF call.kind = "log" THEN "log" ELSE "diff"

Answer(r, call, v) ==
    reader' = [reader EXCEPT ![r] = [call EXCEPT !.at = "done", !.seen = v, !.current = FALSE]]

\* What a lookup does once it has a value: getDiffContent reads files under the
\* directory, the others return.
Obtain(r, call, v) ==
    IF call.kind = "content"
    THEN reader' = [reader EXCEPT ![r] = [call EXCEPT !.at = "reading", !.seen = v,
                                                      !.current = TRUE]]
    ELSE Answer(r, call, v)

\* The cache answers, or a jj process is started.
Lookup(r, call) ==
    IF cached[LookupOf(call)] # None
    THEN Obtain(r, [call EXCEPT !.forced = forced /\ call.kind # "log"], cached[LookupOf(call)])
    ELSE reader' = [reader EXCEPT ![r] = [call EXCEPT !.at = "querying", !.seen = 0,
                                                      !.current = TRUE, !.forced = FALSE]]

StartRead(r, kind) ==
    LET call == [reader[r] EXCEPT !.kind = kind, !.born = told, !.attempt = 0, !.reads = 1]
    IN  /\ reader[r].at \in {"idle", "done", "failed"}
        /\ IF kind = "content" /\ cached["content"] # None
           THEN Answer(r, call, cached["content"])
           ELSE Lookup(r, call)
        /\ UNCHANGED <<op, service, mutation, chain, repository, told>>

\* The jj process of a lookup reads the repository, at its operation head.
Query(r) ==
    /\ reader[r].at = "querying"
    /\ reader' = [reader EXCEPT ![r].at = "replied", ![r].seen = op]
    /\ UNCHANGED <<op, service, mutation, chain, repository, told>>

\* getDiffContent stores what it read and returns it.
StoreContent(r, v) ==
    /\ cached' = [cached EXCEPT !["content"] = v] /\ UNCHANGED forced
    /\ Answer(r, reader[r], v)

\* ... or fails.  In the fallback of getDiffContent the failure is swallowed.
QueryFails(r) ==
    /\ reader[r].at = "querying"
    /\ IF reader[r].reads = 3 THEN StoreContent(r, Torn)
       ELSE /\ reader' = [reader EXCEPT ![r].at = "failed", ![r].current = FALSE]
            /\ UNCHANGED service
    /\ UNCHANGED <<op, mutation, chain, repository, told>>

\* What comes of a reply: it is kept in the cache, or only returned.
Keep(r, call) ==
    /\ cached' = [cached EXCEPT ![LookupOf(call)] = call.seen]
    /\ forced' = IF call.kind = "log" THEN forced ELSE call.forced
    /\ Obtain(r, call, call.seen)

ReplyStoring(r) ==
    /\ reader[r].at = "replied"
    /\ Keep(r, reader[r])
    /\ UNCHANGED <<op, mutation, chain, repository, told>>

ReplyLookingAgain(r) ==
    LET call == reader[r]
    IN  /\ call.at = "replied"
        /\ IF call.current THEN Keep(r, call)
           ELSE Lookup(r, [call EXCEPT !.attempt = 0]) /\ UNCHANGED service
        /\ UNCHANGED <<op, mutation, chain, repository, told>>

\* The reply arrives.  It is cached if the cache was not cleared since the lookup
\* began.  If it was, getLog returns the reply all the same, and AsyncCache looks
\* again, but for a last attempt that finds the cache empty.
Reply(r) ==
    LET call  == reader[r]
        force == call.kind # "log" /\ call.attempt >= MaxRetries /\ cached["diff"] = None
    IN  /\ call.at = "replied"
        /\ CASE call.current -> Keep(r, call)
             [] ~call.current /\ force -> Keep(r, [call EXCEPT !.forced = TRUE])
             [] ~call.current /\ call.kind = "log" -> Obtain(r, call, call.seen) /\ UNCHANGED service
             [] OTHER -> Lookup(r, [call EXCEPT !.attempt = @ + 1]) /\ UNCHANGED service
        /\ UNCHANGED <<op, mutation, chain, repository, told>>

\* The hook of the diff cache may be removing the directory a reader was given.
Evicted(r) == ~reader[r].current

\* getDiffContent, and getDiffBinaryContent likewise, reads both sides: whole, or
\* torn by the removal, or neither is there any more and the lookup is repeated
\* once; after that getFileContent is asked, and its text returned as both sides.
ReadFiles(r) ==
    LET missing == /\ Evicted(r) /\ reader[r].reads < 3
                   /\ Lookup(r, [reader[r] EXCEPT !.reads = @ + 1, !.attempt = 0])
                   /\ UNCHANGED service
    IN  /\ reader[r].at = "reading"
        /\ \/ reader[r].reads < 3 /\ StoreContent(r, reader[r].seen)
           \/ reader[r].reads < 3 /\ Evicted(r) /\ StoreContent(r, Torn)
           \/ missing
           \/ reader[r].reads = 3 /\ StoreContent(r, Torn)
        /\ UNCHANGED <<op, mutation, chain, repository, told>>

ReaderStep(r) == \/ \E kind \in Kinds : StartRead(r, kind)
                 \/ Query(r) \/ QueryFails(r) \/ Reply(r) \/ ReadFiles(r)

-----------------------------------------------------------------------------
(* JjService: runMutation and execTracked.                                 *)

Mutate(m) ==
    /\ mutation[m].at = "idle"
    /\ mutation' = [mutation EXCEPT ![m].at = "waiting"]
    /\ chain' = Append(chain, m)
    /\ UNCHANGED <<op, service, reader, repository, told>>

\* The operation's turn on the chain comes, and its process is started.
Begin(m) ==
    /\ mutation[m].at = "waiting"
    /\ Head(chain) = m
    /\ mutation' = [mutation EXCEPT ![m].at = "running"]
    /\ UNCHANGED <<chain, op, service, reader, repository, told>>

BackToIdle(m) == mutation' = [mutation EXCEPT ![m] = [at |-> "idle", wrote |-> 0]]

\* The jj process records its operation; one that was killed may still do so.
Commit(m) ==
    /\ mutation[m].at \in {"running", "killed"}
    /\ Record
    /\ IF mutation[m].at = "killed" THEN BackToIdle(m)
       ELSE mutation' = [mutation EXCEPT ![m] = [at |-> "committed", wrote |-> op + 1]]
    /\ UNCHANGED <<chain, service, reader, repository, told>>

\* The process ends well, with an operation or with nothing to change.
Succeed(m) ==
    /\ mutation[m].at \in {"running", "committed"}
    /\ ClearCache
    /\ mutation' = [mutation EXCEPT ![m].at = "clearing"]
    /\ UNCHANGED <<op, chain, repository, told>>

\* The hooks of clearCache() are done: the call returns, the next one may run.
Return(m) ==
    /\ mutation[m].at = "clearing"
    /\ BackToIdle(m)
    /\ chain' = Tail(chain)
    /\ told' = Newer(told, mutation[m].wrote)
    /\ UNCHANGED <<op, service, reader, repository>>

\* The process fails, or its timeout kills it: the caches stay, the chain goes on.
Fail(m) ==
    /\ mutation[m].at \in {"running", "committed"}
    /\ \/ BackToIdle(m)
       \/ mutation[m].at = "running" /\ mutation' = [mutation EXCEPT ![m].at = "killed"]
    /\ chain' = Tail(chain)
    /\ UNCHANGED <<op, service, reader, repository, told>>

Dies(m) ==
    /\ mutation[m].at = "killed"
    /\ BackToIdle(m)
    /\ UNCHANGED <<chain, op, service, reader, repository, told>>

MutationStep(m) == \/ Mutate(m) \/ Begin(m) \/ Commit(m) \/ Succeed(m) \/ Return(m)
                   \/ Fail(m) \/ Dies(m)

-----------------------------------------------------------------------------
(* JjRepository: the refresh task.  The queue starts it at any time, as it *)
(* does for the change detection and for the commands that call refresh(). *)

Proceed(stage) == refresh' = [stage |-> stage, heads |-> None]

\* A forced refresh first has jj record the working copy, which it does if there
\* was an edit and the process does not fail.
RefreshStarts ==
    /\ refresh.stage = "idle"
    /\ Proceed("listing")
    /\ Record \/ UNCHANGED op
    /\ UNCHANGED <<service, reader, mutation, chain, lastHeads, told>>

\* getOperationHeads reads the op heads store, or fails.
ListHeads ==
    /\ refresh.stage = "listing"
    /\ \E heads \in {op, None} : refresh' = [stage |-> "listed", heads |-> heads]
    /\ UNCHANGED <<op, service, reader, mutation, chain, lastHeads, told>>

\* onDidStatusChange is fired: the listeners may take what was listed for granted.
Announce(heads) == /\ Proceed("idle")
                   /\ told' = IF heads = None THEN told ELSE Newer(told, heads)

\* The caches are cleared if the heads differ from those of the last refresh.
HeadsArrive ==
    LET changed == refresh.heads = None \/ refresh.heads # lastHeads
    IN  /\ refresh.stage = "listed"
        /\ lastHeads' = refresh.heads
        /\ IF changed THEN ClearCache /\ Proceed("warming") /\ UNCHANGED told
                      ELSE Announce(refresh.heads) /\ UNCHANGED <<service, reader>>
        /\ UNCHANGED <<op, mutation, chain>>

\* The hooks of clearCache() are done and getRepoRoot() has answered, or failed.
Warmed ==
    /\ refresh.stage = "warming"
    /\ \/ Announce(lastHeads)
       \/ Proceed("idle") /\ UNCHANGED told
    /\ UNCHANGED <<op, service, reader, mutation, chain, lastHeads>>

RefreshStep == RefreshStarts \/ ListHeads \/ HeadsArrive \/ Warmed

Next == \/ ExternalOperation
        \/ \E r \in Readers : ReaderStep(r)
        \/ \E m \in Mutations : MutationStep(m)
        \/ RefreshStep

Spec == Init /\ [][Next]_vars

\* Processes end or are abandoned at their timeout, and files are read.
Fairness == \A r \in Readers : WF_vars(Query(r) \/ QueryFails(r) \/ Reply(r) \/ ReadFiles(r))

FairSpec == Spec /\ Fairness

-----------------------------------------------------------------------------
\* Types, and that the mutations take turns: one at a time is between its start
\* and its return (a killed one may still be dying beside it).
TypeOK ==
    /\ op \in Ops /\ told \in Ops
    /\ forced \in BOOLEAN /\ cached \in [Kinds -> Ops \cup {None, Torn}]
    /\ \A k \in {"log", "diff"} : cached[k] # Torn
    /\ reader \in [Readers -> Reader]
    /\ mutation \in [Mutations -> Mutation]
    /\ chain \in Seq(Mutations)
    /\ \A m, n \in Mutations :
          {mutation[m].at, mutation[n].at} \subseteq {"running", "committed", "clearing"} => m = n
    /\ refresh \in [stage : {"idle", "listing", "listed", "warming"}, heads : Ops \cup {None}]
    /\ lastHeads \in Ops \cup {None}

\* Nobody is answered from before what was known: a lookup that begins after a
\* mutation has returned, or after the views were told of a refresh, sees at least
\* that operation; so does the directory getDiffContent reads.  (AsyncCache gives
\* up on this for what it stores after MaxRetries invalidations of one lookup.)
ReadsAreCurrent ==
    \A r \in Readers :
        /\ \/ reader[r].kind # "content" /\ reader[r].at = "done"
           \/ reader[r].at = "reading"
        /\ ~reader[r].forced
        => reader[r].seen >= reader[r].born

\* The same of getDiffContent itself, a text torn by the removal of the directory
\* apart.  jj-repository-refresh.test.ts, "a refresh that snapshots a working-copy
\* edit invalidates the diff cache", expects it.
ContentIsCurrent ==
    \A r \in Readers :
        reader[r].kind = "content" /\ reader[r].at = "done" /\ reader[r].seen # Torn
            => reader[r].seen >= reader[r].born

\* A lookup ends, however often the caches are cleared while it is in progress.
LookupsEnd ==
    \A r \in Readers : reader[r].at \in {"querying", "replied", "reading"}
                           ~> reader[r].at \in {"done", "failed"}
=============================================================================
