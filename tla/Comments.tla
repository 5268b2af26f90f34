------------------------------ MODULE Comments ------------------------------
(***************************************************************************)
(* src/core/comments-manager.ts: the review comments shown for the focused *)
(* repository.  Events start loads; a load awaits jj and the forge, and a  *)
(* new one aborts it, after which it changes nothing more.  It is composed *)
(* with the CodeForge of the repository Served; the others have a provider *)
(* at all times.                                                           *)
(*                                                                         *)
(* A change has its comments at a version, which a reply raises.  A        *)
(* working copy stands for its commit: a checkout changes it.  The parent  *)
(* whose comments are shown in its stead is found in the same step.        *)
(* Absent values and the load in progress are {} or a set of one.          *)
(***************************************************************************)
EXTENDS CodeForge, FiniteSets

CONSTANTS Repos, Served,   \* the repositories, and the one whose forge is modelled
          Changes, RepoOf, \* the changes, and where they are
          Info,            \* those the forge has information of
          Anchor,          \* whose comments a working copy gets, {} or {change}
          MaxShows,        \* bound on explicit requests
          MaxReplies,      \* bound on replies
          MaxMoves         \* bound on changes of focus and working copies

ASSUME CommentsAssumption ==
    /\ Served \in Repos /\ None \notin Repos
    /\ RepoOf \in [Changes -> Repos]
    /\ Info \subseteq Changes
    /\ Anchor \in [Changes -> SUBSET Info]
    /\ \A c \in Changes : \A d, e \in Anchor[c] : d = e
    /\ MaxReplies \in Nat

VARIABLES focus,           \* the focused repository, or None
          wc,              \* the working copy of each
          owed,            \* the repositories whose status event is under way
          moves,           \* how often focus or working copies changed
          version,         \* of each change's comments, on the server
          load,            \* the load that is not aborted
          aborted,         \* the aborted ones that are not over, if that matters
          shows,           \* explicit requests so far
          explicit,        \* explicitChangeId
          lastWc,          \* lastWorkingCopyId
          shown,           \* the active change, its repository and threads
          seen,            \* the highest version shown of each change
          reply,           \* the reply being sent
          disposed,
          blemish          \* the last load failed, was not begun, or was cut short

commentVars == <<focus, wc, owed, moves, version, load, aborted, shows, explicit, lastWc,
                 shown, seen, reply, disposed, blemish>>
vars == <<forgeVars, commentVars>>

Loads == {"pull", "show", "refresh"}
ALoad(kind, repo, st, change) ==
    [kind |-> kind, repo |-> repo, stage |-> st, change |-> change, version |-> 0, n |-> shows]

HasProvider(r) == r # Served \/ active # None
Explicits == {l \in load \cup aborted : l.kind = "show"}     \* explicitLoadCount

Init == /\ ForgeInit
        /\ focus = Served
        /\ wc \in {w \in [Repos -> Changes] : \A r \in Repos : RepoOf[w[r]] = r}
        /\ owed = {} /\ moves = 0
        /\ version = [c \in Changes |-> 0]
        /\ load = {} /\ aborted = {} /\ shows = 0
        /\ explicit = {} /\ lastWc = {}
        /\ shown = {} /\ seen = [c \in Changes |-> 0]
        /\ reply = {} /\ disposed = FALSE
        /\ blemish = FALSE

-----------------------------------------------------------------------------
\* startNewLoad(): the one in progress is aborted.
Start(ls) == /\ load' = ls
             /\ aborted' = aborted \cup {l \in load : l.kind = "show" \/ l.stage = "resolve"}

\* clearThreads() and clearActiveChange().
Clear == shown' = {}

\* pullCommentsAutomatically() up to its first await.  An explicit load in
\* progress keeps it from doing anything.
Pull(r, clear) ==
    IF Explicits # {}
    THEN /\ UNCHANGED <<load, aborted>>
         /\ blemish' = TRUE
         /\ shown' = IF clear THEN {} ELSE shown
    ELSE /\ blemish' = FALSE
         /\ IF HasProvider(r)'
            THEN /\ Start({ALoad("pull", r, "log", {})})
                 /\ shown' = IF clear THEN {} ELSE shown
            ELSE Start({}) /\ Clear

\* loadCommentsForChange() up to its first await, for whatever repository is
\* focused by now.
Fetch(l, c) ==
    IF focus = None \/ ~HasProvider(focus)
    THEN load' = {} /\ blemish' = TRUE /\ UNCHANGED shown
    ELSE /\ load' = {[l EXCEPT !.stage = "fetch", !.change = {c}, !.repo = focus]}
         /\ shown' = {s \in shown : s.change = c}
         /\ UNCHANGED blemish

NothingQuietly == load' = {} /\ UNCHANGED <<shown, blemish>>

\* A load that finds no change to show comments of.
Nothing == load' = {} /\ Clear /\ UNCHANGED blemish

\* The focus changes: everything is cleared, and the new repository's comments
\* are pulled.
FocusChanges(r) ==
    /\ moves < MaxMoves /\ moves' = moves + 1
    /\ r # focus
    /\ focus' = r
    /\ explicit' = {} /\ lastWc' = {}
    /\ owed' = {}
    /\ UNCHANGED forgeVars
    /\ IF disposed THEN UNCHANGED <<load, aborted, shown, blemish>>
       ELSE IF r = None
       THEN Clear /\ blemish' = TRUE /\ UNCHANGED <<load, aborted>>
       ELSE Pull(r, TRUE)
    /\ UNCHANGED <<wc, version, shows, seen, reply, disposed>>

\* Another revision is checked out; the status event of the repository follows.
Checkout(r, c) ==
    /\ moves < MaxMoves /\ moves' = moves + 1
    /\ RepoOf[c] = r /\ c # wc[r]
    /\ wc' = [wc EXCEPT ![r] = c]
    /\ owed' = IF r = focus /\ ~disposed THEN owed \cup {r} ELSE owed
    /\ UNCHANGED <<forgeVars, focus, version, load, aborted, shows, explicit, lastWc, shown,
                   seen, reply, disposed, blemish>>

StatusChanges(r) ==
    /\ r \in owed
    /\ owed' = owed \ {r}
    /\ UNCHANGED forgeVars
    /\ Pull(r, FALSE)
    /\ UNCHANGED <<focus, wc, moves, version, shows, explicit, lastWc, seen, reply, disposed>>

\* CodeForge tells that its provider changed.
ForgeUpdates(step) ==
    /\ step
    /\ IF focus = Served /\ ~disposed /\ ~dead /\ active' # active THEN Pull(Served, FALSE)
       ELSE UNCHANGED <<load, aborted, shown, blemish>>
    /\ UNCHANGED <<focus, wc, owed, moves, version, shows, explicit, lastWc, seen, reply, disposed>>

\* The forge of a repository that was closed is disposed of and tells nobody.
ForgeGoes == ForgeDispose /\ UNCHANGED commentVars

-----------------------------------------------------------------------------
\* A pull has read the working copy: another one than last time ends the
\* explicit choice.
LogRead(l) ==
    /\ l.stage = "log"
    /\ explicit' = IF lastWc # {} /\ lastWc # {wc[l.repo]} THEN {} ELSE explicit
    /\ lastWc' = {wc[l.repo]}
    /\ \/ /\ explicit' # {}
          /\ load' = {[l EXCEPT !.stage = "resolve", !.change = explicit']}
          /\ UNCHANGED <<shown, blemish>>
       \/ /\ explicit' = {} /\ Anchor[wc[l.repo]] = {}
          /\ Nothing
       \/ /\ explicit' = {}
          /\ \E c \in Anchor[wc[l.repo]] : Fetch(l, c)
    /\ UNCHANGED <<forgeVars, focus, wc, owed, moves, version, aborted, shows, seen, reply, disposed>>

\* The change asked for was looked up in the repository the load began with.
Resolved(l) ==
    /\ l.stage = "resolve"
    /\ \E c \in l.change :
          /\ lastWc' = IF c = wc[l.repo] THEN {c} ELSE lastWc
          /\ IF c \in Info /\ RepoOf[c] = l.repo THEN Fetch(l, c) ELSE Nothing
    /\ UNCHANGED <<forgeVars, focus, wc, owed, moves, version, aborted, shows, explicit, seen,
                   reply, disposed>>

\* The server answers with the comments as they are.
Fetched(l) ==
    /\ l.stage = "fetch"
    /\ \E c \in l.change : load' = {[l EXCEPT !.stage = "drift", !.version = version[c]]}
    /\ UNCHANGED <<forgeVars, focus, wc, owed, moves, version, aborted, shows, explicit, lastWc,
                   shown, seen, reply, disposed, blemish>>

\* Their lines are adapted to the local text, and they are shown.
Drifted(l) ==
    /\ l.stage = "drift"
    /\ \E c \in l.change :
          /\ shown' = {[change |-> c, repo |-> l.repo, version |-> l.version]}
          /\ seen' = [seen EXCEPT ![c] = IF l.version > @ THEN l.version ELSE @]
    /\ load' = {}
    /\ UNCHANGED <<forgeVars, focus, wc, owed, moves, version, aborted, shows, explicit, lastWc,
                   reply, disposed, blemish>>

\* jj or the forge fails.  A pull that could not read the working copy has none
\* to compare with and asks again; any other lookup has no target then, and
\* without an answer the comments stay.
LoadFails(l) ==
    /\ \/ /\ l.stage = "log" /\ explicit # {}
          /\ load' = {[l EXCEPT !.stage = "resolve", !.change = explicit]}
          /\ UNCHANGED shown /\ blemish' = TRUE
       \/ /\ l.stage = "log" /\ explicit = {}
          /\ \E c \in Anchor[wc[l.repo]] : Fetch(l, c)
       \/ /\ \/ l.stage = "log" /\ explicit = {}
             \/ l.stage = "resolve"
          /\ load' = {} /\ Clear /\ blemish' = TRUE
       \/ /\ l.stage \in {"fetch", "drift"}
          /\ load' = {} /\ UNCHANGED shown /\ blemish' = TRUE
    /\ UNCHANGED <<forgeVars, focus, wc, owed, moves, version, aborted, shows, explicit, lastWc,
                   seen, reply, disposed>>

AbortedEndsShowing(l) ==
    /\ l \in aborted
    /\ aborted' = aborted \ {l}
    /\ IF l.stage = "drift" THEN \E c \in l.change : shown' = {[change |-> c, repo |-> l.repo, version |-> l.version]}
       ELSE UNCHANGED shown
    /\ UNCHANGED <<forgeVars, focus, wc, owed, moves, version, load, shows, explicit, lastWc, seen,
                   reply, disposed, blemish>>

AbortedEndsIfResolved(l) ==
    /\ l \in aborted /\ l.stage # "resolve"
    /\ aborted' = aborted \ {l}
    /\ UNCHANGED <<forgeVars, focus, wc, owed, moves, version, load, shows, explicit, lastWc, shown,
                   seen, reply, disposed, blemish>>

\* An aborted load comes to its end; a lookup still notes the working copy.
AbortedEnds(l) ==
    /\ l \in aborted
    /\ aborted' = aborted \ {l}
    /\ lastWc' = IF l.stage = "resolve" /\ l.change = {wc[l.repo]} THEN l.change ELSE lastWc
    /\ UNCHANGED <<forgeVars, focus, wc, owed, moves, version, load, shows, explicit, shown, seen,
                   reply, disposed, blemish>>

-----------------------------------------------------------------------------
\* showCommentsForChange().
Show(c) ==
    /\ shows < MaxShows /\ shows' = shows + 1
    /\ ~disposed
    /\ RepoOf[c] = focus
    /\ explicit' = {c}
    /\ IF HasProvider(focus)
       THEN Start({[ALoad("show", focus, "resolve", {c}) EXCEPT !.n = shows + 1]}) /\ blemish' = FALSE
       ELSE Start({}) /\ blemish' = TRUE
    /\ UNCHANGED <<forgeVars, focus, wc, owed, moves, version, lastWc, shown, seen, reply, disposed>>

\* replyToThread(), toggleResolveThread().
Reply == /\ reply = {} /\ shown # {} /\ ~disposed
         /\ \E s \in shown : version[s.change] < MaxReplies /\ reply' = {s.change}
         /\ UNCHANGED <<forgeVars, focus, wc, owed, moves, version, load, aborted, shows, explicit,
                        lastWc, shown, seen, disposed, blemish>>

\* It has arrived: refreshActiveChangeComments() loads what is shown by then,
\* and aborts any other load.
ReplyArrives ==
    /\ \E c \in reply : version' = [version EXCEPT ![c] = @ + 1]
    /\ reply' = {}
    /\ IF focus = None \/ shown = {}
       THEN UNCHANGED <<load, aborted, blemish>>
       ELSE \E s \in shown :
               IF HasProvider(focus)
               THEN /\ Start({ALoad("refresh", focus, "fetch", {s.change})})
                    /\ blemish' = (blemish \/ load # {})
               ELSE Start({}) /\ blemish' = TRUE
    /\ UNCHANGED <<forgeVars, focus, wc, owed, moves, shows, explicit, lastWc, shown, seen, disposed>>

ReplyFails == /\ reply # {} /\ reply' = {}
              /\ UNCHANGED <<forgeVars, focus, wc, owed, moves, version, load, aborted, shows,
                             explicit, lastWc, shown, seen, disposed, blemish>>

\* The threads go, but the active change stays: a reply under way still refreshes
\* its comments.
Dispose == /\ ~disposed
           /\ disposed' = TRUE
           /\ Start({})
           /\ owed' = {}
           /\ UNCHANGED <<forgeVars, focus, wc, moves, version, shows, explicit, lastWc, shown, seen,
                          reply, blemish>>

LoadSteps == \E l \in load : LogRead(l) \/ Resolved(l) \/ Fetched(l) \/ Drifted(l)

Next == \/ LoadSteps
        \/ \E l \in load : LoadFails(l)
        \/ \E l \in aborted : AbortedEnds(l)
        \/ \E r \in Repos \cup {None} : FocusChanges(r)
        \/ \E r \in Repos, c \in Changes : Checkout(r, c)
        \/ \E r \in Repos : StatusChanges(r)
        \/ \E c \in Changes : Show(c)
        \/ Reply \/ ReplyArrives \/ ReplyFails
        \/ \E p \in Providers \cup {None} : ForgeUpdates(Configure(p))
        \/ ForgeUpdates(Redetect) \/ ForgeUpdates(RemotesRead) \/ ForgeUpdates(DetectionFails)
        \/ ForgeUpdates(Detects) \/ ForgeGoes
        \/ Dispose

Spec == Init /\ [][Next]_vars

FairSpec == Spec /\ WF_vars(LoadSteps) /\ WF_vars(\E l \in aborted : AbortedEnds(l))

-----------------------------------------------------------------------------
\* The types of the changing parts.
TypeOK == /\ Cardinality(load) <= 1 /\ Cardinality(shown) <= 1
          /\ \A l \in load \cup aborted : l.kind \in Loads
          /\ explicit \subseteq Changes /\ lastWc \subseteq Changes
          /\ version \in [Changes -> 0..MaxReplies]

\* What a load should show now.
Wanted == IF focus = None \/ ~HasProvider(focus) THEN {}
          ELSE IF explicit # {} THEN explicit \cap Info
          ELSE Anchor[wc[focus]]

\* When no load and no event is under way, and the last load neither failed nor
\* was skipped or cut short by a reply's refresh, the comments shown are those of
\* the change that was asked for last, or of the present working copy.
SettledShowsWanted ==
    /\ TypeOK
    /\ load = {} /\ ~blemish /\ ~disposed /\ ~dead /\ focus \notin owed
          => {s.change : s \in shown} = Wanted /\ \A s \in shown : s.repo = focus

\* A load never replaces the comments of a change by older ones: one that was
\* superseded changes nothing.
NeverOlder == [][\A s \in shown' \ shown : s.version >= seen[s.change]]_vars

\* Explicit loads end, failing or superseded, and automatic pulls work again.
PullsResume == Explicits # {} ~> Explicits = {}

\* "Clear comments when active repository changes": none of another repository
\* stay or come after that.
CommentsFollowFocus == \A s \in shown : s.repo = focus
=============================================================================
