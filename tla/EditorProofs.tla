---------------------------- MODULE EditorProofs ----------------------------
(***************************************************************************)
(* Theorems about what the editor shows: the comments of a change, with    *)
(* the code forge they come from, and the document of the merge editor.    *)
(* They hold for any repositories, changes, providers, texts and bounds.   *)
(***************************************************************************)
EXTENDS Comments, DiffProofs

ForgeActions == \/ \E p \in Providers \cup {None} : Configure(p)
                \/ Redetect \/ RemotesRead \/ DetectionFails \/ Detects \/ ForgeDispose

\* Every step of the whole is one of the forge, or leaves the forge alone.
LEMMA ForgeSteps == Next => ForgeActions \/ UNCHANGED forgeVars
  BY DEF Next, ForgeActions, LoadSteps, LogRead, Resolved, Fetched, Drifted, LoadFails, AbortedEnds,
         FocusChanges, Checkout, StatusChanges, Show, Reply, ReplyArrives, ReplyFails, ForgeUpdates,
         ForgeGoes, Dispose

-----------------------------------------------------------------------------
(* One provider at work: a detection replaces the provider it found active,  *)
(* and nothing but dispose() changes that one meanwhile.                     *)

ForgeInv == ~dead => /\ on = {active} \ {None}
                     /\ heard = active
                     /\ stage = "ask" => prev = active

LEMMA ForgeInvInductive == ForgeInv /\ [Next]_vars => ForgeInv'
<1> SUFFICES ASSUME ForgeInv, ForgeActions \/ UNCHANGED forgeVars
             PROVE  ForgeInv'
  BY ForgeSteps DEF vars
<1>1. CASE UNCHANGED forgeVars
  BY <1>1 DEF ForgeInv, forgeVars
<1>2. ASSUME NEW p \in Providers \cup {None}, Configure(p)
      PROVE  ForgeInv'
  BY <1>2 DEF ForgeInv, Configure, Detect
<1>3. CASE Redetect
  BY <1>3 DEF ForgeInv, Redetect, Detect
<1>4. CASE RemotesRead
  BY <1>4 DEF ForgeInv, RemotesRead
<1>5. CASE DetectionFails
  BY <1>5 DEF ForgeInv, DetectionFails, Rest
<1>6. CASE Detects
  <2> SUFFICES ASSUME NEW p, Detected(p), stage = "ask"
               PROVE  ForgeInv'
    BY <1>6 DEF Detects
  <2>1. CASE p = prev
    BY <2>1 DEF ForgeInv, Detected, Rest
  <2>2. CASE p # prev
    BY <2>2 DEF ForgeInv, Detected, Rest
  <2> QED BY <2>1, <2>2
<1>7. CASE ForgeDispose
  BY <1>7 DEF ForgeInv, ForgeDispose
<1> QED BY <1>1, <1>2, <1>3, <1>4, <1>5, <1>6, <1>7 DEF ForgeActions

\* While a service lives, the provider it names is the only one activated and
\* the one it listens to (doDetectActiveProvider, dispose).
THEOREM ProviderAtWork == Spec => []OneProviderAtWork
<1>1. Init => ForgeInv
  BY DEF Init, ForgeInit, ForgeInv
<1>2. ForgeInv => OneProviderAtWork
  BY DEF ForgeInv, OneProviderAtWork
<1> QED BY <1>1, <1>2, ForgeInvInductive, PTL DEF Spec

-----------------------------------------------------------------------------
(* Comments never get older: a load that has fetched them is no older than   *)
(* what was shown, as only one load can show anything.                       *)

AtMostOne == {cs \in SUBSET Changes : \A c, d \in cs : c = d}

LoadType == [kind : Loads, repo : Repos, stage : {"log", "resolve", "fetch", "drift"},
             change : AtMostOne, version : Nat, n : Nat]

Typed == /\ focus \in Repos \cup {None}
         /\ wc \in [Repos -> Changes]
         /\ owed \subseteq Repos
         /\ version \in [Changes -> Nat]
         /\ load \subseteq LoadType
         /\ shows \in Nat
         /\ explicit \in AtMostOne
         /\ shown \subseteq [change : Changes, repo : Repos, version : Nat]
         /\ seen \in [Changes -> Nat]
         /\ reply \subseteq Changes

InOrder == /\ \A c \in Changes : seen[c] <= version[c]
           /\ \A l \in load : l.stage = "drift" =>
                 \A c \in l.change : seen[c] <= l.version /\ l.version <= version[c]

CommentsInv == Typed /\ InOrder

LEMMA FreshLoad ==
  ASSUME NEW kind \in Loads, NEW r \in Repos, NEW st \in {"log", "resolve", "fetch"},
         NEW cs \in AtMostOne, NEW n \in Nat, shows \in Nat
  PROVE  /\ ALoad(kind, r, st, cs) \in LoadType
         /\ ALoad(kind, r, st, cs).stage # "drift"
         /\ [ALoad(kind, r, st, cs) EXCEPT !.n = n] \in LoadType
         /\ [ALoad(kind, r, st, cs) EXCEPT !.n = n].stage # "drift"
  BY DEF ALoad, LoadType

\* A step that begins at most a fresh load, and shows nothing new.
Harmless == /\ Typed'
            /\ \A l \in load' : l.stage = "drift" => l \in load
            /\ shown' \subseteq shown
            /\ UNCHANGED <<version, seen>>

LEMMA HarmlessKeeps == CommentsInv /\ Harmless => CommentsInv' /\ \A s \in shown' \ shown : FALSE
  BY DEF CommentsInv, Harmless, InOrder, Typed

LEMMA PullHarmless ==
  ASSUME Typed, NEW r \in Repos, NEW clear \in BOOLEAN, Pull(r, clear)
  PROVE  /\ load' \subseteq LoadType
         /\ \A l \in load' : l.stage = "drift" => l \in load
         /\ shown' \subseteq shown
<1>1. /\ ALoad("pull", r, "log", {}) \in LoadType
      /\ ALoad("pull", r, "log", {}).stage # "drift"
  BY DEF Typed, ALoad, LoadType, Loads, AtMostOne
<1>2. CASE Explicits # {}
  BY <1>2 DEF Pull, Typed
<1>3. CASE ~(Explicits # {})
  BY <1>1, <1>3 DEF Pull, Start, Clear, Typed
<1> QED BY <1>2, <1>3

LEMMA FetchHarmless ==
  ASSUME Typed, NEW l \in load, NEW c \in Changes, Fetch(l, c)
  PROVE  /\ load' \subseteq LoadType
         /\ \A k \in load' : k.stage # "drift"
         /\ shown' \subseteq shown
<1>1. CASE focus = None \/ ~HasProvider(focus)
  BY <1>1 DEF Fetch, Typed
<1>2. CASE ~(focus = None \/ ~HasProvider(focus))
  <2>1. focus \in Repos /\ l \in LoadType
    BY <1>2 DEF Typed
  <2>2. /\ [l EXCEPT !.stage = "fetch", !.change = {c}, !.repo = focus] \in LoadType
        /\ [l EXCEPT !.stage = "fetch", !.change = {c}, !.repo = focus].stage # "drift"
    BY <2>1 DEF LoadType, AtMostOne
  <2> QED BY <1>2, <2>2 DEF Fetch, Typed
<1> QED BY <1>1, <1>2

Rising == /\ CommentsInv'
          /\ \A s \in shown' \ shown : s.version >= seen[s.change]

LEMMA LogReadStep == ASSUME CommentsInv, NEW l \in load, LogRead(l) PROVE Rising
<1> USE DEF CommentsInv
<1>1. l \in LoadType /\ wc[l.repo] \in Changes /\ explicit' \in AtMostOne
  BY DEF Typed, LoadType, LogRead, AtMostOne
<1>2. /\ load' \subseteq LoadType
      /\ \A k \in load' : k.stage # "drift"
      /\ shown' \subseteq shown
  <2>1. CASE load' = {[l EXCEPT !.stage = "resolve", !.change = explicit']} /\ UNCHANGED shown
    <3>1. /\ [l EXCEPT !.stage = "resolve", !.change = explicit'] \in LoadType
          /\ [l EXCEPT !.stage = "resolve", !.change = explicit'].stage # "drift"
      BY <1>1 DEF LoadType
    <3> QED BY <2>1, <3>1
  <2>2. CASE Nothing
    BY <2>2 DEF Nothing, Clear
  <2>3. ASSUME NEW c \in Anchor[wc[l.repo]], Fetch(l, c)
        PROVE  /\ load' \subseteq LoadType
               /\ \A k \in load' : k.stage # "drift"
               /\ shown' \subseteq shown
    BY <1>1, <2>3, FetchHarmless, CommentsAssumption
  <2> QED BY <2>1, <2>2, <2>3 DEF LogRead
<1>3. Harmless
  BY <1>1, <1>2 DEF LogRead, Harmless, Typed
<1> QED BY <1>3, HarmlessKeeps DEF Rising

LEMMA ResolvedStep == ASSUME CommentsInv, NEW l \in load, Resolved(l) PROVE Rising
<1> USE DEF CommentsInv
<1>1. PICK c \in l.change : IF c \in Info /\ RepoOf[c] = l.repo THEN Fetch(l, c) ELSE Nothing
  BY DEF Resolved
<1>2. c \in Changes
  BY DEF Typed, LoadType, AtMostOne
<1>3. /\ load' \subseteq LoadType
      /\ \A k \in load' : k.stage # "drift"
      /\ shown' \subseteq shown
  <2>1. CASE Fetch(l, c)
    BY <1>2, <2>1, FetchHarmless
  <2>2. CASE Nothing
    BY <2>2 DEF Nothing, Clear
  <2> QED BY <1>1, <2>1, <2>2
<1>4. Harmless
  BY <1>3 DEF Resolved, Harmless, Typed
<1> QED BY <1>4, HarmlessKeeps DEF Rising

LEMMA FetchedStep == ASSUME CommentsInv, NEW l \in load, Fetched(l) PROVE Rising
<1> USE DEF CommentsInv
<1>1. PICK c \in l.change : load' = {[l EXCEPT !.stage = "drift", !.version = version[c]]}
  BY DEF Fetched
<1>2. l \in LoadType /\ c \in Changes /\ l.change = {c}
  BY DEF Typed, LoadType, AtMostOne
<1>3. load' \subseteq LoadType
  <2>1. version[c] \in Nat
    BY <1>2 DEF Typed
  <2> QED BY <1>1, <1>2, <2>1 DEF LoadType
<1>4. \A k \in load' : k.change = {c} /\ k.version = version[c]
  BY <1>1, <1>2 DEF LoadType
<1>5. Typed'
  BY <1>3 DEF Fetched, Typed
<1>6. InOrder'
  BY <1>2, <1>4 DEF Fetched, InOrder, Typed
<1> QED BY <1>5, <1>6 DEF Fetched, Rising

LEMMA DriftedStep == ASSUME CommentsInv, NEW l \in load, Drifted(l) PROVE Rising
<1> USE DEF CommentsInv
<1>1. PICK c \in l.change :
        /\ shown' = {[change |-> c, repo |-> l.repo, version |-> l.version]}
        /\ seen' = [seen EXCEPT ![c] = IF l.version > @ THEN l.version ELSE @]
  BY DEF Drifted
<1>2. l \in LoadType /\ c \in Changes
  BY DEF Typed, LoadType, AtMostOne
<1>3. seen[c] <= l.version /\ l.version <= version[c]
  BY DEF Drifted, InOrder
<1>4. [change |-> c, repo |-> l.repo, version |-> l.version]
          \in [change : Changes, repo : Repos, version : Nat]
  BY <1>2 DEF LoadType
<1>5. Typed'
  BY <1>1, <1>2, <1>4 DEF Drifted, Typed, LoadType
<1>6. \A d \in Changes : seen'[d] <= version[d]
  BY <1>1, <1>2, <1>3 DEF Typed, InOrder, LoadType
<1>7. InOrder'
  BY <1>6 DEF Drifted, InOrder
<1>8. \A s \in shown' : s.version >= seen[s.change]
  BY <1>1, <1>2, <1>3 DEF LoadType, Typed
<1> QED BY <1>5, <1>7, <1>8 DEF Rising

LEMMA LoadFailsStep == ASSUME CommentsInv, NEW l \in load, LoadFails(l) PROVE Rising
<1> USE DEF CommentsInv
<1>1. /\ [l EXCEPT !.stage = "resolve", !.change = explicit] \in LoadType
      /\ [l EXCEPT !.stage = "resolve", !.change = explicit].stage # "drift"
  BY DEF Typed, LoadType
<1>2. /\ load' \subseteq LoadType
      /\ \A k \in load' : k.stage # "drift"
      /\ shown' \subseteq shown
  <2>1. ASSUME NEW c \in Anchor[wc[l.repo]], Fetch(l, c)
        PROVE  /\ load' \subseteq LoadType
               /\ \A k \in load' : k.stage # "drift"
               /\ shown' \subseteq shown
    <3>1. wc[l.repo] \in Changes
      BY DEF Typed, LoadType
    <3> QED BY <3>1, <2>1, FetchHarmless, CommentsAssumption
  <2>2. CASE \/ /\ load' = {[l EXCEPT !.stage = "resolve", !.change = explicit]}
                /\ UNCHANGED shown
             \/ load' = {} /\ Clear
             \/ load' = {} /\ UNCHANGED shown
    BY <1>1, <2>2 DEF Clear
  <2> QED BY <2>1, <2>2 DEF LoadFails
<1>3. Harmless
  BY <1>2 DEF LoadFails, Harmless, Typed
<1> QED BY <1>3, HarmlessKeeps DEF Rising

\* What the focus, the repositories and the forge do starts pulls at most.
LEMMA EventStep ==
  ASSUME CommentsInv,
         \/ \E r \in Repos \cup {None} : FocusChanges(r)
         \/ \E r \in Repos, c \in Changes : Checkout(r, c)
         \/ \E r \in Repos : StatusChanges(r)
         \/ \E step \in BOOLEAN : ForgeUpdates(step)
         \/ ForgeGoes
         \/ \E l \in aborted : AbortedEnds(l)
  PROVE  Rising
<1> USE DEF CommentsInv
<1>1. ASSUME NEW r \in Repos \cup {None}, FocusChanges(r)
      PROVE  Harmless
  <2>1. /\ load' \subseteq LoadType
        /\ \A l \in load' : l.stage = "drift" => l \in load
        /\ shown' \subseteq shown
    <3>1. CASE disposed \/ r = None
      BY <1>1, <3>1 DEF FocusChanges, Clear, Typed
    <3>2. CASE ~(disposed \/ r = None)
      BY <1>1, <3>2, PullHarmless DEF FocusChanges
    <3> QED BY <3>1, <3>2
  <2> QED BY <1>1, <2>1 DEF FocusChanges, Harmless, Typed, AtMostOne
<1>2. ASSUME NEW r \in Repos, NEW c \in Changes, Checkout(r, c)
      PROVE  Harmless
  BY <1>2 DEF Checkout, Harmless, Typed
<1>3. ASSUME NEW r \in Repos, StatusChanges(r)
      PROVE  Harmless
  BY <1>3, PullHarmless DEF StatusChanges, Harmless, Typed
<1>4. ASSUME NEW step \in BOOLEAN, ForgeUpdates(step)
      PROVE  Harmless
  <2>1. CASE UNCHANGED <<load, aborted, shown, blemish>>
    BY <1>4, <2>1 DEF ForgeUpdates, Harmless, Typed
  <2>2. CASE Pull(Served, FALSE)
    <3>1. /\ load' \subseteq LoadType
          /\ \A l \in load' : l.stage = "drift" => l \in load
          /\ shown' \subseteq shown
      BY <2>2, PullHarmless, CommentsAssumption
    <3> QED BY <1>4, <3>1 DEF ForgeUpdates, Harmless, Typed
  <2> QED BY <1>4, <2>1, <2>2 DEF ForgeUpdates
<1>5. ASSUME ForgeGoes PROVE Harmless
  BY <1>5 DEF ForgeGoes, commentVars, Harmless, Typed
<1>6. ASSUME NEW l \in aborted, AbortedEnds(l)
      PROVE  Harmless
  BY <1>6 DEF AbortedEnds, Harmless, Typed
<1> QED BY <1>1, <1>2, <1>3, <1>4, <1>5, <1>6, HarmlessKeeps DEF Rising

\* What the user does.
LEMMA UserStep ==
  ASSUME CommentsInv,
         \/ \E c \in Changes : Show(c)
         \/ Reply \/ ReplyArrives \/ ReplyFails \/ Dispose
  PROVE  Rising
<1> USE DEF CommentsInv
<1>1. ASSUME NEW c \in Changes, Show(c)
      PROVE  Harmless
  <2>1. focus \in Repos /\ {c} \in AtMostOne /\ shows + 1 \in Nat
    BY <1>1, CommentsAssumption DEF Show, Typed, AtMostOne
  <2>2. /\ [ALoad("show", focus, "resolve", {c}) EXCEPT !.n = shows + 1] \in LoadType
        /\ [ALoad("show", focus, "resolve", {c}) EXCEPT !.n = shows + 1].stage # "drift"
    BY <2>1 DEF ALoad, LoadType, Loads, Typed
  <2>3. load' \subseteq LoadType /\ \A l \in load' : l.stage # "drift"
    BY <1>1, <2>2 DEF Show, Start
  <2> QED BY <1>1, <2>1, <2>3 DEF Show, Harmless, Typed
<1>2. ASSUME Reply PROVE Harmless
  BY <1>2 DEF Reply, Harmless, Typed
<1>3. ASSUME ReplyFails PROVE Harmless
  BY <1>3 DEF ReplyFails, Harmless, Typed
<1>4. ASSUME Dispose PROVE Harmless
  BY <1>4 DEF Dispose, Start, Clear, Harmless, Typed
<1>5. CASE ReplyArrives
  <2>1. PICK c \in reply : version' = [version EXCEPT ![c] = @ + 1]
    BY <1>5 DEF ReplyArrives
  <2>2. /\ load' \subseteq LoadType
        /\ \A l \in load' : l.stage = "drift" => l \in load
    <3>1. CASE focus = None \/ shown = {}
      BY <1>5, <3>1 DEF ReplyArrives, Typed
    <3>2. CASE ~(focus = None \/ shown = {})
      <4>1. PICK s \in shown :
              IF HasProvider(focus)
              THEN Start({ALoad("refresh", focus, "fetch", {s.change})})
              ELSE Start({})
        BY <1>5, <3>2 DEF ReplyArrives
      <4>2. focus \in Repos /\ s.change \in Changes
        BY <3>2 DEF Typed
      <4>3. /\ ALoad("refresh", focus, "fetch", {s.change}) \in LoadType
            /\ ALoad("refresh", focus, "fetch", {s.change}).stage # "drift"
        BY <4>2 DEF ALoad, LoadType, Loads, Typed, AtMostOne
      <4> QED BY <4>1, <4>3 DEF Start
    <3> QED BY <3>1, <3>2
  <2>3. Typed'
    BY <1>5, <2>1, <2>2 DEF ReplyArrives, Typed
  <2>4. /\ \A d \in Changes : version'[d] \in Nat /\ version[d] <= version'[d]
        /\ seen' = seen /\ shown' = shown
    BY <1>5, <2>1 DEF ReplyArrives, Typed
  <2>5. InOrder'
    <3>1. \A d \in Changes : seen'[d] <= version'[d]
      BY <2>4 DEF InOrder, Typed
    <3>2. ASSUME NEW l \in load', l.stage = "drift", NEW d \in l.change
          PROVE  seen'[d] <= l.version /\ l.version <= version'[d]
      <4>1. l \in load /\ d \in Changes /\ l.version \in Nat
        BY <2>2, <3>2 DEF LoadType, AtMostOne, Typed
      <4> QED BY <2>4, <3>2, <4>1 DEF InOrder, Typed
    <3> QED BY <3>1, <3>2 DEF InOrder
  <2> QED BY <2>3, <2>4, <2>5 DEF Rising
<1> QED BY <1>1, <1>2, <1>3, <1>4, <1>5, HarmlessKeeps DEF Rising

LEMMA ForgeStepIsUpdate ==
  ASSUME NEW A, ForgeUpdates(A) PROVE \E step \in BOOLEAN : ForgeUpdates(step)
  BY DEF ForgeUpdates

LEMMA CommentsStep == CommentsInv /\ [Next]_vars => Rising
<1> SUFFICES ASSUME CommentsInv, [Next]_vars PROVE Rising
  OBVIOUS
<1>1. CASE UNCHANGED vars
  <2>1. Harmless
    BY <1>1 DEF vars, commentVars, Harmless, Typed, CommentsInv
  <2> QED BY <2>1, HarmlessKeeps DEF Rising
<1>2. CASE LoadSteps
  BY <1>2, LogReadStep, ResolvedStep, FetchedStep, DriftedStep DEF LoadSteps
<1>3. CASE \E l \in load : LoadFails(l)
  BY <1>3, LoadFailsStep
<1>4. CASE \/ \E p \in Providers \cup {None} : ForgeUpdates(Configure(p))
           \/ ForgeUpdates(Redetect) \/ ForgeUpdates(RemotesRead)
           \/ ForgeUpdates(DetectionFails) \/ ForgeUpdates(Detects)
  BY <1>4, EventStep, ForgeStepIsUpdate
<1>5. CASE \/ \E r \in Repos \cup {None} : FocusChanges(r)
           \/ \E r \in Repos, c \in Changes : Checkout(r, c)
           \/ \E r \in Repos : StatusChanges(r)
           \/ ForgeGoes
           \/ \E l \in aborted : AbortedEnds(l)
  BY <1>5, EventStep
<1>6. CASE \/ \E c \in Changes : Show(c)
           \/ Reply \/ ReplyArrives \/ ReplyFails \/ Dispose
  BY <1>6, UserStep
<1> QED BY <1>1, <1>2, <1>3, <1>4, <1>5, <1>6 DEF Next

LEMMA CommentsStart == Init => CommentsInv
  BY CommentsAssumption DEF Init, CommentsInv, Typed, InOrder, AtMostOne

\* The comments of a change are never replaced by older ones: of the loads that
\* run at a time only the one not aborted shows anything (startNewLoad).
THEOREM CommentsNeverGetOlder == Spec => NeverOlder
<1>1. CommentsInv /\ [Next]_vars => CommentsInv'
  BY CommentsStep DEF Rising
<1>2. CommentsInv /\ [Next]_vars => [\A s \in shown' \ shown : s.version >= seen[s.change]]_vars
  BY CommentsStep DEF Rising
<1> QED BY <1>1, <1>2, CommentsStart, PTL DEF Spec, NeverOlder

-----------------------------------------------------------------------------
(* What is shown is what is wanted: while nothing has gone wrong and no      *)
(* status event is owed, the load in progress is on its way to the comments  *)
(* that are wanted, and when there is none they are the ones shown.          *)

Lone == /\ \A k, l \in load : k = l
        /\ \A s, t \in shown : s = t

Local == /\ owed \subseteq {focus}
         /\ \A c \in explicit : RepoOf[c] = focus

Bounded == /\ version \in [Changes -> 0..MaxReplies]
           /\ \A c \in reply : version[c] < MaxReplies

OldLoads == aborted \subseteq LoadType /\ lastWc \subseteq Changes

Calm == ~blemish /\ ~disposed /\ ~dead /\ focus \notin owed

Serves == focus # None /\ HasProvider(focus)

Aimed(l) == /\ l.repo = focus /\ Serves
            /\ l.stage = "resolve" => l.change = explicit /\ explicit # {}
            /\ l.stage \in {"fetch", "drift"} => l.change = Wanted

ShowsWanted == {s.change : s \in shown} = Wanted /\ \A s \in shown : s.repo = focus

OnAim == Calm => /\ load = {} => ShowsWanted
                 /\ \A l \in load : Aimed(l)

Basics == Lone /\ Local /\ Bounded /\ OldLoads

AimInv == Basics /\ OnAim

\* An automatic pull of the focused repository aims at what is wanted.
LEMMA PullAims ==
  ASSUME Typed, Lone, OldLoads, NEW r \in Repos, NEW clear \in BOOLEAN,
         focus' = r, Pull(r, clear)
  PROVE  OnAim' /\ Lone' /\ aborted' \subseteq LoadType
<1>1. CASE Explicits # {}
  BY <1>1 DEF Pull, OnAim, Calm, Lone, OldLoads
<1>2. CASE Explicits = {} /\ HasProvider(r)'
  <2>1. /\ load' = {ALoad("pull", r, "log", {})}
        /\ aborted' \subseteq LoadType
        /\ shown' \subseteq shown
    BY <1>2 DEF Pull, Start, Typed, OldLoads
  <2>2. \A l \in load' : l.repo = r /\ l.stage = "log"
    BY <2>1 DEF ALoad
  <2>3. Serves'
    BY <1>2, CommentsAssumption DEF Serves, HasProvider
  <2> QED BY <2>1, <2>2, <2>3 DEF OnAim, Aimed, Lone
<1>3. CASE Explicits = {} /\ ~HasProvider(r)'
  <2>1. /\ load' = {} /\ shown' = {}
        /\ aborted' \subseteq LoadType
    BY <1>3 DEF Pull, Start, Clear, Typed, OldLoads
  <2>2. Wanted' = {}
    BY <1>3 DEF Wanted, HasProvider
  <2> QED BY <2>1, <2>2 DEF OnAim, ShowsWanted, Lone
<1> QED BY <1>1, <1>2, <1>3

\* A load that has found the wanted change fetches its comments.
LEMMA FetchAims ==
  ASSUME Typed, Lone, NEW l \in load, NEW c \in Changes, Fetch(l, c),
         UNCHANGED <<focus, active>>,
         Calm' => Wanted' = {c}
  PROVE  OnAim' /\ Lone'
<1>1. CASE focus = None \/ ~HasProvider(focus)
  BY <1>1 DEF Fetch, OnAim, Calm, Lone
<1>2. CASE ~(focus = None \/ ~HasProvider(focus))
  <2>1. l \in LoadType
    BY DEF Typed
  <2>2. /\ load' = {[l EXCEPT !.stage = "fetch", !.change = {c}, !.repo = focus]}
        /\ shown' \subseteq shown
    BY <1>2 DEF Fetch
  <2>3. \A k \in load' : k.repo = focus /\ k.stage = "fetch" /\ k.change = {c}
    BY <2>1, <2>2 DEF LoadType
  <2>4. Serves'
    BY <1>2 DEF Serves, HasProvider
  <2> QED BY <2>2, <2>3, <2>4 DEF OnAim, Aimed, Lone
<1> QED BY <1>1, <1>2

\* A step that begins no load, and clears the comments when none is wanted.
LEMMA NothingAims ==
  ASSUME Lone, Nothing, Calm' => Wanted' = {}
  PROVE  OnAim' /\ Lone'
  BY DEF Nothing, Clear, OnAim, ShowsWanted, Lone

LEMMA LogReadAims ==
  ASSUME CommentsInv, AimInv, NEW l \in load, LogRead(l)
  PROVE  AimInv'
<1> USE DEF CommentsInv, AimInv, Basics
<1>1. l \in LoadType /\ wc[l.repo] \in Changes /\ explicit' \in AtMostOne
      /\ explicit' \subseteq explicit
  BY DEF Typed, LoadType, LogRead, AtMostOne
<1>2. Local' /\ Bounded' /\ OldLoads'
  BY <1>1 DEF LogRead, Local, Bounded, OldLoads
<1>3. Calm' => Calm
  BY DEF LogRead, forgeVars, Calm, Nothing, Fetch
<1>4. Calm => l.repo = focus /\ Serves
  BY DEF OnAim, Aimed
<1>5. UNCHANGED <<focus, active, wc>>
  BY DEF LogRead, forgeVars
<1>6. Calm /\ explicit' = {} => Wanted' = Anchor[wc[l.repo]]
  BY <1>4, <1>5 DEF Wanted, Serves, HasProvider
<1>7. CASE explicit' # {} /\ load' = {[l EXCEPT !.stage = "resolve", !.change = explicit']}
           /\ UNCHANGED <<shown, blemish>>
  <2>1. \A k \in load' : k.repo = l.repo /\ k.stage = "resolve" /\ k.change = explicit'
    BY <1>1, <1>7 DEF LoadType
  <2>2. Calm => Serves'
    BY <1>4, <1>5 DEF Serves, HasProvider
  <2>3. OnAim'
    BY <1>3, <1>4, <1>5, <1>7, <2>1, <2>2 DEF OnAim, Aimed
  <2> QED BY <1>2, <1>7, <2>3 DEF Lone
<1>8. CASE explicit' = {} /\ Anchor[wc[l.repo]] = {} /\ Nothing
  BY <1>2, <1>3, <1>6, <1>8, NothingAims
<1>9. ASSUME explicit' = {}, NEW c \in Anchor[wc[l.repo]], Fetch(l, c)
      PROVE  AimInv'
  <2>1. c \in Changes /\ Anchor[wc[l.repo]] = {c}
    BY <1>1, CommentsAssumption
  <2>2. OnAim' /\ Lone'
    BY <1>3, <1>5, <1>6, <1>9, <2>1, FetchAims
  <2> QED BY <1>2, <2>2
<1> QED BY <1>7, <1>8, <1>9 DEF LogRead

LEMMA ResolvedAims ==
  ASSUME CommentsInv, AimInv, NEW l \in load, Resolved(l)
  PROVE  AimInv'
<1> USE DEF CommentsInv, AimInv, Basics
<1>1. PICK c \in l.change : /\ lastWc' = IF c = wc[l.repo] THEN {c} ELSE lastWc
                            /\ IF c \in Info /\ RepoOf[c] = l.repo THEN Fetch(l, c) ELSE Nothing
  BY DEF Resolved
<1>2. c \in Changes /\ l.change = {c}
  BY DEF Typed, LoadType, AtMostOne
<1>3. Local' /\ Bounded' /\ OldLoads'
  BY <1>1, <1>2 DEF Resolved, Local, Bounded, OldLoads
<1>4. Calm' => Calm
  BY <1>1 DEF Resolved, forgeVars, Calm, Nothing, Fetch
<1>5. Calm => l.repo = focus /\ Serves /\ explicit = {c}
  BY <1>2 DEF OnAim, Aimed, Resolved
<1>6. UNCHANGED <<focus, active, explicit>>
  BY DEF Resolved, forgeVars
<1>7. Calm => Wanted' = {c} \cap Info
  BY <1>5, <1>6 DEF Wanted, Serves, HasProvider
<1>8. CASE c \in Info /\ RepoOf[c] = l.repo
  <2>1. OnAim' /\ Lone'
    BY <1>1, <1>2, <1>4, <1>6, <1>7, <1>8, FetchAims
  <2> QED BY <1>3, <2>1
<1>9. CASE ~(c \in Info /\ RepoOf[c] = l.repo)
  <2>1. Calm => c \notin Info
    BY <1>5, <1>9 DEF Local
  <2>2. OnAim' /\ Lone'
    BY <1>1, <1>4, <1>7, <1>9, <2>1, NothingAims
  <2> QED BY <1>3, <2>2
<1> QED BY <1>8, <1>9

LEMMA FetchedAims ==
  ASSUME CommentsInv, AimInv, NEW l \in load, Fetched(l)
  PROVE  AimInv'
<1> USE DEF CommentsInv, AimInv, Basics
<1>1. PICK c \in l.change : load' = {[l EXCEPT !.stage = "drift", !.version = version[c]]}
  BY DEF Fetched
<1>2. \A k \in load' : k.repo = l.repo /\ k.stage = "drift" /\ k.change = l.change
  BY <1>1 DEF Typed, LoadType
<1>3. Lone' /\ Local' /\ Bounded' /\ OldLoads'
  BY <1>1 DEF Fetched, Lone, Local, Bounded, OldLoads
<1>4. (Calm' => Calm) /\ Wanted' = Wanted /\ (Serves => Serves')
  BY DEF Fetched, forgeVars, Calm, Wanted, Serves, HasProvider
<1>5. Calm => l.repo = focus /\ Serves /\ l.change = Wanted
  BY DEF OnAim, Aimed, Fetched
<1>6. focus' = focus /\ load' # {}
  BY <1>1 DEF Fetched
<1>7. OnAim'
  BY <1>2, <1>4, <1>5, <1>6 DEF OnAim, Aimed
<1> QED BY <1>3, <1>7

LEMMA DriftedAims ==
  ASSUME CommentsInv, AimInv, NEW l \in load, Drifted(l)
  PROVE  AimInv'
<1> USE DEF CommentsInv, AimInv, Basics
<1>1. PICK c \in l.change : shown' = {[change |-> c, repo |-> l.repo, version |-> l.version]}
  BY DEF Drifted
<1>2. l.change = {c}
  BY DEF Typed, LoadType, AtMostOne
<1>3. Lone' /\ Local' /\ Bounded' /\ OldLoads'
  BY <1>1 DEF Drifted, Lone, Local, Bounded, OldLoads
<1>4. (Calm' => Calm) /\ Wanted' = Wanted /\ focus' = focus /\ load' = {}
  BY DEF Drifted, forgeVars, Calm, Wanted, HasProvider
<1>5. Calm => l.repo = focus /\ l.change = Wanted
  BY DEF OnAim, Aimed, Drifted
<1>6. {s.change : s \in shown'} = {c} /\ \A s \in shown' : s.repo = l.repo
  BY <1>1
<1>7. Calm => ShowsWanted'
  BY <1>2, <1>4, <1>5, <1>6 DEF ShowsWanted
<1>8. OnAim'
  BY <1>4, <1>7 DEF OnAim
<1> QED BY <1>3, <1>8

\* A load that fails leaves a blemish, or asks again and goes on as if it had not.
LEMMA LoadFailsAims ==
  ASSUME CommentsInv, AimInv, NEW l \in load, LoadFails(l)
  PROVE  AimInv'
<1> USE DEF CommentsInv, AimInv, Basics
<1>1. Local' /\ Bounded' /\ OldLoads'
  BY DEF LoadFails, Local, Bounded, OldLoads
<1>2. CASE /\ blemish'
           /\ \/ load' = {[l EXCEPT !.stage = "resolve", !.change = explicit]}
              \/ load' = {}
           /\ shown' = {} \/ UNCHANGED shown
  <2>1. OnAim'
    BY <1>2 DEF OnAim, Calm
  <2>2. Lone'
    BY <1>2 DEF Lone
  <2> QED BY <1>1, <2>1, <2>2
<1>3. ASSUME explicit = {}, NEW c \in Anchor[wc[l.repo]], Fetch(l, c)
      PROVE  AimInv'
  <2>1. l \in LoadType /\ wc[l.repo] \in Changes
    BY DEF Typed, LoadType
  <2>2. c \in Changes /\ Anchor[wc[l.repo]] = {c}
    BY <2>1, <1>3, CommentsAssumption
  <2>3. UNCHANGED <<focus, active, wc, explicit>>
    BY DEF LoadFails, forgeVars
  <2>4. Calm' => Calm
    BY <1>3 DEF LoadFails, forgeVars, Calm, Fetch
  <2>5. Calm => l.repo = focus /\ Serves
    BY DEF OnAim, Aimed
  <2>6. Calm => Wanted' = {c}
    BY <1>3, <2>2, <2>3, <2>5 DEF Wanted, Serves, HasProvider
  <2>7. OnAim' /\ Lone'
    BY <1>3, <2>2, <2>3, <2>4, <2>6, FetchAims
  <2> QED BY <1>1, <2>7
<1> QED BY <1>2, <1>3 DEF LoadFails, Clear

LEMMA AbortedAims ==
  ASSUME CommentsInv, AimInv, NEW l \in aborted, AbortedEnds(l)
  PROVE  AimInv'
<1> USE DEF CommentsInv, AimInv, Basics
<1>1. l.change \subseteq Changes
  BY DEF OldLoads, LoadType, AtMostOne
<1>2. Lone' /\ Local' /\ Bounded' /\ OldLoads'
  BY <1>1 DEF AbortedEnds, Lone, Local, Bounded, OldLoads
<1>3. /\ (Calm' => Calm) /\ Wanted' = Wanted /\ (Serves => Serves')
      /\ UNCHANGED <<focus, load, shown, explicit>>
  BY DEF AbortedEnds, forgeVars, Calm, Wanted, Serves, HasProvider
<1>4. OnAim'
  BY <1>3 DEF OnAim, Aimed, ShowsWanted
<1> QED BY <1>2, <1>4

\* What the focus, the repositories and the forge do: the focused repository's
\* comments are pulled again, or a status event is owed.
LEMMA EventAims ==
  ASSUME CommentsInv, AimInv,
         \/ \E r \in Repos \cup {None} : FocusChanges(r)
         \/ \E r \in Repos, c \in Changes : Checkout(r, c)
         \/ \E r \in Repos : StatusChanges(r)
         \/ ForgeGoes
  PROVE  AimInv'
<1> USE DEF CommentsInv, AimInv, Basics
<1>1. ASSUME NEW r \in Repos \cup {None}, FocusChanges(r)
      PROVE  AimInv'
  <2>1. Local' /\ Bounded' /\ lastWc' \subseteq Changes /\ focus' = r
    BY <1>1 DEF FocusChanges, Local, Bounded
  <2>2. CASE disposed
    BY <1>1, <2>1, <2>2 DEF FocusChanges, Lone, OldLoads, OnAim, Calm
  <2>3. CASE ~disposed /\ r = None
    BY <1>1, <2>1, <2>3 DEF FocusChanges, Clear, Lone, OldLoads, OnAim, Calm
  <2>4. CASE ~disposed /\ r # None
    <3>1. r \in Repos /\ Pull(r, TRUE)
      BY <1>1, <2>4 DEF FocusChanges
    <3> QED BY <2>1, <3>1, PullAims DEF OldLoads
  <2> QED BY <2>2, <2>3, <2>4
<1>2. ASSUME NEW r \in Repos, NEW c \in Changes, Checkout(r, c)
      PROVE  AimInv'
  <2>1. Lone' /\ Local' /\ Bounded' /\ OldLoads'
    BY <1>2 DEF Checkout, Lone, Local, Bounded, OldLoads
  <2>2. UNCHANGED <<focus, load, shown, explicit, active>>
    BY <1>2 DEF Checkout, forgeVars
  <2>3. Calm' => Calm /\ r # focus
    BY <1>2 DEF Checkout, forgeVars, Calm
  <2>4. r # focus /\ focus # None => wc'[focus] = wc[focus]
    BY <1>2 DEF Checkout, Typed
  <2>5. Calm' => Wanted' = Wanted /\ (Serves => Serves')
    BY <2>2, <2>3, <2>4 DEF Wanted, Serves, HasProvider
  <2>6. OnAim'
    BY <2>2, <2>3, <2>5 DEF OnAim, Aimed, ShowsWanted
  <2> QED BY <2>1, <2>6
<1>3. ASSUME NEW r \in Repos, StatusChanges(r)
      PROVE  AimInv'
  <2>1. r = focus /\ focus' = focus
    BY <1>3 DEF StatusChanges, Local
  <2>2. Local' /\ Bounded' /\ lastWc' \subseteq Changes
    BY <1>3 DEF StatusChanges, Local, Bounded, OldLoads
  <2> QED BY <1>3, <2>1, <2>2, PullAims DEF StatusChanges, OldLoads
<1>4. ASSUME ForgeGoes
      PROVE  AimInv'
  BY <1>4 DEF ForgeGoes, ForgeDispose, commentVars, Lone, Local, Bounded, OldLoads, OnAim, Calm
<1> QED BY <1>1, <1>2, <1>3, <1>4

LEMMA ForgeAims ==
  ASSUME CommentsInv, AimInv, NEW step \in BOOLEAN, ForgeUpdates(step), dead' = dead
  PROVE  AimInv'
<1> USE DEF CommentsInv, AimInv, Basics
<1>1. Local' /\ Bounded' /\ lastWc' \subseteq Changes
  BY DEF ForgeUpdates, Local, Bounded, OldLoads
<1>2. CASE focus = Served /\ ~disposed /\ ~dead /\ active' # active
  BY <1>1, <1>2, PullAims, CommentsAssumption DEF ForgeUpdates, OldLoads
<1>3. CASE ~(focus = Served /\ ~disposed /\ ~dead /\ active' # active)
  <2>1. UNCHANGED <<load, aborted, shown, blemish, focus, wc, owed, explicit, disposed>>
    BY <1>3 DEF ForgeUpdates
  <2>2. Lone' /\ OldLoads'
    BY <1>1, <2>1 DEF Lone, OldLoads
  <2>3. Calm' => Calm /\ HasProvider(focus)' = HasProvider(focus)
    BY <1>3, <2>1 DEF Calm, HasProvider
  <2>4. Calm' => Wanted' = Wanted /\ (Serves => Serves')
    BY <2>1, <2>3 DEF Wanted, Serves
  <2>5. OnAim'
    BY <2>1, <2>3, <2>4 DEF OnAim, Aimed, ShowsWanted
  <2> QED BY <1>1, <2>2, <2>5
<1> QED BY <1>2, <1>3

LEMMA ForgeStepIsUpdateOfALiving ==
  ASSUME \/ \E p \in Providers \cup {None} : ForgeUpdates(Configure(p))
         \/ ForgeUpdates(Redetect) \/ ForgeUpdates(RemotesRead)
         \/ ForgeUpdates(DetectionFails) \/ ForgeUpdates(Detects)
  PROVE  dead' = dead
  BY DEF ForgeUpdates, Configure, Redetect, RemotesRead, DetectionFails, Detects, Detected

\* What the user does.
LEMMA UserAims ==
  ASSUME CommentsInv, AimInv,
         \/ \E c \in Changes : Show(c)
         \/ Reply \/ ReplyArrives \/ ReplyFails \/ Dispose
  PROVE  AimInv'
<1> USE DEF CommentsInv, AimInv, Basics
<1>1. ASSUME NEW c \in Changes, Show(c)
      PROVE  AimInv'
  <2>1. Local' /\ Bounded' /\ OldLoads'
    BY <1>1 DEF Show, Start, Local, Bounded, OldLoads, Typed
  <2>2. CASE HasProvider(focus)
    <3>1. /\ load' = {[ALoad("show", focus, "resolve", {c}) EXCEPT !.n = shows + 1]}
          /\ explicit' = {c} /\ UNCHANGED <<focus, active, shown>> /\ RepoOf[c] = focus
      BY <1>1, <2>2 DEF Show, Start, forgeVars
    <3>2. \A l \in load' : l.repo = focus /\ l.stage = "resolve" /\ l.change = {c}
      BY <3>1 DEF ALoad
    <3>3. Serves'
      BY <2>2, <3>1, CommentsAssumption DEF Serves, HasProvider
    <3> QED BY <2>1, <3>1, <3>2, <3>3 DEF OnAim, Aimed, Lone
  <2>3. CASE ~HasProvider(focus)
    BY <1>1, <2>1, <2>3 DEF Show, Start, OnAim, Calm, Lone
  <2> QED BY <2>2, <2>3
<1>2. CASE Reply
  <2>1. Lone' /\ Local' /\ OldLoads'
    BY <1>2 DEF Reply, Lone, Local, OldLoads
  <2>2. Bounded'
    BY <1>2 DEF Reply, Bounded
  <2>3. (Calm' => Calm) /\ Wanted' = Wanted /\ (Serves => Serves')
    BY <1>2 DEF Reply, forgeVars, Calm, Wanted, Serves, HasProvider
  <2>4. OnAim'
    BY <1>2, <2>3 DEF Reply, OnAim, Aimed, ShowsWanted
  <2> QED BY <2>1, <2>2, <2>4
<1>3. CASE ReplyFails
  <2>1. Lone' /\ Local' /\ OldLoads' /\ Bounded'
    BY <1>3 DEF ReplyFails, Lone, Local, OldLoads, Bounded
  <2>2. (Calm' => Calm) /\ Wanted' = Wanted /\ (Serves => Serves')
    BY <1>3 DEF ReplyFails, forgeVars, Calm, Wanted, Serves, HasProvider
  <2>3. OnAim'
    BY <1>3, <2>2 DEF ReplyFails, OnAim, Aimed, ShowsWanted
  <2> QED BY <2>1, <2>3
<1>4. CASE Dispose
  BY <1>4 DEF Dispose, Start, Clear, Lone, Local, OldLoads, Bounded, OnAim, Calm, Typed
<1>5. CASE ReplyArrives
  <2>1. Local'
    BY <1>5 DEF ReplyArrives, Local
  <2>2. Bounded'
    <3>1. PICK c \in reply : version' = [version EXCEPT ![c] = @ + 1]
      BY <1>5 DEF ReplyArrives
    <3>2. c \in Changes /\ version[c] + 1 \in 0..MaxReplies
      BY CommentsAssumption DEF Bounded, Typed
    <3> QED BY <1>5, <3>1, <3>2 DEF ReplyArrives, Bounded
  <2>3. /\ UNCHANGED <<focus, active, wc, explicit, shown>>
        /\ lastWc' = lastWc
        /\ Wanted' = Wanted /\ (Serves => Serves')
    BY <1>5 DEF ReplyArrives, forgeVars, Wanted, Serves, HasProvider
  <2>4. CASE focus = None \/ shown = {}
    <3>1. UNCHANGED <<load, aborted, blemish>>
      BY <1>5, <2>4 DEF ReplyArrives
    <3>2. Calm' => Calm
      BY <1>5, <3>1 DEF ReplyArrives, forgeVars, Calm
    <3>3. OnAim'
      BY <2>3, <3>1, <3>2 DEF OnAim, Aimed, ShowsWanted
    <3>4. Lone' /\ OldLoads'
      BY <2>3, <3>1 DEF Lone, OldLoads
    <3> QED BY <2>1, <2>2, <3>3, <3>4
  <2>5. CASE ~(focus = None \/ shown = {})
    <3>1. PICK s \in shown :
            IF HasProvider(focus)
            THEN /\ Start({ALoad("refresh", focus, "fetch", {s.change})})
                 /\ blemish' = (blemish \/ load # {})
            ELSE Start({}) /\ blemish' = TRUE
      BY <1>5, <2>5 DEF ReplyArrives
    <3>2. shown = {s}
      BY DEF Lone
    <3>3. OldLoads'
      BY <2>3, <3>1 DEF Start, OldLoads, Typed
    <3>4. CASE HasProvider(focus)
      <4>1. load' = {ALoad("refresh", focus, "fetch", {s.change})}
        BY <3>1, <3>4 DEF Start
      <4>2. \A l \in load' : l.repo = focus /\ l.stage = "fetch" /\ l.change = {s.change}
        BY <4>1 DEF ALoad
      <4>3. Calm' => Calm /\ load = {}
        BY <1>5, <3>1, <3>4 DEF ReplyArrives, forgeVars, Calm
      <4>4. Calm' => Wanted = {s.change}
        BY <3>2, <4>3 DEF OnAim, ShowsWanted
      <4>5. Serves'
        BY <2>3, <2>5, <3>4 DEF Serves
      <4>6. OnAim'
        BY <2>3, <4>1, <4>2, <4>4, <4>5 DEF OnAim, Aimed
      <4>7. Lone'
        BY <2>3, <4>1 DEF Lone
      <4> QED BY <2>1, <2>2, <3>3, <4>6, <4>7
    <3>5. CASE ~HasProvider(focus)
      <4>1. load' = {} /\ blemish' = TRUE
        BY <3>1, <3>5 DEF Start
      <4> QED BY <2>1, <2>2, <2>3, <3>3, <4>1 DEF OnAim, Calm, Lone
    <3> QED BY <3>4, <3>5
  <2> QED BY <2>4, <2>5
<1> QED BY <1>1, <1>2, <1>3, <1>4, <1>5

LEMMA AimStart == Init => AimInv
<1> SUFFICES ASSUME Init PROVE AimInv
  OBVIOUS
<1>1. Wanted = {}
  BY DEF Init, ForgeInit, Wanted, HasProvider
<1>2. OnAim
  BY <1>1 DEF Init, OnAim, ShowsWanted
<1>3. Basics
  BY CommentsAssumption DEF Init, Basics, Lone, Local, Bounded, OldLoads
<1> QED BY <1>2, <1>3 DEF AimInv

LEMMA AimStep == CommentsInv /\ AimInv /\ [Next]_vars => AimInv'
<1> SUFFICES ASSUME CommentsInv, AimInv, [Next]_vars PROVE AimInv'
  OBVIOUS
<1>1. CASE UNCHANGED vars
  <2>1. Basics'
    BY <1>1 DEF vars, commentVars, AimInv, Basics, Lone, Local, Bounded, OldLoads
  <2>2. (Calm' => Calm) /\ Wanted' = Wanted /\ (Serves => Serves')
    BY <1>1 DEF vars, commentVars, forgeVars, Calm, Wanted, Serves, HasProvider
  <2>3. OnAim'
    BY <1>1, <2>2 DEF vars, commentVars, AimInv, OnAim, Aimed, ShowsWanted
  <2> QED BY <2>1, <2>3 DEF AimInv
<1>2. CASE LoadSteps
  BY <1>2, LogReadAims, ResolvedAims, FetchedAims, DriftedAims DEF LoadSteps
<1>3. CASE \/ \E l \in load : LoadFails(l)
           \/ \E l \in aborted : AbortedEnds(l)
  BY <1>3, LoadFailsAims, AbortedAims
<1>4. CASE \/ \E p \in Providers \cup {None} : ForgeUpdates(Configure(p))
           \/ ForgeUpdates(Redetect) \/ ForgeUpdates(RemotesRead)
           \/ ForgeUpdates(DetectionFails) \/ ForgeUpdates(Detects)
  <2>1. \E step \in BOOLEAN : ForgeUpdates(step)
    BY <1>4, ForgeStepIsUpdate
  <2> QED BY <1>4, <2>1, ForgeAims, ForgeStepIsUpdateOfALiving
<1>5. CASE \/ \E r \in Repos \cup {None} : FocusChanges(r)
           \/ \E r \in Repos, c \in Changes : Checkout(r, c)
           \/ \E r \in Repos : StatusChanges(r)
           \/ ForgeGoes
  BY <1>5, EventAims
<1>6. CASE \/ \E c \in Changes : Show(c)
           \/ Reply \/ ReplyArrives \/ ReplyFails \/ Dispose
  BY <1>6, UserAims
<1> QED BY <1>1, <1>2, <1>3, <1>4, <1>5, <1>6 DEF Next

LEMMA AtMostOneElement ==
  ASSUME NEW S, \A x, y \in S : x = y
  PROVE  Cardinality(S) <= 1
<1>1. CASE S = {}
  BY <1>1, FS_EmptySet
<1>2. ASSUME NEW x \in S PROVE Cardinality(S) <= 1
  <2>1. S = {x}
    OBVIOUS
  <2> QED BY <2>1, FS_Singleton
<1> QED BY <1>1, <1>2

\* Once loads and events have settled, the comments shown are those of the change
\* asked for last, or of the working copy as it is: a superseded load, a change of
\* focus, provider or working copy and the refresh after a reply never leave those
\* of another change or repository (pullCommentsAutomatically, loadCommentsForChange).
THEOREM SettledAlwaysShowsWanted == Spec => []SettledShowsWanted
<1>1. CommentsInv /\ [Next]_vars => CommentsInv'
  BY CommentsStep DEF Rising
<1>2. CommentsInv /\ AimInv => SettledShowsWanted
  <2> SUFFICES ASSUME CommentsInv, AimInv PROVE SettledShowsWanted
    OBVIOUS
  <2>1. Cardinality(load) <= 1 /\ Cardinality(shown) <= 1
    BY AtMostOneElement DEF AimInv, Basics, Lone
  <2>2. TypeOK
    BY <2>1 DEF TypeOK, AimInv, Basics, Bounded, OldLoads, CommentsInv, Typed, LoadType, AtMostOne
  <2> QED BY <2>2 DEF SettledShowsWanted, AimInv, OnAim, Calm, ShowsWanted
<1> QED BY <1>1, <1>2, CommentsStart, AimStart, AimStep, PTL DEF Spec

-----------------------------------------------------------------------------
(* The merge editor: what each step does to a segment. *)

CleanFields == {"type", "origin", "accepted", "base", "left", "right", "lines"}
HunkFields == {"type", "resolution", "leftHandled", "rightHandled", "handled",
               "base", "left", "right", "lines"}

CleanShape(s) ==
    /\ DOMAIN s = CleanFields
    /\ s.type = "clean"
    /\ s.origin \in {"unchanged", "left", "right", "both-identical"}

HunkShape(s) ==
    /\ DOMAIN s = HunkFields
    /\ s.type = "conflict"
    /\ s.resolution \in Resolutions \cup {"custom"}
    /\ s.leftHandled \in BOOLEAN /\ s.rightHandled \in BOOLEAN /\ s.handled \in BOOLEAN

\* What a hunk's resolution says is so.
HunkIsTrue(s) ==
    /\ HunkShape(s)
    /\ s.resolution # "custom" => s.lines = ResolvedLines(s, s.resolution)
    /\ s.handled = (s.leftHandled /\ s.rightHandled)
    /\ s.resolution = "unhandled" => ~s.handled
    /\ s.resolution = "base" => s.handled

SegmentIsTrue(s) == CleanShape(s) \/ HunkIsTrue(s)

\* The document is a sequence of such segments.
TrueSegments(segs) ==
    /\ \E n \in Nat : DOMAIN segs = 1..n /\ segs = [i \in 1..n |-> segs[i]]
    /\ \A i \in DOMAIN segs : SegmentIsTrue(segs[i])

DocumentInv ==
    /\ newline \in BOOLEAN /\ edits \in 0..MaxEdits
    /\ TrueSegments(segments)

LEMMA InvGives == DocumentInv => ResolutionsAreTrue
<1> SUFFICES ASSUME DocumentInv PROVE ResolutionsAreTrue
  OBVIOUS
<1>1. \A i \in DOMAIN segments : CleanShape(segments[i]) => segments[i].type = "clean"
  BY DEF CleanShape
<1>2. \A i \in DOMAIN segments : HunkIsTrue(segments[i]) => segments[i].type = "conflict"
  BY DEF HunkIsTrue, HunkShape
<1>3. SegmentsTyped
  BY <1>1, <1>2 DEF DocumentInv, TrueSegments, SegmentsTyped, SegmentIsTrue, CleanShape, HunkIsTrue, HunkShape, Range
<1>4. \A i \in Conflicts : HunkIsTrue(segments[i])
  BY <1>1 DEF DocumentInv, TrueSegments, SegmentIsTrue, Conflicts
<1> QED BY <1>3, <1>4 DEF ResolutionsAreTrue, HunkIsTrue, Conflicts

\* The lines a resolution stands for are those of the hunk's sides.
LEMMA ResolvedBySides ==
    ASSUME NEW s, NEW t, NEW r \in Resolutions,
           s.base = t.base, s.left = t.left, s.right = t.right
    PROVE  ResolvedLines(s, r) = ResolvedLines(t, r)
  BY DEF ResolvedLines, Resolutions

LEMMA WithResolutionIsTrue ==
    ASSUME NEW h, HunkShape(h), NEW r \in Resolutions \cup {"custom"}, NEW lines,
           r # "custom" => lines = ResolvedLines(h, r)
    PROVE  HunkIsTrue(WithResolution(h, r, lines))
<1> DEFINE d == r # "unhandled"
           g == WithResolution(h, r, lines)
<1>0. d \in BOOLEAN /\ (r = "unhandled" => ~d) /\ (r = "base" => d)
  OBVIOUS
<1> HIDE DEF d
<1>1. g = [h EXCEPT !.resolution = r, !.leftHandled = d, !.rightHandled = d,
                    !.handled = d, !.lines = lines]
  BY DEF WithResolution, d
<1> HIDE DEF g
<1>2. /\ DOMAIN g = HunkFields
      /\ g.type = "conflict"
      /\ g.resolution = r
      /\ g.leftHandled = d /\ g.rightHandled = d /\ g.handled = d
      /\ g.lines = lines
      /\ g.base = h.base /\ g.left = h.left /\ g.right = h.right
  <2>1. HunkShape(h)
    OBVIOUS
  <2> QED BY <1>1, <2>1 DEF HunkShape, HunkFields
<1>3. r # "custom" => ResolvedLines(g, r) = ResolvedLines(h, r)
  BY <1>2, ResolvedBySides
<1>4. HunkShape(g)
  BY <1>0, <1>2 DEF HunkShape
<1>5. HunkIsTrue(g)
  BY <1>0, <1>2, <1>3, <1>4 DEF HunkIsTrue
<1> QED BY <1>5 DEF g

LEMMA InferredIsTrue ==
    ASSUME NEW h, NEW lines
    PROVE  /\ InferredResolution(h, lines) \in Resolutions \cup {"custom"}
           /\ InferredResolution(h, lines) # "custom"
                => lines = ResolvedLines(h, InferredResolution(h, lines))
  BY DEF InferredResolution, Resolutions, ResolvedLines

LEMMA SyncedIsTrue ==
    ASSUME NEW s, SegmentIsTrue(s), NEW lines
    PROVE  SegmentIsTrue(Synced(s, lines))
<1>1. CASE s.lines = lines
  BY <1>1 DEF Synced
<1>2. CASE s.lines # lines /\ CleanShape(s)
  <2> DEFINE ok == \/ s.origin = "unchanged"
                   \/ lines = IF s.origin = "right" THEN s.right ELSE s.left
  <2> HIDE DEF ok
  <2>1. Synced(s, lines) = [s EXCEPT !.lines = lines, !.accepted = ok]
    BY <1>2 DEF Synced, CleanShape, ok
  <2>2. CleanShape([s EXCEPT !.lines = lines, !.accepted = ok])
    BY <1>2 DEF CleanShape, CleanFields
  <2> QED BY <2>1, <2>2 DEF SegmentIsTrue
<1>3. CASE s.lines # lines /\ HunkIsTrue(s)
  <2>1. Synced(s, lines) = WithResolution(s, InferredResolution(s, lines), lines)
    BY <1>3 DEF Synced, HunkIsTrue, HunkShape
  <2> QED BY <1>3, <2>1, InferredIsTrue, WithResolutionIsTrue DEF SegmentIsTrue, HunkIsTrue
<1> QED BY <1>1, <1>2, <1>3 DEF SegmentIsTrue

\* One segment of the document is changed.
LEMMA OneChanged ==
    ASSUME NEW segs, TrueSegments(segs), NEW i \in DOMAIN segs, NEW s, SegmentIsTrue(s)
    PROVE  TrueSegments([segs EXCEPT ![i] = s])
<1> DEFINE new == [segs EXCEPT ![i] = s]
<1>1. DOMAIN new = DOMAIN segs /\ \A j \in DOMAIN segs : new[j] = IF j = i THEN s ELSE segs[j]
  OBVIOUS
<1>2. PICK n \in Nat : DOMAIN segs = 1..n
  BY DEF TrueSegments
<1>3. new = [j \in 1..n |-> new[j]]
  BY <1>2
<1> QED BY <1>1, <1>2, <1>3 DEF TrueSegments

LEMMA ResolveStep ==
    ASSUME DocumentInv, NEW i \in Conflicts, NEW r \in Resolutions, Resolve(i, r)
    PROVE  TrueSegments(segments')
<1>1. i \in DOMAIN segments /\ HunkIsTrue(segments[i])
  BY DEF Conflicts, DocumentInv, TrueSegments, SegmentIsTrue, CleanShape
<1>2. segments' = [segments EXCEPT ![i] = WithResolution(segments[i], r, ResolvedLines(segments[i], r))]
  BY DEF Resolve, Step
<1>3. SegmentIsTrue(WithResolution(segments[i], r, ResolvedLines(segments[i], r)))
  BY <1>1, WithResolutionIsTrue DEF SegmentIsTrue, HunkIsTrue
<1> QED BY <1>1, <1>2, <1>3, OneChanged DEF DocumentInv

LEMMA CustomStep ==
    ASSUME DocumentInv, NEW i \in Conflicts, NEW lines, CustomInput(i, lines)
    PROVE  TrueSegments(segments')
<1> DEFINE h == segments[i]
           r == InferredResolution(h, lines)
<1>1. i \in DOMAIN segments /\ HunkIsTrue(h)
  BY DEF Conflicts, DocumentInv, TrueSegments, SegmentIsTrue, CleanShape
<1>2. segments' = [segments EXCEPT ![i] = CustomHunk(h, r, lines)]
  BY DEF CustomInput, Step
<1>3. SegmentIsTrue(CustomHunk(h, r, lines))
  <2>1. r \in Resolutions \cup {"custom"}
    BY InferredIsTrue
  <2> HIDE DEF r, h
  <2> QED BY <1>1, <2>1, WithResolutionIsTrue DEF CustomHunk, SegmentIsTrue, HunkIsTrue
<1> QED BY <1>1, <1>2, <1>3, OneChanged DEF DocumentInv

LEMMA IgnoreStep ==
    ASSUME DocumentInv, NEW i \in Conflicts, NEW side \in {"left", "right"}, IgnoreSide(i, side)
    PROVE  TrueSegments(segments')
<1> DEFINE h == segments[i]
           l == h.leftHandled \/ side = "left"
           rh == h.rightHandled \/ side = "right"
           d == l /\ rh
           r == WithoutSide(h, side, d)
           lines == IF r = "custom" THEN h.lines ELSE ResolvedLines(h, r)
           g == [h EXCEPT !.resolution = r, !.leftHandled = l, !.rightHandled = rh,
                          !.handled = d, !.lines = lines]
<1>1. i \in DOMAIN segments /\ HunkIsTrue(h)
  BY DEF Conflicts, DocumentInv, TrueSegments, SegmentIsTrue, CleanShape
<1>2. segments' = [segments EXCEPT ![i] = g]
  BY DEF IgnoreSide, Step
<1>3. HunkShape(h)
  BY <1>1 DEF HunkIsTrue
<1>4. l \in BOOLEAN /\ rh \in BOOLEAN /\ d \in BOOLEAN /\ d = (l /\ rh)
  OBVIOUS
<1>5. h.resolution = "base" => d
  BY <1>1, <1>3 DEF HunkIsTrue, HunkShape
<1>6. /\ r \in Resolutions \cup {"custom"}
      /\ r = "unhandled" => ~d
      /\ r = "base" => d
  <2> HIDE DEF h, d
  <2> QED BY <1>3, <1>4, <1>5 DEF WithoutSide, HunkShape, Resolutions
<1>7. r # "custom" => lines = ResolvedLines(h, r)
  OBVIOUS
<1> HIDE DEF l, rh, d, r, lines, h
<1>8. /\ DOMAIN g = HunkFields
      /\ g.type = "conflict"
      /\ g.resolution = r
      /\ g.leftHandled = l /\ g.rightHandled = rh /\ g.handled = d
      /\ g.lines = lines
      /\ g.base = h.base /\ g.left = h.left /\ g.right = h.right
  BY <1>3 DEF HunkShape, HunkFields
<1> HIDE DEF g
<1>9. r # "custom" => ResolvedLines(g, r) = ResolvedLines(h, r)
  BY <1>6, <1>8, ResolvedBySides
<1>10. HunkIsTrue(g)
  BY <1>4, <1>6, <1>7, <1>8, <1>9 DEF HunkIsTrue, HunkShape
<1>11. SegmentIsTrue(g)
  BY <1>10 DEF SegmentIsTrue
<1> QED BY <1>1, <1>2, <1>11, OneChanged DEF DocumentInv

LEMMA HandledStep ==
    ASSUME DocumentInv, NEW i \in Conflicts, ToggleHandled(i)
    PROVE  TrueSegments(segments')
<1> DEFINE h == segments[i]
           d == ~h.handled
           r == CASE h.resolution = "unhandled" /\ d -> "base"
                  [] h.resolution = "base" /\ ~d -> "unhandled"
                  [] OTHER -> h.resolution
           g == [h EXCEPT !.resolution = r, !.leftHandled = d, !.rightHandled = d, !.handled = d]
<1>1. i \in DOMAIN segments /\ HunkIsTrue(h)
  BY DEF Conflicts, DocumentInv, TrueSegments, SegmentIsTrue, CleanShape
<1>2. segments' = [segments EXCEPT ![i] = g]
  BY DEF ToggleHandled, Step
<1>3. HunkShape(h)
  BY <1>1 DEF HunkIsTrue
<1>4. d \in BOOLEAN
  OBVIOUS
<1> HIDE DEF h
<1>5. h.resolution = "base" => h.handled
  BY <1>1 DEF HunkIsTrue
<1>6. /\ r \in Resolutions \cup {"custom"}
      /\ r = "unhandled" => ~d
      /\ r = "base" => d
  BY <1>3, <1>5 DEF HunkShape, Resolutions
<1>7. r # "custom" => h.lines = ResolvedLines(h, r)
  <2>1. h.resolution # "custom" => h.lines = ResolvedLines(h, h.resolution)
    BY <1>1 DEF HunkIsTrue
  <2>2. ResolvedLines(h, "base") = ResolvedLines(h, "unhandled")
    BY DEF ResolvedLines
  <2> HIDE DEF d
  <2> QED BY <2>1, <2>2
<1> HIDE DEF d, r
<1>8. /\ DOMAIN g = HunkFields
      /\ g.type = "conflict"
      /\ g.resolution = r
      /\ g.leftHandled = d /\ g.rightHandled = d /\ g.handled = d
      /\ g.lines = h.lines
      /\ g.base = h.base /\ g.left = h.left /\ g.right = h.right
  BY <1>3 DEF HunkShape, HunkFields
<1> HIDE DEF g
<1>9. r # "custom" => ResolvedLines(g, r) = ResolvedLines(h, r)
  BY <1>6, <1>8, ResolvedBySides
<1>10. HunkIsTrue(g)
  BY <1>4, <1>6, <1>7, <1>8, <1>9 DEF HunkIsTrue, HunkShape
<1>11. SegmentIsTrue(g)
  BY <1>10 DEF SegmentIsTrue
<1> QED BY <1>1, <1>2, <1>11, OneChanged DEF DocumentInv

LEMMA AcceptedStep ==
    ASSUME DocumentInv, NEW i \in DOMAIN segments, ToggleAccepted(i)
    PROVE  TrueSegments(segments')
<1> DEFINE s == segments[i]
           accepted == ~s.accepted
           lines == CASE ~accepted -> s.base
                      [] accepted /\ s.origin = "right" -> s.right
                      [] OTHER -> s.left
           g == [s EXCEPT !.accepted = accepted, !.lines = lines]
<1>1. CleanShape(s)
  BY DEF ToggleAccepted, DocumentInv, TrueSegments, SegmentIsTrue, HunkIsTrue, HunkShape
<1>2. segments' = [segments EXCEPT ![i] = g]
  BY DEF ToggleAccepted, Step
<1>3. SegmentIsTrue(g)
  <2> HIDE DEF lines, accepted, s
  <2> QED BY <1>1 DEF CleanShape, CleanFields, SegmentIsTrue
<1> QED BY <1>2, <1>3, OneChanged DEF DocumentInv

\* Every segment of the document is changed.
LEMMA AllChanged ==
    ASSUME NEW segs, TrueSegments(segs), NEW new, DOMAIN new = DOMAIN segs,
           new = [i \in DOMAIN segs |-> new[i]], \A i \in DOMAIN segs : SegmentIsTrue(new[i])
    PROVE  TrueSegments(new)
  BY DEF TrueSegments

LEMMA AllStep ==
    ASSUME DocumentInv, NEW side \in {"left", "right"}, ResolveAll(side)
    PROVE  TrueSegments(segments')
<1>1. segments' = [i \in DOMAIN segments |->
                      IF i \in Conflicts THEN WithResolution(segments[i], side, segments[i][side])
                      ELSE segments[i]]
  BY DEF ResolveAll, Step
<1>2. ASSUME NEW i \in DOMAIN segments PROVE SegmentIsTrue(segments'[i])
  <2>1. SegmentIsTrue(segments[i])
    BY DEF DocumentInv, TrueSegments
  <2>2. CASE i \in Conflicts
    <3>1. HunkShape(segments[i])
      BY <2>1, <2>2 DEF SegmentIsTrue, HunkIsTrue, CleanShape, Conflicts
    <3>2. segments[i][side] = ResolvedLines(segments[i], side)
      BY DEF ResolvedLines
    <3>3. segments'[i] = WithResolution(segments[i], side, segments[i][side])
      BY <1>1, <2>2
    <3>4. side \in Resolutions
      BY DEF Resolutions
    <3> QED BY <3>1, <3>2, <3>3, <3>4, WithResolutionIsTrue DEF SegmentIsTrue
  <2>3. CASE i \notin Conflicts
    BY <1>1, <2>1, <2>3
  <2> QED BY <2>2, <2>3
<1>3. DOMAIN segments' = DOMAIN segments /\ segments' = [i \in DOMAIN segments |-> segments'[i]]
  BY <1>1
<1> QED BY <1>2, <1>3, AllChanged DEF DocumentInv

LEMMA SyncStep ==
    ASSUME DocumentInv, MergeAssumption, NEW t \in Inputs, Sync(t)
    PROVE  newline' \in BOOLEAN /\ TrueSegments(segments')
<1>0. t.newline \in BOOLEAN /\ newline \in BOOLEAN
  BY DEF MergeAssumption, DocumentInv
<1>1. CASE t.lines = RenderedLines
  BY <1>0, <1>1 DEF Sync, DocumentInv
<1>2. CASE t.lines # RenderedLines
  <2> DEFINE bounds == NewBoundaries(t.lines)
             To(i) == Slice(t.lines, bounds[i], bounds[i + 1])
  <2>1. /\ segments' = [i \in DOMAIN segments |-> Synced(segments[i], To(i))]
        /\ newline' = IF t.lines = <<>> THEN newline ELSE t.newline
    BY <1>2 DEF Sync
  <2> HIDE DEF To
  <2>2. \A i \in DOMAIN segments : SegmentIsTrue(segments'[i])
    BY <2>1, SyncedIsTrue DEF DocumentInv, TrueSegments
  <2>3. DOMAIN segments' = DOMAIN segments /\ segments' = [i \in DOMAIN segments |-> segments'[i]]
    BY <2>1
  <2>4. TrueSegments(segments')
    BY <2>2, <2>3, AllChanged DEF DocumentInv
  <2> QED BY <1>0, <2>1, <2>4
<1> QED BY <1>1, <1>2

-----------------------------------------------------------------------------
(* The document a merge makes, and what stays true of it. *)

\* The function the rounds of the merge are given by.
Rounds(t, first, f) ==
    f = [n \in Nat |-> IF n = 0 THEN first ELSE MergeRound(t, f[n - 1])]

\* There is one: the first n rounds can be told for every n, in one way.
LEMMA RoundsExist ==
    ASSUME NEW t, NEW first
    PROVE  \E f : Rounds(t, first, f)
<1> DEFINE Upto(n, g) ==
             /\ DOMAIN g = 0..n
             /\ \A i \in 0..n : g[i] = IF i = 0 THEN first ELSE MergeRound(t, g[i - 1])
           Told == {n \in Nat : \E g : Upto(n, g)}
           The(n) == CHOOSE g : Upto(n, g)
           f == [n \in Nat |-> The(n)[n]]
<1>1. 0 \in Told
  <2>1. Upto(0, [i \in 0..0 |-> first])
    OBVIOUS
  <2> QED BY <2>1
<1>2. ASSUME NEW n \in Nat, n \in Told PROVE n + 1 \in Told
  <2>1. PICK g : Upto(n, g)
    BY <1>2
  <2> DEFINE h == [i \in 0..(n + 1) |-> IF i = n + 1 THEN MergeRound(t, g[n]) ELSE g[i]]
  <2>2. ASSUME NEW i \in 0..(n + 1)
        PROVE  h[i] = IF i = 0 THEN first ELSE MergeRound(t, h[i - 1])
    <3>1. CASE i = n + 1
      BY <3>1
    <3>2. CASE i # n + 1
      <4>1. i \in 0..n /\ (i # 0 => i - 1 \in 0..(n + 1) /\ i - 1 # n + 1) /\ h[i] = g[i]
        BY <3>2
      <4>2. i # 0 => h[i - 1] = g[i - 1]
        BY <4>1
      <4>3. g[i] = IF i = 0 THEN first ELSE MergeRound(t, g[i - 1])
        BY <2>1, <4>1
      <4> QED BY <4>1, <4>2, <4>3
    <3> QED BY <3>1, <3>2
  <2>3. Upto(n + 1, h)
    BY <2>2
  <2> HIDE DEF Upto
  <2> QED BY <2>3
<1>3. \A n \in Nat : n \in Told
  <2> HIDE DEF Told
  <2> QED BY <1>1, <1>2, InductionOverNat
<1>4. \A n \in Nat : Upto(n, The(n))
  <2> HIDE DEF Upto
  <2> QED BY <1>3
<1>5. ASSUME NEW n \in Nat, NEW m \in Nat, NEW g, NEW h, Upto(n, g), Upto(m, h)
      PROVE  \A k \in Nat : k <= n /\ k <= m => g[k] = h[k]
  <2> DEFINE Same == {k \in Nat : k <= n /\ k <= m => g[k] = h[k]}
  <2>1. 0 \in Same
    <3>1. g[0] = first /\ h[0] = first
      BY <1>5
    <3> QED BY <3>1
  <2>2. ASSUME NEW k \in Nat, k \in Same PROVE k + 1 \in Same
    <3> SUFFICES ASSUME k + 1 <= n, k + 1 <= m PROVE g[k + 1] = h[k + 1]
      OBVIOUS
    <3>1. g[k] = h[k] /\ (k + 1) - 1 = k /\ k + 1 # 0 /\ k + 1 \in 0..n /\ k + 1 \in 0..m
      BY <2>2
    <3>2. g[k + 1] = MergeRound(t, g[(k + 1) - 1]) /\ h[k + 1] = MergeRound(t, h[(k + 1) - 1])
      BY <1>5, <3>1
    <3> QED BY <3>1, <3>2
  <2>3. \A k \in Nat : k \in Same
    <3> HIDE DEF Same
    <3> QED BY <2>1, <2>2, InductionOverNat
  <2> QED BY <2>3
<1>6. ASSUME NEW n \in Nat PROVE f[n] = IF n = 0 THEN first ELSE MergeRound(t, f[n - 1])
  <2>1. f[n] = The(n)[n] /\ (n # 0 => n - 1 \in Nat /\ f[n - 1] = The(n - 1)[n - 1])
    OBVIOUS
  <2> HIDE DEF f, The
  <2>2. The(n)[n] = IF n = 0 THEN first ELSE MergeRound(t, The(n)[n - 1])
    BY <1>4
  <2>3. ASSUME n # 0 PROVE The(n)[n - 1] = The(n - 1)[n - 1]
    <3>1. n - 1 \in Nat /\ n - 1 <= n /\ n - 1 <= n - 1
      BY <2>3
    <3>2. Upto(n, The(n)) /\ Upto(n - 1, The(n - 1))
      BY <1>4, <3>1
    <3> HIDE DEF Upto
    <3> QED BY <1>5, <3>1, <3>2
  <2> QED BY <2>1, <2>2, <2>3
<1>7. f = [n \in Nat |-> IF n = 0 THEN first ELSE MergeRound(t, f[n - 1])]
  <2>1. f = [n \in Nat |-> f[n]]
    OBVIOUS
  <2> HIDE DEF f
  <2> QED BY <1>6, <2>1
<1> QED BY <1>7 DEF Rounds

\* The segments made so far are such as a document begins with.
FreshSegments(made) ==
    /\ made \in Seq({made[i] : i \in 1..Len(made)})
    /\ \A i \in 1..Len(made) : SegmentIsTrue(made[i])

LEMMA AppendFresh ==
    ASSUME NEW made, FreshSegments(made), NEW s, SegmentIsTrue(s)
    PROVE  FreshSegments(Append(made, s))
<1> DEFINE S == {made[i] : i \in 1..Len(made)} \cup {s}
           new == Append(made, s)
<1>0. made \in Seq({made[i] : i \in 1..Len(made)})
  BY DEF FreshSegments
<1>1. made \in Seq(S)
  <2> DEFINE R == {made[i] : i \in 1..Len(made)}
  <2> SUFFICES ASSUME made \in Seq(R) PROVE made \in Seq(R \cup {s})
    BY <1>0
  <2> HIDE DEF R
  <2> QED OBVIOUS
<1> HIDE DEF S
<1>2. /\ new \in Seq(S) /\ Len(new) = Len(made) + 1
      /\ \A i \in 1..Len(new) : new[i] = IF i = Len(made) + 1 THEN s ELSE made[i]
  <2>1. s \in S
    BY DEF S
  <2> QED BY <1>1, <2>1
<1> HIDE DEF new
<1>3. Len(new) \in Nat /\ new = [i \in 1..Len(new) |-> new[i]]
  BY <1>2
<1>4. new \in Seq({new[i] : i \in 1..Len(new)})
  BY <1>3
<1>5. Len(made) \in Nat
  BY <1>1
<1>6. \A i \in 1..Len(new) : SegmentIsTrue(new[i])
  <2> TAKE i \in 1..Len(new)
  <2>1. i # Len(made) + 1 => i \in 1..Len(made)
    BY <1>2, <1>5
  <2> QED BY <1>2, <2>1 DEF FreshSegments
<1> QED BY <1>4, <1>6 DEF FreshSegments, new

LEMMA CleanIsTrue ==
    ASSUME NEW o \in {"unchanged", "left", "right", "both-identical"},
           NEW b, NEW l, NEW r, NEW lines
    PROVE  SegmentIsTrue(CleanSegment(o, b, l, r, lines))
<1> DEFINE s == CleanSegment(o, b, l, r, lines)
<1>1. DOMAIN s = CleanFields /\ s.type = "clean" /\ s.origin = o
  BY DEF CleanSegment, CleanFields
<1> QED BY <1>1 DEF SegmentIsTrue, CleanShape

LEMMA ConflictIsTrue ==
    ASSUME NEW b, NEW l, NEW r
    PROVE  SegmentIsTrue(ConflictHunk(b, l, r))
<1> DEFINE s == ConflictHunk(b, l, r)
<1>1. /\ DOMAIN s = HunkFields /\ s.type = "conflict" /\ s.resolution = "unhandled"
      /\ ~s.leftHandled /\ ~s.rightHandled /\ ~s.handled
      /\ s.leftHandled \in BOOLEAN /\ s.rightHandled \in BOOLEAN /\ s.handled \in BOOLEAN
      /\ s.base = b /\ s.lines = b
  BY DEF ConflictHunk, HunkFields
<1>2. s.lines = ResolvedLines(s, "unhandled")
  BY <1>1 DEF ResolvedLines
<1> HIDE DEF s
<1>3. HunkIsTrue(s)
  BY <1>1, <1>2 DEF HunkIsTrue, HunkShape, Resolutions
<1> QED BY <1>3 DEF SegmentIsTrue, s

\* What a round of the merge starts with and leaves.
RoundState(s) == DOMAIN s = {"les", "res", "made", "pos"} /\ FreshSegments(s.made)

LEMMA UnchangedKeeps ==
    ASSUME NEW t, NEW s, RoundState(s), NEW upTo
    PROVE  RoundState(Unchanged(t, s, upTo))
<1> DEFINE n  == Greater(upTo - s.pos.base, 0)
           at == [side \in DOMAIN s.pos |-> s.pos[side] + n]
           c == CleanSegment("unchanged", Slice(t.base, s.pos.base, at.base),
                                          Slice(t.left, s.pos.left, at.left),
                                          Slice(t.right, s.pos.right, at.right),
                                          Slice(t.base, s.pos.base, at.base))
<1>1. Unchanged(t, s, upTo) = IF n = 0 THEN s ELSE [s EXCEPT !.pos = at, !.made = Append(s.made, c)]
  BY DEF Unchanged
<1>2. SegmentIsTrue(c)
  BY CleanIsTrue
<1> HIDE DEF n, at, c
<1>3. FreshSegments(Append(s.made, c))
  BY <1>2, AppendFresh DEF RoundState
<1> QED BY <1>1, <1>3 DEF RoundState

LEMMA RoundKeeps ==
    ASSUME NEW t, NEW s, RoundState(s)
    PROVE  RoundState(MergeRound(t, s))
<1> DEFINE starts == {es[1].baseStart : es \in {s.les, s.res} \ {<<>>}}
           start  == CHOOSE n \in starts : \A m \in starts : n <= m
           there  == Unchanged(t, s, start)
<1>1. RoundState(there)
  BY UnchangedKeeps
<1>2. \/ MergeRound(t, s) = s
      \/ MergeRound(t, s) = LeftOnly(t, there)
      \/ MergeRound(t, s) = RightOnly(t, there)
      \/ MergeRound(t, s) = Clustered(t, there, start)
  BY DEF MergeRound
<1> HIDE DEF there, start
<1>3. RoundState(LeftOnly(t, there))
  <2> DEFINE e  == there.les[1]
             to == [base |-> e.baseEnd, left |-> e.sideEnd,
                    right |-> there.pos.right + e.baseEnd - e.baseStart]
             c == CleanSegment("left", Slice(t.base, e.baseStart, to.base),
                               e.items, Slice(t.right, there.pos.right, to.right), e.items)
             es == Tail(there.les)
  <2>1. LeftOnly(t, there) = [there EXCEPT !.les = es, !.pos = to, !.made = Append(there.made, c)]
    BY DEF LeftOnly
  <2>2. SegmentIsTrue(c)
    BY CleanIsTrue
  <2> HIDE DEF e, to, c, es
  <2>3. FreshSegments(Append(there.made, c))
    BY <1>1, <2>2, AppendFresh DEF RoundState
  <2> QED BY <1>1, <2>1, <2>3 DEF RoundState
<1>4. RoundState(RightOnly(t, there))
  <2> DEFINE e  == there.res[1]
             to == [base |-> e.baseEnd, left |-> there.pos.left + e.baseEnd - e.baseStart,
                    right |-> e.sideEnd]
             c == CleanSegment("right", Slice(t.base, e.baseStart, to.base),
                               Slice(t.left, there.pos.left, to.left), e.items, e.items)
             es == Tail(there.res)
  <2>1. RightOnly(t, there) = [there EXCEPT !.res = es, !.pos = to, !.made = Append(there.made, c)]
    BY DEF RightOnly
  <2>2. SegmentIsTrue(c)
    BY CleanIsTrue
  <2> HIDE DEF e, to, c, es
  <2>3. FreshSegments(Append(there.made, c))
    BY <1>1, <2>2, AppendFresh DEF RoundState
  <2> QED BY <1>1, <2>1, <2>3 DEF RoundState
<1>5. RoundState(Clustered(t, there, start))
  <2>1. \E les, res, to, bs, ls, rs :
           Clustered(t, there, start) =
              [les |-> les, res |-> res, pos |-> to,
               made |-> Append(there.made, ClusterSegment(bs, ls, rs))]
    BY DEF Clustered
  <2>2. PICK les, res, to, bs, ls, rs :
           Clustered(t, there, start) =
              [les |-> les, res |-> res, pos |-> to,
               made |-> Append(there.made, ClusterSegment(bs, ls, rs))]
    BY <2>1
  <2>3. SegmentIsTrue(ClusterSegment(bs, ls, rs))
    BY CleanIsTrue, ConflictIsTrue DEF ClusterSegment
  <2>4. FreshSegments(Append(there.made, ClusterSegment(bs, ls, rs)))
    BY <1>1, <2>3, AppendFresh DEF RoundState
  <2> QED BY <2>2, <2>4 DEF RoundState
<1> QED BY <1>2, <1>3, <1>4, <1>5

\* A sequence of something: its length is a number.
LEMMA AnchorsAreASeq ==
    ASSUME NEW a, Len(a) \in Nat, NEW b
    PROVE  \E S : Anchors(a, b) \in Seq(S) /\ Anchors(a, b) # <<>>
<1> DEFINE Found(i) == {m \in MatchedPairs(a, b) : m[1] = i}
           piece == [i \in 1..Len(a) |-> IF Found(i) = {} THEN <<>>
                                        ELSE <<CHOOSE m \in Found(i) : TRUE>>]
           S == {<<0, 0>>, <<Len(a) + 1, Len(b) + 1>>}
                  \cup {CHOOSE m \in Found(i) : TRUE : i \in 1..Len(a)}
<1>1. Anchors(a, b) = <<<<0, 0>>>> \o FlattenSeq(piece) \o <<<<Len(a) + 1, Len(b) + 1>>>>
  BY DEF Anchors
<1>2. piece \in Seq(Seq(S))
  <2>1. \A i \in 1..Len(a) : (CHOOSE m \in Found(i) : TRUE) \in S
    OBVIOUS
  <2> HIDE DEF S, Found
  <2>2. \A i \in 1..Len(a) : piece[i] \in Seq(S)
    BY <2>1
  <2>3. piece = [i \in 1..Len(a) |-> piece[i]]
    OBVIOUS
  <2> HIDE DEF piece
  <2> QED BY <2>2, <2>3
<1>3. FlattenSeq(piece) \in Seq(S)
  <2> HIDE DEF piece, S
  <2> QED BY <1>2, FlattenType
<1>4. <<<<0, 0>>>> \in Seq(S) /\ <<<<Len(a) + 1, Len(b) + 1>>>> \in Seq(S)
  OBVIOUS
<1> DEFINE found == FlattenSeq(piece)
<1> HIDE DEF piece, S, found
<1>5. found \in Seq(S)
  BY <1>3 DEF found
<1>6. /\ <<<<0, 0>>>> \o found \o <<<<Len(a) + 1, Len(b) + 1>>>> \in Seq(S)
      /\ <<<<0, 0>>>> \o found \o <<<<Len(a) + 1, Len(b) + 1>>>> # <<>>
  BY <1>4, <1>5
<1> QED BY <1>1, <1>6 DEF found

\* The edits that make one sequence of another are a sequence.
LEMMA EditsAreASeq ==
    ASSUME NEW a, Len(a) \in Nat, NEW b
    PROVE  Len(SequenceEdits(a, b)) \in Nat
<1> DEFINE anchors == Anchors(a, b)
           Edit(m, n) == [baseStart |-> m[1], baseEnd |-> n[1] - 1,
                          sideStart |-> m[2], sideEnd |-> n[2] - 1,
                          items     |-> SubSeq(b, m[2] + 1, n[2] - 1)]
           Between(m, n) == IF n = <<m[1] + 1, m[2] + 1>> THEN <<>> ELSE <<Edit(m, n)>>
           pieces == [i \in 1..(Len(anchors) - 1) |-> Between(anchors[i], anchors[i + 1])]
           S == {Edit(anchors[i], anchors[i + 1]) : i \in 1..(Len(anchors) - 1)}
<1>1. SequenceEdits(a, b) = FlattenSeq(pieces)
  BY DEF SequenceEdits, EditsBetween
<1>2. Len(anchors) \in Nat /\ Len(anchors) # 0
  <2>1. PICK T : anchors \in Seq(T) /\ anchors # <<>>
    BY AnchorsAreASeq
  <2> HIDE DEF anchors
  <2> QED BY <2>1
<1> HIDE DEF anchors
<1>3. pieces \in Seq(Seq(S))
  <2>1. \A i \in 1..(Len(anchors) - 1) : Edit(anchors[i], anchors[i + 1]) \in S
    OBVIOUS
  <2> HIDE DEF S, Edit
  <2>2. \A i \in 1..(Len(anchors) - 1) : pieces[i] \in Seq(S)
    BY <2>1
  <2>3. pieces = [i \in 1..(Len(anchors) - 1) |-> pieces[i]]
    OBVIOUS
  <2> HIDE DEF pieces
  <2> QED BY <1>2, <2>2, <2>3
<1>4. FlattenSeq(pieces) \in Seq(S)
  <2> HIDE DEF pieces, S
  <2> QED BY <1>3, FlattenType
<1> QED BY <1>1, <1>4

\* What computeThreeWayMerge returns: every conflict unhandled, with the base's lines.
LEMMA MergeIsFresh ==
    ASSUME NEW t, NEW les, NEW res, Len(les) \in Nat, Len(res) \in Nat
    PROVE  FreshSegments(MergedSegments(t, les, res))
<1> DEFINE first == [les |-> les, res |-> res, made |-> <<>>,
                     pos |-> [base |-> 0, left |-> 0, right |-> 0]]
           after == CHOOSE f : Rounds(t, first, f)
           Kept == {n \in Nat : RoundState(after[n])}
<1>1. Rounds(t, first, after)
  BY RoundsExist
<1>2. MergedSegments(t, les, res) = Unchanged(t, after[Len(les) + Len(res)], Len(t.base)).made
  BY DEF MergedSegments, Rounds
<1>3. \A n \in Nat : after[n] = IF n = 0 THEN first ELSE MergeRound(t, after[n - 1])
  <2> HIDE DEF after, first
  <2> QED BY <1>1 DEF Rounds
<1> HIDE DEF after
<1>4. 0 \in Kept
  <2>1. RoundState(first)
    BY DEF RoundState, FreshSegments
  <2> QED BY <1>3, <2>1
<1>5. ASSUME NEW n \in Nat, n \in Kept PROVE n + 1 \in Kept
  <2>1. after[n + 1] = MergeRound(t, after[n])
    BY <1>3
  <2> QED BY <1>5, <2>1, RoundKeeps
<1>6. RoundState(after[Len(les) + Len(res)])
  <2>1. Len(les) + Len(res) \in Nat
    OBVIOUS
  <2>2. Len(les) + Len(res) \in Kept
    <3> HIDE DEF Kept
    <3> QED BY <1>4, <1>5, <2>1, InductionOverNat
  <2> QED BY <2>2
<1> QED BY <1>2, <1>6, UnchangedKeeps DEF RoundState

LEMMA InitDocument == MergeAssumption /\ EditorInit => DocumentInv
<1> SUFFICES ASSUME MergeAssumption, EditorInit PROVE DocumentInv
  OBVIOUS
<1> DEFINE t == [base |-> texts.base.lines, left |-> texts.left.lines, right |-> texts.right.lines]
           les == SequenceEdits(t.base, t.left)
           res == SequenceEdits(t.base, t.right)
<1>1. texts.base \in Texts /\ texts.left \in Texts /\ texts.right \in Texts
  BY DEF EditorInit
<1>2. newline \in BOOLEAN /\ edits \in 0..MaxEdits
  <2>1. \A side \in {"base", "left", "right"} : texts[side].newline \in BOOLEAN
    BY <1>1 DEF MergeAssumption
  <2> QED BY <2>1 DEF EditorInit, ResolveTrailingNewline, MergeAssumption
<1>3. Len(texts.base.lines) \in Nat
  BY <1>1 DEF MergeAssumption
<1>4. Len(les) \in Nat /\ Len(res) \in Nat
  BY <1>3, EditsAreASeq
<1>5. segments = MergedSegments(t, les, res)
  BY DEF EditorInit, ThreeWayMerge
<1> HIDE DEF t, les, res
<1>6. FreshSegments(segments)
  BY <1>4, <1>5, MergeIsFresh
<1>7. Len(segments) \in Nat /\ DOMAIN segments = 1..Len(segments)
      /\ segments = [i \in 1..Len(segments) |-> segments[i]]
  BY <1>6 DEF FreshSegments
<1>8. TrueSegments(segments)
  BY <1>6, <1>7 DEF TrueSegments, FreshSegments
<1> QED BY <1>2, <1>8 DEF DocumentInv

LEMMA NextDocument == MergeAssumption /\ DocumentInv /\ [EditorNext]_editorVars => DocumentInv'
<1> SUFFICES ASSUME MergeAssumption, DocumentInv, [EditorNext]_editorVars PROVE DocumentInv'
  OBVIOUS
<1>1. ASSUME NEW new, Step(new), TrueSegments(segments') PROVE DocumentInv'
  BY <1>1 DEF Step, DocumentInv, MergeAssumption
<1>2. ASSUME NEW i \in Conflicts, NEW r \in Resolutions, Resolve(i, r) PROVE DocumentInv'
  BY <1>1, <1>2, ResolveStep DEF Resolve
<1>3. ASSUME NEW i \in Conflicts, NEW t \in Inputs, CustomInput(i, t.lines) PROVE DocumentInv'
  BY <1>1, <1>3, CustomStep DEF CustomInput
<1>4. ASSUME NEW i \in Conflicts, NEW side \in {"left", "right"}, IgnoreSide(i, side)
      PROVE  DocumentInv'
  BY <1>1, <1>4, IgnoreStep DEF IgnoreSide
<1>5. ASSUME NEW i \in Conflicts, ToggleHandled(i) PROVE DocumentInv'
  BY <1>1, <1>5, HandledStep DEF ToggleHandled
<1>6. ASSUME NEW i \in DOMAIN segments, ToggleAccepted(i) PROVE DocumentInv'
  BY <1>1, <1>6, AcceptedStep DEF ToggleAccepted
<1>7. ASSUME NEW side \in {"left", "right"}, ResolveAll(side) PROVE DocumentInv'
  BY <1>1, <1>7, AllStep DEF ResolveAll
<1>8. ASSUME NEW t \in Inputs, Sync(t) PROVE DocumentInv'
  <2>1. newline' \in BOOLEAN /\ TrueSegments(segments')
    BY <1>8, SyncStep
  <2>2. edits' \in 0..MaxEdits
    BY <1>8 DEF Sync, DocumentInv, MergeAssumption
  <2> QED BY <2>1, <2>2 DEF DocumentInv
<1>9. CASE UNCHANGED editorVars
  BY <1>9 DEF editorVars, DocumentInv, TrueSegments
<1> QED BY <1>2, <1>3, <1>4, <1>5, <1>6, <1>7, <1>8, <1>9 DEF EditorNext

\* For any texts and any steps of the user, typed text included: what the resolution of
\* a hunk says are its lines are its lines, it is handled when both sides are, and what
\* is unhandled never counts as handled.
THEOREM ResolutionsStayTrue == EditorSpec => []ResolutionsAreTrue
<1>1. EditorInit => DocumentInv
  BY MergeAssumption, InitDocument
<1>2. DocumentInv /\ [EditorNext]_editorVars => DocumentInv'
  BY MergeAssumption, NextDocument
<1> QED BY <1>1, <1>2, InvGives, PTL DEF EditorSpec

-----------------------------------------------------------------------------
(* The merge: segments that have all the lines up to a place. *)

TextSides == {"base", "left", "right"}
Parts == {"base", "left", "right", "lines"}

\* What is taken from one side was left alone by the other.
SegmentTakes(s) ==
    IF s.type = "conflict" THEN s.left # s.right
    ELSE /\ s.origin \in {"unchanged", "left"} => s.right = s.base
         /\ s.origin \in {"unchanged", "right"} => s.left = s.base
         /\ s.origin = "both-identical" => s.left = s.right

PartsTyped(S, s) == \A part \in Parts : s[part] \in Seq(S)

\* The lines of one part of all the segments.
PartOf(made, part) == FlattenSeq([k \in 1..Len(made) |-> made[k][part]])

TextsTyped(S, t) == \A side \in TextSides : t[side] \in Seq(S)
Within3(t, pos) == \A side \in TextSides : pos[side] \in Nat /\ pos[side] <= Len(t[side])

\* The segments made so far have all the lines up to pos.
Taken(S, t, made, pos) ==
    /\ FreshSegments(made)
    /\ \A k \in 1..Len(made) : PartsTyped(S, made[k]) /\ SegmentTakes(made[k])
    /\ \A side \in TextSides : PartOf(made, side) = SubSeq(t[side], 1, pos[side])

\* A segment with the lines from pos to the new ones.
Spanning(S, t, g, pos, to) ==
    /\ SegmentIsTrue(g) /\ PartsTyped(S, g) /\ SegmentTakes(g)
    /\ \A side \in TextSides : /\ pos[side] <= to[side]
                               /\ g[side] = SubSeq(t[side], pos[side] + 1, to[side])

LEMMA AppendIs ==
    ASSUME NEW made, FreshSegments(made), NEW g
    PROVE  /\ Len(made) \in Nat /\ Len(Append(made, g)) = Len(made) + 1
           /\ Append(made, g)[Len(made) + 1] = g
           /\ \A k \in 1..Len(made) : Append(made, g)[k] = made[k]
<1> DEFINE R == {made[i] : i \in 1..Len(made)}
<1>1. made \in Seq(R)
  BY DEF FreshSegments
<1> HIDE DEF R
<1> QED BY <1>1

\* One more segment, of one part of all.
LEMMA PartGrows ==
    ASSUME NEW S, NEW made, FreshSegments(made), NEW part, NEW g, g[part] \in Seq(S),
           \A k \in 1..Len(made) : made[k][part] \in Seq(S)
    PROVE  PartOf(Append(made, g), part) = PartOf(made, part) \o g[part]
<1> DEFINE new == Append(made, g)
           n == Len(made)
           pieces == [k \in 1..(n + 1) |-> new[k][part]]
<1>1. /\ n \in Nat /\ Len(new) = n + 1 /\ new[n + 1] = g
      /\ \A k \in 1..n : new[k] = made[k]
  BY AppendIs
<1> HIDE DEF new
<1>2. \A k \in 1..(n + 1) : pieces[k] \in Seq(S)
  <2> TAKE k \in 1..(n + 1)
  <2>1. k = n + 1 \/ k \in 1..n
    BY <1>1
  <2>2. pieces[k] = new[k][part]
    OBVIOUS
  <2> QED BY <1>1, <2>1, <2>2
<1>3. pieces[n + 1] = g[part] /\ \A k \in 1..n : pieces[k] = made[k][part]
  BY <1>1
<1>4. [k \in 1..n |-> pieces[k]] = [k \in 1..n |-> made[k][part]]
  BY <1>3
<1>5. [k \in 1..(n + 1) |-> pieces[k]] = [k \in 1..(n + 1) |-> new[k][part]]
  OBVIOUS
<1> HIDE DEF pieces
<1>6. FlattenSeq([k \in 1..(n + 1) |-> pieces[k]]) = FlattenSeq([k \in 1..n |-> pieces[k]]) \o pieces[n + 1]
  BY <1>1, <1>2, FlattenGrows
<1> QED BY <1>1, <1>3, <1>4, <1>5, <1>6 DEF PartOf, new

LEMMA TakesMore ==
    ASSUME NEW S, NEW t, TextsTyped(S, t), NEW made, NEW pos, NEW to,
           Within3(t, pos), Within3(t, to),
           Taken(S, t, made, pos), NEW g, Spanning(S, t, g, pos, to)
    PROVE  Taken(S, t, Append(made, g), to)
<1>1. FreshSegments(made) /\ SegmentIsTrue(g) /\ PartsTyped(S, g) /\ SegmentTakes(g)
  BY DEF Taken, Spanning
<1>2. FreshSegments(Append(made, g))
  BY <1>1, AppendFresh
<1>3. ASSUME NEW k \in 1..Len(Append(made, g))
      PROVE  PartsTyped(S, Append(made, g)[k]) /\ SegmentTakes(Append(made, g)[k])
  <2>1. /\ Len(made) \in Nat /\ Len(Append(made, g)) = Len(made) + 1
        /\ Append(made, g)[Len(made) + 1] = g
        /\ \A i \in 1..Len(made) : Append(made, g)[i] = made[i]
    BY <1>1, AppendIs
  <2>2. k = Len(made) + 1 \/ k \in 1..Len(made)
    BY <2>1
  <2> QED BY <1>1, <2>1, <2>2 DEF Taken
<1>4. ASSUME NEW side \in TextSides
      PROVE  PartOf(Append(made, g), side) = SubSeq(t[side], 1, to[side])
  <2>1. side \in Parts
    BY DEF Parts, TextSides
  <2>2. g[side] \in Seq(S) /\ \A k \in 1..Len(made) : made[k][side] \in Seq(S)
    BY <1>1, <2>1 DEF PartsTyped, Taken
  <2>3. PartOf(Append(made, g), side) = PartOf(made, side) \o g[side]
    BY <1>1, <2>2, PartGrows
  <2>4. PartOf(made, side) = SubSeq(t[side], 1, pos[side])
    BY DEF Taken
  <2>5. g[side] = SubSeq(t[side], pos[side] + 1, to[side]) /\ pos[side] <= to[side]
    BY DEF Spanning
  <2>6. /\ t[side] \in Seq(S) /\ pos[side] \in Nat /\ to[side] \in Nat /\ to[side] <= Len(t[side])
    BY DEF TextsTyped, Within3
  <2>7. SubSeq(t[side], 1, pos[side]) \o SubSeq(t[side], pos[side] + 1, to[side]) = SubSeq(t[side], 1, to[side])
    BY <2>5, <2>6, SlicesJoin
  <2> QED BY <2>3, <2>4, <2>5, <2>7
<1> QED BY <1>2, <1>3, <1>4 DEF Taken

LEMMA NothingTaken ==
    ASSUME NEW S, NEW t
    PROVE  Taken(S, t, <<>>, [base |-> 0, left |-> 0, right |-> 0])
<1>1. FreshSegments(<<>>)
  BY DEF FreshSegments
<1>2. Len(<<>>) = 0 /\ 1..Len(<<>>) = {}
  OBVIOUS
<1>3. ASSUME NEW side \in TextSides
      PROVE  PartOf(<<>>, side) = SubSeq(t[side], 1, [base |-> 0, left |-> 0, right |-> 0][side])
  <2>1. [base |-> 0, left |-> 0, right |-> 0][side] = 0
    BY DEF TextSides
  <2>2. PartOf(<<>>, side) = <<>>
    <3> DEFINE piece(k) == <<>>[k][side]
    <3>1. [k \in 1..Len(<<>>) |-> piece(k)] = <<>>
      BY <1>2
    <3> QED BY <3>1 DEF PartOf, FlattenSeq
  <2>3. SubSeq(t[side], 1, 0) = <<>>
    OBVIOUS
  <2> QED BY <2>1, <2>2, <2>3
<1> QED BY <1>1, <1>2, <1>3 DEF Taken

-----------------------------------------------------------------------------
(* The merge: where the loop is, and the lines no edit is about. *)

\* The three texts, and the edits that make the sides of the base.
Merging(S, t, LE, RE) ==
    /\ TextsTyped(S, t)
    /\ Script(S, t.base, t.left, LE, Len(t.base), Len(t.left))
    /\ Script(S, t.base, t.right, RE, Len(t.base), Len(t.right))

Rendering(made, part) == \A k \in 1..Len(made) : made[k].lines = made[k][part]

\* The sides are the same, and have the same edits.
OneSide(t, LE, RE) == t.left = t.right /\ LE = RE

\* A side that is all there is to merge is the result so far.
Favours(t, LE, RE, s, i, j) ==
    /\ LE = <<>> => Rendering(s.made, "right")
    /\ RE = <<>> => Rendering(s.made, "left")
    /\ OneSide(t, LE, RE) => i = j /\ s.pos.left = s.pos.right /\ Rendering(s.made, "left")

\* Between two rounds: i edits of the left and j of the right are gone.
MergeState(S, t, LE, RE, s, i, j) ==
    /\ DOMAIN s = {"les", "res", "made", "pos"} /\ DOMAIN s.pos = TextSides
    /\ s.les = EditsFrom(LE, i) /\ s.res = EditsFrom(RE, j)
    /\ Ahead(t.base, t.left, LE, i, s.pos.base, s.pos.left)
    /\ Ahead(t.base, t.right, RE, j, s.pos.base, s.pos.right)
    /\ Taken(S, t, s.made, s.pos)
    /\ Favours(t, LE, RE, s, i, j)

\* Where the sides are is within them.
LEMMA AheadIsWithin ==
    ASSUME NEW S, NEW a \in Seq(S), NEW b \in Seq(S), NEW es, Script(S, a, b, es, Len(a), Len(b)),
           NEW k, NEW p, NEW q, Ahead(a, b, es, k, p, q)
    PROVE  /\ k \in 0..Len(es) /\ p \in Nat /\ q \in Nat /\ p <= NextBase(es, a, k)
           /\ NextBase(es, a, k) - p = NextThere(es, b, k) - q
           /\ p <= Len(a) /\ q <= Len(b)
<1> DEFINE u == NextBase(es, a, k)
           w == NextThere(es, b, k)
<1>0. k \in 0..Len(es) /\ p \in Nat /\ q \in Nat /\ Len(a) \in Nat /\ Len(b) \in Nat
  BY DEF Ahead
<1>1. u \in Nat /\ u <= Len(a) /\ w \in Nat /\ w <= Len(b)
  BY <1>0, NextIs
<1>2. p <= u /\ u - p = w - q
  BY DEF Ahead, Even
<1> HIDE DEF u, w
<1>3. p <= Len(a) /\ q <= Len(b)
  BY <1>0, <1>1, <1>2
<1> QED BY <1>0, <1>2, <1>3 DEF u, w

LEMMA StateWithin ==
    ASSUME NEW S, NEW t, NEW LE, NEW RE, Merging(S, t, LE, RE), NEW i, NEW j, NEW pos,
           Ahead(t.base, t.left, LE, i, pos.base, pos.left),
           Ahead(t.base, t.right, RE, j, pos.base, pos.right)
    PROVE  Within3(t, pos)
<1>1. t.base \in Seq(S) /\ t.left \in Seq(S) /\ t.right \in Seq(S)
  BY DEF Merging, TextsTyped, TextSides
<1>2. /\ pos.base \in Nat /\ pos.base <= Len(t.base)
      /\ pos.left \in Nat /\ pos.left <= Len(t.left)
  BY <1>1, AheadIsWithin DEF Merging
<1>3. pos.right \in Nat /\ pos.right <= Len(t.right)
  BY <1>1, AheadIsWithin DEF Merging
<1> QED BY <1>2, <1>3 DEF Within3, TextSides

\* What a segment must be for the sides to stay favoured.
Favoured(t, LE, RE, g) ==
    /\ LE = <<>> => g.lines = g.right
    /\ RE = <<>> => g.lines = g.left
    /\ OneSide(t, LE, RE) => g.lines = g.left

LEMMA RenderingGrows ==
    ASSUME NEW made, FreshSegments(made), NEW g, NEW part, Rendering(made, part), g.lines = g[part]
    PROVE  Rendering(Append(made, g), part)
<1>1. /\ Len(made) \in Nat /\ Len(Append(made, g)) = Len(made) + 1
      /\ Append(made, g)[Len(made) + 1] = g
      /\ \A k \in 1..Len(made) : Append(made, g)[k] = made[k]
  BY AppendIs
<1>2. \A k \in 1..(Len(made) + 1) : k = Len(made) + 1 \/ k \in 1..Len(made)
  BY <1>1
<1> DEFINE new == Append(made, g)
<1> HIDE DEF new
<1> SUFFICES ASSUME NEW k \in 1..Len(new) PROVE new[k].lines = new[k][part]
  BY DEF Rendering, new
<1> QED BY <1>1, <1>2 DEF Rendering, new

\* A step of the merge: one more segment.
LEMMA StepKeeps ==
    ASSUME NEW S, NEW t, NEW LE, NEW RE, Merging(S, t, LE, RE),
           NEW s, NEW i, NEW j, MergeState(S, t, LE, RE, s, i, j),
           NEW n, NEW k, NEW l, NEW g,
           DOMAIN n = {"les", "res", "made", "pos"}, DOMAIN n.pos = TextSides,
           n.les = EditsFrom(LE, k), n.res = EditsFrom(RE, l), n.made = Append(s.made, g),
           Ahead(t.base, t.left, LE, k, n.pos.base, n.pos.left),
           Ahead(t.base, t.right, RE, l, n.pos.base, n.pos.right),
           Spanning(S, t, g, s.pos, n.pos), Favoured(t, LE, RE, g),
           OneSide(t, LE, RE) => k = l /\ n.pos.left = n.pos.right
    PROVE  MergeState(S, t, LE, RE, n, k, l)
<1>1. TextsTyped(S, t) /\ Taken(S, t, s.made, s.pos)
  BY DEF Merging, MergeState
<1>2. Within3(t, s.pos)
  BY StateWithin DEF MergeState
<1>3. Within3(t, n.pos)
  BY StateWithin
<1>4. Taken(S, t, n.made, n.pos)
  BY <1>1, <1>2, <1>3, TakesMore
<1>5. FreshSegments(s.made)
  BY <1>1 DEF Taken
<1>6. \A part : Rendering(s.made, part) /\ g.lines = g[part] => Rendering(n.made, part)
  BY <1>5, RenderingGrows
<1>7. Favours(t, LE, RE, n, k, l)
  <2>1. Favours(t, LE, RE, s, i, j)
    BY DEF MergeState
  <2>2. ASSUME LE = <<>> PROVE Rendering(n.made, "right")
    BY <1>6, <2>1, <2>2 DEF Favours, Favoured
  <2>3. ASSUME RE = <<>> PROVE Rendering(n.made, "left")
    BY <1>6, <2>1, <2>3 DEF Favours, Favoured
  <2>4. ASSUME OneSide(t, LE, RE) PROVE Rendering(n.made, "left")
    BY <1>6, <2>1, <2>4 DEF Favours, Favoured
  <2> QED BY <2>2, <2>3, <2>4 DEF Favours
<1> QED BY <1>4, <1>7 DEF MergeState

\* What no edit touches is taken as it is.
LEMMA UnchangedTakes ==
    ASSUME NEW S, NEW t, NEW LE, NEW RE, Merging(S, t, LE, RE),
           NEW s, NEW i, NEW j, MergeState(S, t, LE, RE, s, i, j),
           NEW upTo \in Nat, s.pos.base <= upTo,
           upTo <= NextBase(LE, t.base, i), upTo <= NextBase(RE, t.base, j)
    PROVE  MergeState(S, t, LE, RE, Unchanged(t, s, upTo), i, j) /\ Unchanged(t, s, upTo).pos.base = upTo
<1> DEFINE d  == Greater(upTo - s.pos.base, 0)
           at == [side \in DOMAIN s.pos |-> s.pos[side] + d]
           g == CleanSegment("unchanged", Slice(t.base, s.pos.base, at.base),
                                          Slice(t.left, s.pos.left, at.left),
                                          Slice(t.right, s.pos.right, at.right),
                                          Slice(t.base, s.pos.base, at.base))
           n == [s EXCEPT !.pos = at, !.made = Append(s.made, g)]
<1>1. Unchanged(t, s, upTo) = IF d = 0 THEN s ELSE n
  BY DEF Unchanged
<1>2. /\ DOMAIN s = {"les", "res", "made", "pos"} /\ DOMAIN s.pos = TextSides
      /\ s.les = EditsFrom(LE, i) /\ s.res = EditsFrom(RE, j)
      /\ Ahead(t.base, t.left, LE, i, s.pos.base, s.pos.left)
      /\ Ahead(t.base, t.right, RE, j, s.pos.base, s.pos.right)
      /\ Favours(t, LE, RE, s, i, j)
  BY DEF MergeState
<1>3. \A side \in TextSides : s.pos[side] \in Nat
  BY <1>2, StateWithin DEF Within3
<1>4. s.pos.base \in Nat /\ s.pos.left \in Nat /\ s.pos.right \in Nat
  BY <1>3 DEF TextSides
<1>5. d \in Nat /\ d = upTo - s.pos.base /\ (d = 0 => s.pos.base = upTo)
  BY <1>4 DEF Greater
<1>6. CASE d = 0
  BY <1>1, <1>5, <1>6
<1>7. CASE d # 0
  <2>1. /\ at.base = upTo /\ at.left = s.pos.left + (upTo - s.pos.base)
        /\ at.right = s.pos.right + (upTo - s.pos.base) /\ DOMAIN at = TextSides
        /\ \A side \in TextSides : s.pos[side] <= at[side]
    <3>1. \A side \in TextSides : at[side] = s.pos[side] + d /\ s.pos[side] <= s.pos[side] + d
      <4>1. \A side \in TextSides : at[side] = s.pos[side] + d
        BY <1>2
      <4> HIDE DEF at, d
      <4> QED BY <1>3, <1>5, <4>1
    <3>2. DOMAIN at = TextSides
      BY <1>2
    <3> HIDE DEF at, d
    <3>3. at.base = s.pos.base + d /\ at.left = s.pos.left + d /\ at.right = s.pos.right + d
      BY <3>1 DEF TextSides
    <3>4. s.pos.base + d = upTo
      BY <1>4, <1>5
    <3> QED BY <1>5, <3>1, <3>2, <3>3, <3>4
  <2>2. t.base \in Seq(S) /\ t.left \in Seq(S) /\ t.right \in Seq(S)
    BY DEF Merging, TextsTyped, TextSides
  <2> HIDE DEF d, at
  <2> DEFINE p == s.pos.base
             x == at.base
  <2>14. x \in Nat /\ p <= x /\ x <= NextBase(LE, t.base, i) /\ x <= NextBase(RE, t.base, j)
    BY <2>1
  <2>15. Makes(S, t.base, t.left, LE) /\ Makes(S, t.base, t.right, RE)
    BY <2>2 DEF Merging, Makes
  <2>3. /\ Ahead(t.base, t.left, LE, i, at.base, at.left)
        /\ Slice(t.base, s.pos.base, at.base) = Slice(t.left, s.pos.left, at.left)
    <3> DEFINE q == s.pos.left
               y == at.left
    <3>1. Reach(t.base, LE, i, p, q, x, y)
      BY <2>1, <2>14 DEF Reach
    <3>2. Ahead(t.base, t.left, LE, i, p, q)
      BY <1>2
    <3> HIDE DEF p, x, q, y
    <3>3. Reached(t.base, t.left, LE, i, p, q, x, y)
      BY <2>15, <3>1, <3>2, ReachedSo
    <3> QED BY <3>3 DEF Reached, Slice, p, q, x, y
  <2>4. /\ Ahead(t.base, t.right, RE, j, at.base, at.right)
        /\ Slice(t.base, s.pos.base, at.base) = Slice(t.right, s.pos.right, at.right)
    <3> DEFINE q == s.pos.right
               y == at.right
    <3>1. Reach(t.base, RE, j, p, q, x, y)
      BY <2>1, <2>14 DEF Reach
    <3>2. Ahead(t.base, t.right, RE, j, p, q)
      BY <1>2
    <3> HIDE DEF p, x, q, y
    <3>3. Reached(t.base, t.right, RE, j, p, q, x, y)
      BY <2>15, <3>1, <3>2, ReachedSo
    <3> QED BY <3>3 DEF Reached, Slice, p, q, x, y
  <2>5. Slice(t.base, s.pos.base, at.base) \in Seq(S)
    <3>1. at.base \in Int /\ at.base <= Len(t.base)
      <4>1. Within3(t, at)
        BY <2>3, <2>4, StateWithin
      <4> QED BY <4>1 DEF Within3, TextSides
    <3> QED BY <1>4, <2>2, <3>1, PartIs DEF Slice
  <2> DEFINE bs == Slice(t.base, s.pos.base, at.base)
             ls == Slice(t.left, s.pos.left, at.left)
             rs == Slice(t.right, s.pos.right, at.right)
  <2>6. SegmentIsTrue(g)
    BY CleanIsTrue
  <2>7. /\ g.type = "clean" /\ g.origin = "unchanged"
        /\ g.base = bs /\ g.left = ls /\ g.right = rs /\ g.lines = bs
    BY DEF CleanSegment
  <2>8. /\ n.les = s.les /\ n.res = s.res /\ n.pos = at /\ n.made = Append(s.made, g)
        /\ DOMAIN n = {"les", "res", "made", "pos"}
    <3> HIDE DEF g
    <3> QED BY <1>2
  <2>9. ls = bs /\ rs = bs /\ bs \in Seq(S)
    BY <2>3, <2>4, <2>5
  <2>10. Spanning(S, t, g, s.pos, at)
    <3>1. PartsTyped(S, g)
      <4> HIDE DEF g, bs, ls, rs
      <4> QED BY <2>7, <2>9 DEF PartsTyped, Parts
    <3>2. SegmentTakes(g)
      <4> HIDE DEF g, bs, ls, rs
      <4> QED BY <2>7, <2>9 DEF SegmentTakes
    <3>3. ASSUME NEW side \in TextSides PROVE g[side] = SubSeq(t[side], s.pos[side] + 1, at[side])
      <4> HIDE DEF g
      <4> QED BY <2>7 DEF Slice, TextSides
    <3> QED BY <2>1, <2>6, <3>1, <3>2, <3>3 DEF Spanning
  <2>11. Favoured(t, LE, RE, g)
    <3> HIDE DEF g, bs, ls, rs
    <3> QED BY <2>7, <2>9 DEF Favoured
  <2>12. OneSide(t, LE, RE) => i = j /\ at.left = at.right
    BY <1>2, <2>1 DEF Favours
  <2> HIDE DEF g, n
  <2>13. MergeState(S, t, LE, RE, n, i, j)
    BY <1>2, <2>1, <2>3, <2>4, <2>8, <2>10, <2>11, <2>12, StepKeeps
  <2> QED BY <1>1, <1>7, <2>1, <2>8, <2>13
<1> QED BY <1>6, <1>7

-----------------------------------------------------------------------------
(* The merge: the edits that are left. *)

\* What is left of the edits, and where its first begins.
Heads(a, b, es, k) ==
    /\ EditsFrom(es, k) = <<>> <=> k = Len(es)
    /\ k # Len(es) => /\ EditsFrom(es, k)[1] = es[k + 1] /\ Tail(EditsFrom(es, k)) = EditsFrom(es, k + 1)
                      /\ NextBase(es, a, k) = es[k + 1].baseStart
                      /\ NextThere(es, b, k) = es[k + 1].sideStart
                      /\ k + 1 \in 1..Len(es) /\ k + 1 \in 0..Len(es)

LEMMA HeadIs ==
    \A S, a, b, es, k : Makes(S, a, b, es) /\ k \in 0..Len(es) => Heads(a, b, es, k)
<1> SUFFICES ASSUME NEW S, NEW a, NEW b, NEW es, NEW k, Makes(S, a, b, es), k \in 0..Len(es)
             PROVE  Heads(a, b, es, k)
  OBVIOUS
<1>1. es \in Seq(EditsOf(S))
  BY DEF Makes, Script
<1> QED BY <1>1, RestIs DEF NextBase, NextThere, Heads

\* What an edit is.
EditIs(S, a, b, e) ==
    /\ e.baseStart \in Nat /\ e.baseEnd \in Nat /\ e.sideStart \in Nat /\ e.sideEnd \in Nat
    /\ e.baseStart <= e.baseEnd /\ e.baseEnd <= Len(a)
    /\ e.sideStart <= e.sideEnd /\ e.sideEnd <= Len(b)
    /\ e.items = SubSeq(b, e.sideStart + 1, e.sideEnd) /\ e.items \in Seq(S)

LEMMA EditsAre ==
    \A S, a, b, es, k : Makes(S, a, b, es) /\ k \in 1..Len(es) => EditIs(S, a, b, es[k])
<1> SUFFICES ASSUME NEW S, NEW a, NEW b, NEW es, NEW k, Makes(S, a, b, es), k \in 1..Len(es)
             PROVE  EditIs(S, a, b, es[k])
  OBVIOUS
<1>1. Script(S, a, b, es, Len(a), Len(b))
  BY DEF Makes
<1>2. ProperEdit(a, b, es[k])
  BY <1>1 DEF Script
<1>3. /\ es[k].baseStart \in Nat /\ es[k].baseEnd \in Nat
      /\ es[k].sideStart \in Nat /\ es[k].sideEnd \in Nat /\ es[k].items \in Seq(S)
  BY <1>1, ScriptType
<1> QED BY <1>2, <1>3 DEF ProperEdit, EditIs

\* What Ahead says in numbers.
AheadSays(a, b, es, k, p, q) ==
    /\ k \in 0..Len(es) /\ Len(es) \in Nat /\ p \in Nat /\ q \in Nat /\ Len(a) \in Nat /\ Len(b) \in Nat
    /\ NextBase(es, a, k) \in Nat /\ NextBase(es, a, k) <= Len(a)
    /\ NextThere(es, b, k) \in Nat /\ NextThere(es, b, k) <= Len(b)
    /\ p <= NextBase(es, a, k) /\ NextBase(es, a, k) - p = NextThere(es, b, k) - q
    /\ p <= Len(a) /\ q <= Len(b) /\ q <= NextThere(es, b, k)

LEMMA AheadNumbers ==
    \A S, a, b, es, k, p, q :
       Makes(S, a, b, es) /\ Ahead(a, b, es, k, p, q) => AheadSays(a, b, es, k, p, q)
<1> SUFFICES ASSUME NEW S, NEW a, NEW b, NEW es, NEW k, NEW p, NEW q,
                    Makes(S, a, b, es), Ahead(a, b, es, k, p, q)
             PROVE  AheadSays(a, b, es, k, p, q)
  OBVIOUS
<1> DEFINE u == NextBase(es, a, k)
           w == NextThere(es, b, k)
<1>1. a \in Seq(S) /\ b \in Seq(S) /\ Script(S, a, b, es, Len(a), Len(b))
  BY DEF Makes
<1>2. k \in 0..Len(es) /\ p \in Nat /\ q \in Nat
  BY DEF Ahead
<1>3. Len(es) \in Nat /\ Len(a) \in Nat /\ Len(b) \in Nat
  BY <1>1, ScriptType
<1>4. u \in Nat /\ u <= Len(a) /\ w \in Nat /\ w <= Len(b)
  BY <1>1, <1>2, NextIs
<1>5. p <= u /\ u - p = w - q
  BY DEF Ahead, Even
<1> HIDE DEF u, w
<1>6. p <= Len(a) /\ q <= Len(b) /\ q <= w
  BY <1>2, <1>3, <1>4, <1>5
<1> QED BY <1>2, <1>3, <1>4, <1>5, <1>6 DEF AheadSays, u, w

\* What is behind an edit.
LEMMA AheadOf ==
    \A S, a, b, es, k :
       Makes(S, a, b, es) /\ k \in 1..Len(es) => Ahead(a, b, es, k, es[k].baseEnd, es[k].sideEnd)
  BY AheadNext DEF Makes

-----------------------------------------------------------------------------
(* The merge: how a round begins. *)

LEMMA MergingMakes ==
    ASSUME NEW S, NEW t, NEW LE, NEW RE, Merging(S, t, LE, RE)
    PROVE  Makes(S, t.base, t.left, LE) /\ Makes(S, t.base, t.right, RE)
<1>1. t.base \in Seq(S) /\ t.left \in Seq(S) /\ t.right \in Seq(S)
  BY DEF Merging, TextsTyped, TextSides
<1> QED BY <1>1 DEF Merging, Makes

Starts(s) == {es[1].baseStart : es \in {s.les, s.res} \ {<<>>}}

\* Where a round starts: at the first edit of what is left.
Starting(t, LE, RE, s, i, j, start) ==
    /\ start \in Nat /\ s.pos.base <= start
    /\ start <= NextBase(LE, t.base, i) /\ start <= NextBase(RE, t.base, j)
    /\ \/ i # Len(LE) /\ start = LE[i + 1].baseStart
       \/ j # Len(RE) /\ start = RE[j + 1].baseStart

LEMMA RoundStarts ==
    ASSUME NEW S, NEW t, NEW LE, NEW RE, Merging(S, t, LE, RE),
           NEW s, NEW i, NEW j, MergeState(S, t, LE, RE, s, i, j),
           ~(s.les = <<>> /\ s.res = <<>>)
    PROVE  Starting(t, LE, RE, s, i, j, CHOOSE n \in Starts(s) : \A m \in Starts(s) : n <= m)
<1> DEFINE u == NextBase(LE, t.base, i)
           v == NextBase(RE, t.base, j)
           p == s.pos.base
           start == CHOOSE n \in Starts(s) : \A m \in Starts(s) : n <= m
<1>1. Makes(S, t.base, t.left, LE) /\ Makes(S, t.base, t.right, RE)
  BY MergingMakes
<1>2. /\ Ahead(t.base, t.left, LE, i, s.pos.base, s.pos.left)
      /\ Ahead(t.base, t.right, RE, j, s.pos.base, s.pos.right)
      /\ s.les = EditsFrom(LE, i) /\ s.res = EditsFrom(RE, j)
  BY DEF MergeState
<1>3. /\ AheadSays(t.base, t.left, LE, i, s.pos.base, s.pos.left)
      /\ AheadSays(t.base, t.right, RE, j, s.pos.base, s.pos.right)
  BY <1>1, <1>2, AheadNumbers
<1>4. /\ i \in 0..Len(LE) /\ j \in 0..Len(RE) /\ p \in Nat /\ u \in Nat /\ v \in Nat
      /\ p <= u /\ p <= v /\ u <= Len(t.base) /\ v <= Len(t.base)
  BY <1>3 DEF AheadSays
<1>5. /\ s.les = <<>> <=> i = Len(LE)
      /\ i # Len(LE) => s.les[1] = LE[i + 1] /\ u = LE[i + 1].baseStart
  <2>1. Heads(t.base, t.left, LE, i)
    BY <1>1, <1>4, HeadIs
  <2> QED BY <1>2, <2>1 DEF Heads
<1>6. /\ s.res = <<>> <=> j = Len(RE)
      /\ j # Len(RE) => s.res[1] = RE[j + 1] /\ v = RE[j + 1].baseStart
  <2>1. Heads(t.base, t.right, RE, j)
    BY <1>1, <1>4, HeadIs
  <2> QED BY <1>2, <2>1 DEF Heads
<1>7. (i = Len(LE) => u = Len(t.base)) /\ (j = Len(RE) => v = Len(t.base))
  BY DEF NextBase
<1> HIDE DEF u, v, p
<1>8. \A x : x \in Starts(s) <=> (i # Len(LE) /\ x = u) \/ (j # Len(RE) /\ x = v)
  BY <1>5, <1>6 DEF Starts
<1>9. i # Len(LE) \/ j # Len(RE)
  BY <1>5, <1>6
<1>10. \E n \in Starts(s) : \A m \in Starts(s) : n <= m
  <2>1. CASE i # Len(LE) /\ (j = Len(RE) \/ u <= v)
    <3>1. u \in Starts(s) /\ \A m \in Starts(s) : u <= m
      BY <1>4, <1>8, <2>1
    <3> QED BY <3>1
  <2>2. CASE j # Len(RE) /\ (i = Len(LE) \/ v <= u)
    <3>1. v \in Starts(s) /\ \A m \in Starts(s) : v <= m
      BY <1>4, <1>8, <2>2
    <3> QED BY <3>1
  <2>3. u <= v \/ v <= u
    BY <1>4
  <2> QED BY <1>9, <2>1, <2>2, <2>3
<1>11. start \in Starts(s) /\ \A m \in Starts(s) : start <= m
  BY <1>10
<1> HIDE DEF start
<1>12. (i # Len(LE) /\ start = u) \/ (j # Len(RE) /\ start = v)
  BY <1>8, <1>11
<1>13. start \in Nat /\ p <= start
  BY <1>4, <1>12
<1>14. start <= u /\ start <= v
  <2>1. start <= Len(t.base)
    BY <1>4, <1>12
  <2>2. (i # Len(LE) => start <= u) /\ (j # Len(RE) => start <= v)
    BY <1>8, <1>11
  <2> QED BY <1>7, <2>1, <2>2
<1> QED BY <1>5, <1>6, <1>12, <1>13, <1>14 DEF Starting, u, v, p, start

\* The segment of an edit of one side, where nothing is edited on the other.
LEMMA SliceTyped ==
    \A S, a, p, x : a \in Seq(S) /\ p \in Nat /\ x \in Nat /\ x <= Len(a) => Slice(a, p, x) \in Seq(S)
<1> SUFFICES ASSUME NEW S, NEW a, NEW p, NEW x, a \in Seq(S), p \in Nat, x \in Nat, x <= Len(a)
             PROVE  Slice(a, p, x) \in Seq(S)
  OBVIOUS
<1>1. p \in Nat /\ x \in Int
  OBVIOUS
<1> QED BY <1>1, PartIs DEF Slice

\* A clean segment that is what its origin says, from pos to the new lines.
CleanOf(S, t, o, bs, ls, rs, lines, pos, to) ==
    /\ o \in {"unchanged", "left", "right", "both-identical"}
    /\ bs \in Seq(S) /\ ls \in Seq(S) /\ rs \in Seq(S) /\ lines \in Seq(S)
    /\ o \in {"unchanged", "left"} => rs = bs
    /\ o \in {"unchanged", "right"} => ls = bs
    /\ o = "both-identical" => ls = rs
    /\ \A side \in TextSides : pos[side] <= to[side]
    /\ bs = Slice(t.base, pos.base, to.base) /\ ls = Slice(t.left, pos.left, to.left)
    /\ rs = Slice(t.right, pos.right, to.right)

CleanHas(S, t, g, ls, rs, lines, pos, to) ==
    Spanning(S, t, g, pos, to) /\ g.lines = lines /\ g.left = ls /\ g.right = rs

LEMMA CleanSpans ==
    \A S, t, o, bs, ls, rs, lines, pos, to :
       CleanOf(S, t, o, bs, ls, rs, lines, pos, to)
          => CleanHas(S, t, CleanSegment(o, bs, ls, rs, lines), ls, rs, lines, pos, to)
<1> SUFFICES ASSUME NEW S, NEW t, NEW o, NEW bs, NEW ls, NEW rs, NEW lines, NEW pos, NEW to,
                    CleanOf(S, t, o, bs, ls, rs, lines, pos, to)
             PROVE  CleanHas(S, t, CleanSegment(o, bs, ls, rs, lines), ls, rs, lines, pos, to)
  OBVIOUS
<1> USE DEF CleanOf
<1> DEFINE g == CleanSegment(o, bs, ls, rs, lines)
<1>1. SegmentIsTrue(g)
  BY CleanIsTrue
<1>2. /\ g.type = "clean" /\ g.origin = o
      /\ g.base = bs /\ g.left = ls /\ g.right = rs /\ g.lines = lines
  BY DEF CleanSegment
<1> HIDE DEF g
<1>3. PartsTyped(S, g)
  BY <1>2 DEF PartsTyped, Parts
<1>4. SegmentTakes(g)
  BY <1>2 DEF SegmentTakes
<1>5. ASSUME NEW side \in TextSides PROVE g[side] = SubSeq(t[side], pos[side] + 1, to[side])
  BY <1>2 DEF Slice, TextSides
<1>6. Spanning(S, t, g, pos, to)
  BY <1>1, <1>3, <1>4, <1>5 DEF Spanning
<1> QED BY <1>2, <1>6 DEF g, CleanHas

-----------------------------------------------------------------------------
(* The merge: an edit of one side. *)

\* The first edit of the left is taken, and brings the merge behind it.
LEMMA LeftTakes ==
    ASSUME NEW S, NEW t, NEW LE, NEW RE, Merging(S, t, LE, RE),
           NEW s, NEW i, NEW j, MergeState(S, t, LE, RE, s, i, j),
           StrictlyBefore(s.les, s.res), s.pos.base = s.les[1].baseStart
    PROVE  /\ MergeState(S, t, LE, RE, LeftOnly(t, s), i + 1, j)
           /\ i + 1 \in 1..Len(LE)
<1> DEFINE e  == s.les[1]
           y  == s.pos.right + e.baseEnd - e.baseStart
           to == [base |-> e.baseEnd, left |-> e.sideEnd, right |-> y]
           bs == Slice(t.base, e.baseStart, to.base)
           os == Slice(t.right, s.pos.right, to.right)
           g  == CleanSegment("left", bs, e.items, os, e.items)
           n  == LeftOnly(t, s)
<1>1. Makes(S, t.base, t.left, LE) /\ Makes(S, t.base, t.right, RE)
  BY MergingMakes
<1>2. /\ DOMAIN s = {"les", "res", "made", "pos"} /\ DOMAIN s.pos = TextSides
      /\ s.les = EditsFrom(LE, i) /\ s.res = EditsFrom(RE, j)
      /\ Ahead(t.base, t.left, LE, i, s.pos.base, s.pos.left)
      /\ Ahead(t.base, t.right, RE, j, s.pos.base, s.pos.right)
      /\ Favours(t, LE, RE, s, i, j)
  BY DEF MergeState
<1>3. /\ AheadSays(t.base, t.left, LE, i, s.pos.base, s.pos.left)
      /\ AheadSays(t.base, t.right, RE, j, s.pos.base, s.pos.right)
  BY <1>1, <1>2, AheadNumbers
<1>4. i \in 0..Len(LE) /\ j \in 0..Len(RE)
  BY <1>3 DEF AheadSays
<1>5. s.les # <<>>
  BY DEF StrictlyBefore
<1>6. /\ i # Len(LE) /\ e = LE[i + 1] /\ Tail(s.les) = EditsFrom(LE, i + 1)
      /\ NextBase(LE, t.base, i) = e.baseStart /\ NextThere(LE, t.left, i) = e.sideStart
      /\ i + 1 \in 1..Len(LE) /\ i + 1 \in 0..Len(LE)
  <2>1. Heads(t.base, t.left, LE, i)
    BY <1>1, <1>4, HeadIs
  <2> QED BY <1>2, <1>5, <2>1 DEF Heads
<1>7. /\ s.res = <<>> <=> j = Len(RE)
      /\ j # Len(RE) => s.res[1] = RE[j + 1]
                        /\ NextBase(RE, t.base, j) = RE[j + 1].baseStart
                        /\ j + 1 \in 1..Len(RE)
  <2>1. Heads(t.base, t.right, RE, j)
    BY <1>1, <1>4, HeadIs
  <2> QED BY <1>2, <2>1 DEF Heads
<1>8. EditIs(S, t.base, t.left, e)
  BY <1>1, <1>6, EditsAre
<1>9. /\ e.baseStart \in Nat /\ e.baseEnd \in Nat /\ e.sideStart \in Nat /\ e.sideEnd \in Nat
      /\ e.baseStart <= e.baseEnd /\ e.baseEnd <= Len(t.base)
      /\ e.sideStart <= e.sideEnd /\ e.sideEnd <= Len(t.left)
      /\ e.items = SubSeq(t.left, e.sideStart + 1, e.sideEnd) /\ e.items \in Seq(S)
  BY <1>8 DEF EditIs
<1>10. s.pos.base = e.baseStart
  OBVIOUS
<1>11. StrictlyBefore(s.les, s.res)
  OBVIOUS
<1>12. j = Len(RE) \/ e.baseEnd <= s.res[1].baseStart
  <2>1. s.res = <<>> \/ e.baseEnd < s.res[1].baseStart \/ e.baseEnd = s.res[1].baseStart
    BY <1>11 DEF StrictlyBefore
  <2>2. j # Len(RE) => s.res[1].baseStart \in Nat
    <3> SUFFICES ASSUME j # Len(RE) PROVE s.res[1].baseStart \in Nat
      OBVIOUS
    <3>1. EditIs(S, t.base, t.right, RE[j + 1])
      BY <1>1, <1>7, EditsAre
    <3> QED BY <1>7, <3>1 DEF EditIs
  <2> QED BY <1>7, <1>9, <2>1, <2>2, SMTT(30)
<1>13. e.baseEnd <= NextBase(RE, t.base, j)
  BY <1>7, <1>9, <1>12 DEF NextBase
<1>14. s.pos.left = e.sideStart
  <2>1. /\ NextBase(LE, t.base, i) - s.pos.base = NextThere(LE, t.left, i) - s.pos.left
        /\ s.pos.left \in Nat
    BY <1>3 DEF AheadSays
  <2> QED BY <1>6, <1>9, <1>10, <2>1
<1>15. s.pos.base \in Nat /\ s.pos.right \in Nat
  BY <1>3 DEF AheadSays
<1>16. ~OneSide(t, LE, RE)
  <2> SUFFICES ASSUME OneSide(t, LE, RE) PROVE FALSE
    OBVIOUS
  <2>1. i = j /\ LE = RE
    BY <1>2 DEF OneSide, Favours
  <2>2. s.res[1] = e /\ s.res # <<>>
    BY <1>6, <1>7, <2>1
  <2>3. e.baseEnd < e.baseStart \/ (e.baseEnd = e.baseStart /\ ~Empty(e))
    BY <1>11, <2>2 DEF StrictlyBefore
  <2> QED BY <1>9, <2>3 DEF Empty
<1>17. to.base = e.baseEnd /\ to.left = e.sideEnd /\ to.right = y /\ DOMAIN to = TextSides
  BY DEF TextSides
<1>18. /\ n.les = Tail(s.les) /\ n.res = s.res /\ n.pos = to
       /\ n.made = Append(s.made, g) /\ DOMAIN n = {"les", "res", "made", "pos"}
  <2>1. n = [s EXCEPT !.les = Tail(s.les), !.pos = to, !.made = Append(s.made, g)]
    BY DEF LeftOnly
  <2> HIDE DEF n, to, g
  <2> QED BY <1>2, <2>1
<1> HIDE DEF n, g, e
<1>19. Reach(t.base, RE, j, s.pos.base, s.pos.right, e.baseEnd, y)
  BY <1>9, <1>10, <1>13, <1>15 DEF Reach
<1> HIDE DEF y, to
<1>20. Reached(t.base, t.right, RE, j, s.pos.base, s.pos.right, e.baseEnd, y)
  BY <1>1, <1>2, <1>19, ReachedSo
<1>21. Ahead(t.base, t.left, LE, i + 1, e.baseEnd, e.sideEnd)
  BY <1>1, <1>6, AheadOf
<1>22. /\ Ahead(t.base, t.right, RE, j, to.base, to.right) /\ s.pos.right <= to.right
       /\ os = bs
  <2>1. /\ Ahead(t.base, t.right, RE, j, e.baseEnd, y) /\ s.pos.right <= y
        /\ SubSeq(t.base, e.baseStart + 1, e.baseEnd) = SubSeq(t.right, s.pos.right + 1, y)
    BY <1>10, <1>20 DEF Reached
  <2> QED BY <1>17, <2>1 DEF Slice
<1>23. /\ bs = Slice(t.base, s.pos.base, to.base)
       /\ e.items = Slice(t.left, s.pos.left, to.left)
  BY <1>9, <1>10, <1>14, <1>17 DEF Slice
<1>24. bs \in Seq(S)
  <2>1. t.base \in Seq(S) /\ e.baseStart \in Nat /\ to.base \in Nat /\ to.base <= Len(t.base)
    BY <1>1, <1>9, <1>17 DEF Makes
  <2> QED BY <2>1, SliceTyped
<1>25. \A side \in TextSides : s.pos[side] <= to[side]
  BY <1>9, <1>10, <1>14, <1>17, <1>22 DEF TextSides
<1>26. os = Slice(t.right, s.pos.right, to.right)
  OBVIOUS
<1> HIDE DEF bs, os
<1>27. Spanning(S, t, g, s.pos, to) /\ g.lines = e.items /\ g.left = e.items
  <2> DEFINE its == e.items
  <2>1. its \in Seq(S) /\ os = bs /\ os \in Seq(S)
    BY <1>9, <1>22, <1>24
  <2>2. its = Slice(t.left, s.pos.left, to.left)
    BY <1>23
  <2>3. g = CleanSegment("left", bs, its, os, its)
    BY DEF g
  <2> HIDE DEF its
  <2>4. CleanOf(S, t, "left", bs, its, os, its, s.pos, to)
    BY <1>23, <1>24, <1>25, <1>26, <2>1, <2>2 DEF CleanOf
  <2>5. CleanHas(S, t, g, its, os, its, s.pos, to)
    BY <2>3, <2>4, CleanSpans
  <2> QED BY <2>5 DEF its, CleanHas
<1>28. Favoured(t, LE, RE, g)
  <2>1. LE # <<>>
    BY <1>6
  <2> QED BY <1>16, <1>27, <2>1 DEF Favoured
<1>29. /\ Ahead(t.base, t.left, LE, i + 1, to.base, to.left)
       /\ n.les = EditsFrom(LE, i + 1)
  BY <1>6, <1>17, <1>18, <1>21
<1>30. MergeState(S, t, LE, RE, n, i + 1, j)
  BY <1>2, <1>16, <1>17, <1>18, <1>22, <1>27, <1>28, <1>29, StepKeeps
<1> QED BY <1>6, <1>30 DEF n

\* The same for the right.
LEMMA RightTakes ==
    ASSUME NEW S, NEW t, NEW LE, NEW RE, Merging(S, t, LE, RE),
           NEW s, NEW i, NEW j, MergeState(S, t, LE, RE, s, i, j),
           StrictlyBefore(s.res, s.les), s.pos.base = s.res[1].baseStart
    PROVE  /\ MergeState(S, t, LE, RE, RightOnly(t, s), i, j + 1)
           /\ j + 1 \in 1..Len(RE)
<1> DEFINE e  == s.res[1]
           y  == s.pos.left + e.baseEnd - e.baseStart
           to == [base |-> e.baseEnd, left |-> y, right |-> e.sideEnd]
           bs == Slice(t.base, e.baseStart, to.base)
           os == Slice(t.left, s.pos.left, to.left)
           g  == CleanSegment("right", bs, os, e.items, e.items)
           n  == RightOnly(t, s)
<1>1. Makes(S, t.base, t.left, LE) /\ Makes(S, t.base, t.right, RE)
  BY MergingMakes
<1>2. /\ DOMAIN s = {"les", "res", "made", "pos"} /\ DOMAIN s.pos = TextSides
      /\ s.les = EditsFrom(LE, i) /\ s.res = EditsFrom(RE, j)
      /\ Ahead(t.base, t.left, LE, i, s.pos.base, s.pos.left)
      /\ Ahead(t.base, t.right, RE, j, s.pos.base, s.pos.right)
      /\ Favours(t, LE, RE, s, i, j)
  BY DEF MergeState
<1>3. /\ AheadSays(t.base, t.left, LE, i, s.pos.base, s.pos.left)
      /\ AheadSays(t.base, t.right, RE, j, s.pos.base, s.pos.right)
  BY <1>1, <1>2, AheadNumbers
<1>4. i \in 0..Len(LE) /\ j \in 0..Len(RE)
  BY <1>3 DEF AheadSays
<1>5. s.res # <<>>
  BY DEF StrictlyBefore
<1>6. /\ j # Len(RE) /\ e = RE[j + 1] /\ Tail(s.res) = EditsFrom(RE, j + 1)
      /\ NextBase(RE, t.base, j) = e.baseStart /\ NextThere(RE, t.right, j) = e.sideStart
      /\ j + 1 \in 1..Len(RE) /\ j + 1 \in 0..Len(RE)
  <2>1. Heads(t.base, t.right, RE, j)
    BY <1>1, <1>4, HeadIs
  <2> QED BY <1>2, <1>5, <2>1 DEF Heads
<1>7. /\ s.les = <<>> <=> i = Len(LE)
      /\ i # Len(LE) => s.les[1] = LE[i + 1]
                        /\ NextBase(LE, t.base, i) = LE[i + 1].baseStart
                        /\ i + 1 \in 1..Len(LE)
  <2>1. Heads(t.base, t.left, LE, i)
    BY <1>1, <1>4, HeadIs
  <2> QED BY <1>2, <2>1 DEF Heads
<1>8. EditIs(S, t.base, t.right, e)
  BY <1>1, <1>6, EditsAre
<1>9. /\ e.baseStart \in Nat /\ e.baseEnd \in Nat /\ e.sideStart \in Nat /\ e.sideEnd \in Nat
      /\ e.baseStart <= e.baseEnd /\ e.baseEnd <= Len(t.base)
      /\ e.sideStart <= e.sideEnd /\ e.sideEnd <= Len(t.right)
      /\ e.items = SubSeq(t.right, e.sideStart + 1, e.sideEnd) /\ e.items \in Seq(S)
  BY <1>8 DEF EditIs
<1>10. s.pos.base = e.baseStart
  OBVIOUS
<1>11. StrictlyBefore(s.res, s.les)
  OBVIOUS
<1>12. i = Len(LE) \/ e.baseEnd <= s.les[1].baseStart
  <2>1. s.les = <<>> \/ e.baseEnd < s.les[1].baseStart \/ e.baseEnd = s.les[1].baseStart
    BY <1>11 DEF StrictlyBefore
  <2>2. i # Len(LE) => s.les[1].baseStart \in Nat
    <3> SUFFICES ASSUME i # Len(LE) PROVE s.les[1].baseStart \in Nat
      OBVIOUS
    <3>1. EditIs(S, t.base, t.left, LE[i + 1])
      BY <1>1, <1>7, EditsAre
    <3> QED BY <1>7, <3>1 DEF EditIs
  <2> QED BY <1>7, <1>9, <2>1, <2>2, SMTT(30)
<1>13. e.baseEnd <= NextBase(LE, t.base, i)
  BY <1>7, <1>9, <1>12 DEF NextBase
<1>14. s.pos.right = e.sideStart
  <2>1. /\ NextBase(RE, t.base, j) - s.pos.base = NextThere(RE, t.right, j) - s.pos.right
        /\ s.pos.right \in Nat
    BY <1>3 DEF AheadSays
  <2> QED BY <1>6, <1>9, <1>10, <2>1
<1>15. s.pos.base \in Nat /\ s.pos.left \in Nat
  BY <1>3 DEF AheadSays
<1>16. ~OneSide(t, LE, RE)
  <2> SUFFICES ASSUME OneSide(t, LE, RE) PROVE FALSE
    OBVIOUS
  <2>1. i = j /\ LE = RE
    BY <1>2 DEF OneSide, Favours
  <2>2. s.les[1] = e /\ s.les # <<>>
    BY <1>6, <1>7, <2>1
  <2>3. e.baseEnd < e.baseStart \/ (e.baseEnd = e.baseStart /\ ~Empty(e))
    BY <1>11, <2>2 DEF StrictlyBefore
  <2> QED BY <1>9, <2>3 DEF Empty
<1>17. to.base = e.baseEnd /\ to.right = e.sideEnd /\ to.left = y /\ DOMAIN to = TextSides
  BY DEF TextSides
<1>18. /\ n.res = Tail(s.res) /\ n.les = s.les /\ n.pos = to
       /\ n.made = Append(s.made, g) /\ DOMAIN n = {"les", "res", "made", "pos"}
  <2>1. n = [s EXCEPT !.res = Tail(s.res), !.pos = to, !.made = Append(s.made, g)]
    BY DEF RightOnly
  <2> HIDE DEF n, to, g
  <2> QED BY <1>2, <2>1
<1> HIDE DEF n, g, e
<1>19. Reach(t.base, LE, i, s.pos.base, s.pos.left, e.baseEnd, y)
  BY <1>9, <1>10, <1>13, <1>15 DEF Reach
<1> HIDE DEF y, to
<1>20. Reached(t.base, t.left, LE, i, s.pos.base, s.pos.left, e.baseEnd, y)
  BY <1>1, <1>2, <1>19, ReachedSo
<1>21. Ahead(t.base, t.right, RE, j + 1, e.baseEnd, e.sideEnd)
  BY <1>1, <1>6, AheadOf
<1>22. /\ Ahead(t.base, t.left, LE, i, to.base, to.left) /\ s.pos.left <= to.left
       /\ os = bs
  <2>1. /\ Ahead(t.base, t.left, LE, i, e.baseEnd, y) /\ s.pos.left <= y
        /\ SubSeq(t.base, e.baseStart + 1, e.baseEnd) = SubSeq(t.left, s.pos.left + 1, y)
    BY <1>10, <1>20 DEF Reached
  <2> QED BY <1>17, <2>1 DEF Slice
<1>23. /\ bs = Slice(t.base, s.pos.base, to.base)
       /\ e.items = Slice(t.right, s.pos.right, to.right)
  BY <1>9, <1>10, <1>14, <1>17 DEF Slice
<1>24. bs \in Seq(S)
  <2>1. t.base \in Seq(S) /\ e.baseStart \in Nat /\ to.base \in Nat /\ to.base <= Len(t.base)
    BY <1>1, <1>9, <1>17 DEF Makes
  <2> QED BY <2>1, SliceTyped
<1>25. \A side \in TextSides : s.pos[side] <= to[side]
  BY <1>9, <1>10, <1>14, <1>17, <1>22 DEF TextSides
<1>26. os = Slice(t.left, s.pos.left, to.left)
  OBVIOUS
<1> HIDE DEF bs, os
<1>27. Spanning(S, t, g, s.pos, to) /\ g.lines = e.items /\ g.right = e.items
  <2> DEFINE its == e.items
  <2>1. its \in Seq(S) /\ os = bs /\ os \in Seq(S)
    BY <1>9, <1>22, <1>24
  <2>2. its = Slice(t.right, s.pos.right, to.right)
    BY <1>23
  <2>3. g = CleanSegment("right", bs, os, its, its)
    BY DEF g
  <2> HIDE DEF its
  <2>4. CleanOf(S, t, "right", bs, os, its, its, s.pos, to)
    BY <1>23, <1>24, <1>25, <1>26, <2>1, <2>2 DEF CleanOf
  <2>5. CleanHas(S, t, g, os, its, its, s.pos, to)
    BY <2>3, <2>4, CleanSpans
  <2> QED BY <2>5 DEF its, CleanHas
<1>28. Favoured(t, LE, RE, g)
  <2>1. RE # <<>>
    BY <1>6
  <2> QED BY <1>16, <1>27, <2>1 DEF Favoured
<1>29. /\ Ahead(t.base, t.right, RE, j + 1, to.base, to.right)
       /\ n.res = EditsFrom(RE, j + 1)
  BY <1>6, <1>17, <1>18, <1>21
<1>30. MergeState(S, t, LE, RE, n, i, j + 1)
  BY <1>2, <1>16, <1>17, <1>18, <1>22, <1>27, <1>28, <1>29, StepKeeps
<1> QED BY <1>6, <1>30 DEF n

-----------------------------------------------------------------------------
(* The merge: what a cluster absorbs. *)

\* What collecting a cluster starts with and leaves: of one side, and of both.
Clusters == [start : Nat, end : Nat, emptyAtEnd : BOOLEAN]
Sides(S) == [es : Seq(EditsOf(S)), c : Clusters, last : SUBSET EditsOf(S)]
Boths(S) == [les : Seq(EditsOf(S)), res : Seq(EditsOf(S)), c : Clusters,
             lastL : SUBSET EditsOf(S), lastR : SUBSET EditsOf(S)]

LEMMA AbsorbEditIs ==
    ASSUME NEW c \in Clusters, NEW e, e.baseEnd \in Nat
    PROVE  /\ AbsorbEdit(e, c) \in Clusters /\ AbsorbEdit(e, c).start = c.start
           /\ c.end <= AbsorbEdit(e, c).end /\ e.baseEnd <= AbsorbEdit(e, c).end
           /\ AbsorbEdit(e, c).end = c.end \/ AbsorbEdit(e, c).end = e.baseEnd
<1>1. Empty(e) \in BOOLEAN
  BY DEF Empty
<1>2. c.start \in Nat /\ c.end \in Nat /\ c.emptyAtEnd \in BOOLEAN
  BY DEF Clusters
<1>3. CASE e.baseEnd > c.end
  <2>1. AbsorbEdit(e, c) = [c EXCEPT !.end = e.baseEnd, !.emptyAtEnd = FALSE]
    BY <1>3 DEF AbsorbEdit
  <2> DEFINE x == e.baseEnd
             d == [c EXCEPT !.end = x, !.emptyAtEnd = FALSE]
  <2>2. x \in Nat /\ c.end <= x /\ x <= x
    BY <1>2, <1>3
  <2> HIDE DEF x
  <2>3. d \in Clusters /\ d.start = c.start /\ d.end = x
    BY <1>2, <2>2 DEF Clusters
  <2>4. AbsorbEdit(e, c) = d
    BY <2>1 DEF x
  <2> HIDE DEF d
  <2> QED BY <2>2, <2>3, <2>4 DEF x
<1>4. CASE ~(e.baseEnd > c.end)
  <2> DEFINE z == c.emptyAtEnd \/ (Empty(e) /\ e.baseEnd = c.end)
  <2>1. AbsorbEdit(e, c) = [c EXCEPT !.emptyAtEnd = z]
    BY <1>4 DEF AbsorbEdit
  <2>2. z \in BOOLEAN
    BY <1>1, <1>2
  <2> HIDE DEF z
  <2> QED BY <1>2, <1>4, <2>1, <2>2 DEF Clusters
<1> QED BY <1>3, <1>4

\* Nothing of the side overlaps the cluster, or nothing is left.
Still(es, c) == es = <<>> \/ ~Overlaps(es[1], c)

LEMMA AbsorbFirstIs ==
    ASSUME NEW S, NEW s \in Sides(S)
    PROVE  /\ AbsorbFirst(s) \in Sides(S)
           /\ Still(s.es, s.c) => AbsorbFirst(s) = s
           /\ ~Still(s.es, s.c) => /\ AbsorbFirst(s).es = Tail(s.es)
                                   /\ AbsorbFirst(s).c = AbsorbEdit(s.es[1], s.c)
                                   /\ AbsorbFirst(s).last = {s.es[1]}
<1>1. s.es \in Seq(EditsOf(S)) /\ s.c \in Clusters
  BY DEF Sides
<1>2. CASE Still(s.es, s.c)
  BY <1>2 DEF AbsorbFirst, Still
<1>3. CASE ~Still(s.es, s.c)
  <2>1. AbsorbFirst(s) = [es |-> Tail(s.es), c |-> AbsorbEdit(s.es[1], s.c), last |-> {s.es[1]}]
    BY <1>3 DEF AbsorbFirst, Still
  <2>2. s.es # <<>>
    BY <1>3 DEF Still
  <2>3. s.es[1] \in EditsOf(S) /\ Tail(s.es) \in Seq(EditsOf(S))
    BY <1>1, <2>2
  <2>4. s.es[1].baseEnd \in Nat
    BY <2>3 DEF EditsOf
  <2>5. AbsorbEdit(s.es[1], s.c) \in Clusters
    BY <1>1, <2>4, AbsorbEditIs
  <2> QED BY <1>3, <2>1, <2>3, <2>5 DEF Sides
<1> QED BY <1>2, <1>3

\* The function a side is absorbed by, edit by edit.
Absorbing(x0, f) == f = [n \in Nat |-> IF n = 0 THEN x0 ELSE AbsorbFirst(f[n - 1])]

LEMMA AbsorbingExists ==
    ASSUME NEW S, NEW x0 \in Sides(S)
    PROVE  \E f : Absorbing(x0, f)
<1> DEFINE X == Sides(S)
           H == [n \in Nat |-> [s \in X |-> AbsorbFirst(s)]]
<1>1. \A s \in X : AbsorbFirst(s) \in X
  BY AbsorbFirstIs
<1> HIDE DEF X
<1>2. x0 \in X
  BY DEF X
<1>3. H \in [Nat -> [X -> X]]
  BY <1>1
<1>4. \A n \in Nat : \A s \in X : H[n][s] = AbsorbFirst(s)
  OBVIOUS
<1> HIDE DEF H
<1>5. PICK f \in [Nat -> X] : Recursive(f, x0, H)
  BY <1>2, <1>3, RecursionExists
<1>6. \A n \in Nat : n # 0 => H[n][f[n - 1]] = AbsorbFirst(f[n - 1])
  <2> TAKE n \in Nat
  <2> HAVE n # 0
  <2>1. n - 1 \in Nat
    OBVIOUS
  <2>2. f[n - 1] \in X
    BY <1>5, <2>1
  <2> QED BY <1>4, <2>2
<1>7. \A n \in Nat : f[n] = IF n = 0 THEN x0 ELSE AbsorbFirst(f[n - 1])
  <2> TAKE n \in Nat
  <2>1. f[n] = IF n = 0 THEN x0 ELSE H[n][f[n - 1]]
    BY <1>5 DEF Recursive
  <2> QED BY <1>6, <2>1
<1>8. f = [n \in Nat |-> IF n = 0 THEN x0 ELSE AbsorbFirst(f[n - 1])]
  BY <1>5, <1>7 DEF Recursive
<1> QED BY <1>8 DEF Absorbing

-----------------------------------------------------------------------------
(* The merge: a cluster absorbs the edits of one side. *)

\* Where the absorbed edits of a side end: where it was, with none of them.
BaseAt(es, from, m) == IF m = from.k THEN from.base ELSE es[m].baseEnd
ThereAt(es, from, m) == IF m = from.k THEN from.side ELSE es[m].sideEnd

\* The edits up to m are gone, and those behind from.k are in the cluster.
Absorbed(a, b, es, from, rest, c, last, m) ==
    /\ from.k \in Nat /\ m \in 0..Len(es) /\ from.k <= m
    /\ rest = EditsFrom(es, m)
    /\ last = IF m = from.k THEN {} ELSE {es[m]}
    /\ Ahead(a, b, es, m, BaseAt(es, from, m), ThereAt(es, from, m))
    /\ BaseAt(es, from, m) <= c.end /\ from.side <= ThereAt(es, from, m)

ClusterOf(a, start, c) == c \in Clusters /\ c.start = start /\ start <= c.end /\ c.end <= Len(a)

\* A side with some of its edits absorbed.
SideState(S, a, b, es, start, from, s, m) ==
    /\ s \in Sides(S) /\ ClusterOf(a, start, s.c)
    /\ Absorbed(a, b, es, from, s.es, s.c, s.last, m)

LEMMA AbsorbOne ==
    ASSUME NEW S, NEW a, NEW b, NEW es, Makes(S, a, b, es), NEW start, NEW from, from.side \in Nat,
           NEW s, NEW m, SideState(S, a, b, es, start, from, s, m), ~Still(s.es, s.c)
    PROVE  /\ SideState(S, a, b, es, start, from, AbsorbFirst(s), m + 1)
           /\ s.c.end <= AbsorbFirst(s).c.end /\ m \in 0..Len(es) /\ m # Len(es)
<1> DEFINE e == es[m + 1]
           r == AbsorbFirst(s)
           d == AbsorbEdit(e, s.c)
<1>1. /\ s \in Sides(S) /\ s.c \in Clusters /\ s.c.start = start /\ start <= s.c.end /\ s.c.end <= Len(a)
      /\ Absorbed(a, b, es, from, s.es, s.c, s.last, m)
  BY DEF SideState, ClusterOf
<1>2. /\ from.k \in Nat /\ m \in 0..Len(es) /\ from.k <= m /\ s.es = EditsFrom(es, m)
      /\ Ahead(a, b, es, m, BaseAt(es, from, m), ThereAt(es, from, m))
      /\ from.side <= ThereAt(es, from, m)
  BY <1>1 DEF Absorbed
<1>3. AheadSays(a, b, es, m, BaseAt(es, from, m), ThereAt(es, from, m))
  BY <1>2, AheadNumbers
<1>4. s.es # <<>>
  BY DEF Still
<1>5. Heads(a, b, es, m)
  BY <1>2, HeadIs
<1>6. /\ m # Len(es) /\ s.es[1] = e /\ Tail(s.es) = EditsFrom(es, m + 1)
      /\ NextThere(es, b, m) = e.sideStart /\ m + 1 \in 1..Len(es) /\ m + 1 \in 0..Len(es)
  BY <1>2, <1>4, <1>5 DEF Heads
<1>7. EditIs(S, a, b, e)
  BY <1>6, EditsAre
<1>8. /\ e.baseEnd \in Nat /\ e.sideStart \in Nat /\ e.sideEnd \in Nat
      /\ e.sideStart <= e.sideEnd /\ e.baseEnd <= Len(a)
  BY <1>7 DEF EditIs
<1>9. r \in Sides(S) /\ r.es = EditsFrom(es, m + 1) /\ r.c = d /\ r.last = {e}
  BY <1>1, <1>6, AbsorbFirstIs
<1>10. /\ d \in Clusters /\ d.start = start /\ s.c.end <= d.end /\ e.baseEnd <= d.end
       /\ d.end = s.c.end \/ d.end = e.baseEnd
  BY <1>1, <1>8, AbsorbEditIs
<1>11. Ahead(a, b, es, m + 1, e.baseEnd, e.sideEnd)
  BY <1>6, AheadOf
<1> HIDE DEF e, r, d
<1>12. m + 1 # from.k /\ from.k <= m + 1
  BY <1>2
<1>13. BaseAt(es, from, m + 1) = e.baseEnd /\ ThereAt(es, from, m + 1) = e.sideEnd
  BY <1>12 DEF BaseAt, ThereAt, e
<1>14. from.side <= e.sideEnd
  <2>1. ThereAt(es, from, m) \in Nat /\ ThereAt(es, from, m) <= NextThere(es, b, m)
    BY <1>3 DEF AheadSays
  <2> QED BY <1>2, <1>6, <1>8, <2>1
<1>15. Absorbed(a, b, es, from, r.es, r.c, r.last, m + 1)
  BY <1>2, <1>6, <1>9, <1>10, <1>11, <1>12, <1>13, <1>14 DEF Absorbed, e
<1>16. ClusterOf(a, start, r.c)
  <2>1. start \in Nat /\ s.c.end \in Nat /\ d.end \in Nat
    BY <1>1, <1>10 DEF Clusters
  <2>2. d.end <= Len(a)
    BY <1>1, <1>8, <1>10
  <2> QED BY <1>1, <1>9, <1>10, <2>1, <2>2 DEF ClusterOf
<1> QED BY <1>2, <1>6, <1>9, <1>10, <1>15, <1>16 DEF SideState, r

\* What AbsorbSide makes of a side.
SideDone(S, a, b, es, start, from, x0, m, r, l) ==
    /\ SideState(S, a, b, es, start, from, r, l) /\ Still(r.es, r.c)
    /\ m <= l /\ x0.c.end <= r.c.end
    /\ l = m \/ Still(x0.es, x0.c) => r = x0

LEMMA AbsorbSideTakes ==
    ASSUME NEW S, NEW a, NEW b, NEW es, Makes(S, a, b, es), NEW start, NEW from, from.side \in Nat,
           NEW x0, x0 = [es |-> x0.es, c |-> x0.c, last |-> x0.last],
           NEW m, SideState(S, a, b, es, start, from, x0, m)
    PROVE  \E l : SideDone(S, a, b, es, start, from, x0, m, AbsorbSide(x0.es, x0.c, x0.last), l)
<1> DEFINE after == CHOOSE f : Absorbing(x0, f)
           Taken1(n, l) == /\ SideState(S, a, b, es, start, from, after[n], l)
                           /\ m <= l /\ x0.c.end <= after[n].c.end
                           /\ l = m \/ Still(x0.es, x0.c) => after[n] = x0
                           /\ l = m + n \/ Still(after[n].es, after[n].c)
           Held == {n \in Nat : \E l : Taken1(n, l)}
<1>1. x0 \in Sides(S) /\ m \in 0..Len(es) /\ x0.es = EditsFrom(es, m)
  BY DEF SideState, Absorbed
<1>2. Absorbing(x0, after)
  BY <1>1, AbsorbingExists
<1>3. AbsorbSide(x0.es, x0.c, x0.last) = after[Len(x0.es)]
  BY DEF AbsorbSide, Absorbing
<1>4. \A n \in Nat : after[n] = IF n = 0 THEN x0 ELSE AbsorbFirst(after[n - 1])
  <2> HIDE DEF after
  <2> QED BY <1>2 DEF Absorbing
<1> HIDE DEF after
<1>5. m \in Nat /\ Len(es) \in Nat
  BY <1>1 DEF Makes, Script
<1>6. 0 \in Held
  <2>1. after[0] = x0
    BY <1>4
  <2>2. x0.c.end \in Nat
    BY <1>1 DEF Sides, Clusters
  <2>3. Taken1(0, m)
    BY <1>5, <2>1, <2>2
  <2> HIDE DEF Taken1
  <2> QED BY <2>3
<1>7. ASSUME NEW n \in Nat, n \in Held PROVE n + 1 \in Held
  <2>1. PICK l : Taken1(n, l)
    <3> HIDE DEF Taken1
    <3> QED BY <1>7
  <2>2. after[n + 1] = AbsorbFirst(after[n])
    BY <1>4
  <2>3. CASE Still(after[n].es, after[n].c)
    <3>1. after[n] \in Sides(S)
      BY <2>1 DEF SideState
    <3>2. after[n + 1] = after[n]
      BY <2>2, <2>3, <3>1, AbsorbFirstIs
    <3>3. Taken1(n + 1, l)
      BY <2>1, <2>3, <3>2
    <3> HIDE DEF Taken1
    <3> QED BY <3>3
  <2>4. CASE ~Still(after[n].es, after[n].c)
    <3>1. /\ SideState(S, a, b, es, start, from, after[n + 1], l + 1)
          /\ after[n].c.end <= after[n + 1].c.end /\ l \in 0..Len(es)
      BY <2>1, <2>2, <2>4, AbsorbOne
    <3>2. x0.c.end \in Nat /\ after[n].c.end \in Nat /\ after[n + 1].c.end \in Nat
      <4>1. after[n] \in Sides(S) /\ after[n + 1] \in Sides(S)
        BY <2>1, <3>1 DEF SideState
      <4> QED BY <1>1, <4>1 DEF Sides, Clusters
    <3>3. l = m + n /\ m <= l /\ x0.c.end <= after[n].c.end
      BY <2>1, <2>4
    <3>4. x0.c.end <= after[n + 1].c.end
      BY <3>1, <3>2, <3>3
    <3>5. l + 1 = m + (n + 1) /\ m <= l + 1 /\ l + 1 # m
      BY <1>5, <3>1, <3>3
    <3>6. ~Still(x0.es, x0.c)
      BY <2>1, <2>4
    <3>7. Taken1(n + 1, l + 1)
      BY <3>1, <3>4, <3>5, <3>6
    <3> HIDE DEF Taken1
    <3> QED BY <3>7
  <2> QED BY <2>3, <2>4
<1>8. Len(x0.es) = Len(es) - m /\ Len(x0.es) \in Nat
  <2>1. es \in Seq(EditsOf(S))
    BY DEF Makes, Script
  <2>2. Len(EditsFrom(es, m)) = Len(es) - m
    BY <1>1, <2>1, RestIs
  <2> QED BY <1>1, <1>5, <2>2
<1>9. Len(x0.es) \in Held
  <2> HIDE DEF Held
  <2> QED BY <1>6, <1>7, <1>8, InductionOverNat
<1>10. PICK l : Taken1(Len(x0.es), l)
  <2> HIDE DEF Taken1
  <2> QED BY <1>9
<1> DEFINE r == after[Len(x0.es)]
<1>11. Still(r.es, r.c)
  <2>1. CASE l = m + Len(x0.es)
    <3>1. l = Len(es) /\ l \in 0..Len(es)
      BY <1>5, <1>8, <2>1
    <3>2. r.es = EditsFrom(es, l)
      BY <1>10 DEF SideState, Absorbed
    <3>3. Heads(a, b, es, l)
      BY <3>1, HeadIs
    <3>4. r.es = <<>>
      BY <3>1, <3>2, <3>3 DEF Heads
    <3> QED BY <3>4 DEF Still
  <2> QED BY <1>10, <2>1
<1> QED BY <1>3, <1>10, <1>11 DEF SideDone

-----------------------------------------------------------------------------
(* The merge: a cluster absorbs the edits of both. *)

\* The function both sides are absorbed by, round by round.
BothAbsorbing(x0, f) == f = [n \in Nat |-> IF n = 0 THEN x0 ELSE AbsorbBoth(f[n - 1])]

LEMMA BothAbsorbingExists ==
    ASSUME NEW X, NEW x0 \in X, \A u \in X : AbsorbBoth(u) \in X
    PROVE  \E f : BothAbsorbing(x0, f)
<1> DEFINE H == [n \in Nat |-> [u \in X |-> AbsorbBoth(u)]]
<1>1. H \in [Nat -> [X -> X]]
  OBVIOUS
<1>2. \A n \in Nat : \A u \in X : H[n][u] = AbsorbBoth(u)
  OBVIOUS
<1> HIDE DEF H
<1>3. PICK f \in [Nat -> X] : Recursive(f, x0, H)
  BY <1>1, RecursionExists
<1>4. \A n \in Nat : n # 0 => H[n][f[n - 1]] = AbsorbBoth(f[n - 1])
  <2> TAKE n \in Nat
  <2> HAVE n # 0
  <2>1. n - 1 \in Nat
    OBVIOUS
  <2>2. f[n - 1] \in X
    BY <1>3, <2>1
  <2> QED BY <1>2, <2>2
<1>5. \A n \in Nat : f[n] = IF n = 0 THEN x0 ELSE AbsorbBoth(f[n - 1])
  <2> TAKE n \in Nat
  <2>1. f[n] = IF n = 0 THEN x0 ELSE H[n][f[n - 1]]
    BY <1>3 DEF Recursive
  <2> QED BY <1>4, <2>1
<1>6. f = [n \in Nat |-> IF n = 0 THEN x0 ELSE AbsorbBoth(f[n - 1])]
  BY <1>3, <1>5 DEF Recursive
<1> QED BY <1>6 DEF BothAbsorbing

\* Both sides with some of their edits absorbed, from fl and fr on.
BothState(S, t, LE, RE, start, fl, fr, u, i, j) ==
    /\ u \in Boths(S) /\ ClusterOf(t.base, start, u.c)
    /\ Absorbed(t.base, t.left, LE, fl, u.les, u.c, u.lastL, i)
    /\ Absorbed(t.base, t.right, RE, fr, u.res, u.c, u.lastR, j)

BothStill(u) == Still(u.les, u.c) /\ Still(u.res, u.c)

\* A cluster that has grown has what it had.
LEMMA AbsorbedStays ==
    \A a, b, es, from, rest, c, last, m, d :
       Absorbed(a, b, es, from, rest, c, last, m) /\ c \in Clusters /\ d \in Clusters /\ c.end <= d.end
          => Absorbed(a, b, es, from, rest, d, last, m)
<1> SUFFICES ASSUME NEW a, NEW b, NEW es, NEW from, NEW rest, NEW c, NEW last, NEW m, NEW d,
                    Absorbed(a, b, es, from, rest, c, last, m),
                    c \in Clusters, d \in Clusters, c.end <= d.end
             PROVE  Absorbed(a, b, es, from, rest, d, last, m)
  OBVIOUS
<1> DEFINE p == BaseAt(es, from, m)
<1>1. p \in Nat /\ p <= c.end
  BY DEF Absorbed, Ahead
<1>2. c.end \in Nat /\ d.end \in Nat
  BY DEF Clusters
<1> HIDE DEF p
<1>3. p <= d.end
  BY <1>1, <1>2
<1> QED BY <1>3 DEF Absorbed, p

BothDone(S, t, LE, RE, start, fl, fr, u, i, j, v, k, l) ==
    /\ BothState(S, t, LE, RE, start, fl, fr, v, k, l)
    /\ i <= k /\ j <= l
    /\ k = i /\ l = j => v = u /\ BothStill(u)
    /\ BothStill(u) => v = u

LEMMA AbsorbBothTakes ==
    ASSUME NEW S, NEW t, NEW LE, NEW RE, Makes(S, t.base, t.left, LE), Makes(S, t.base, t.right, RE),
           NEW start, NEW fl, NEW fr, fl.side \in Nat, fr.side \in Nat,
           NEW u, NEW i, NEW j, BothState(S, t, LE, RE, start, fl, fr, u, i, j)
    PROVE  \E k, l : BothDone(S, t, LE, RE, start, fl, fr, u, i, j, AbsorbBoth(u), k, l)
<1> DEFINE x == [es |-> u.les, c |-> u.c, last |-> u.lastL]
           lt == AbsorbSide(u.les, u.c, u.lastL)
           y == [es |-> u.res, c |-> lt.c, last |-> u.lastR]
           rt == AbsorbSide(u.res, lt.c, u.lastR)
           v == AbsorbBoth(u)
<1>1. /\ u \in Boths(S) /\ ClusterOf(t.base, start, u.c)
      /\ Absorbed(t.base, t.left, LE, fl, u.les, u.c, u.lastL, i)
      /\ Absorbed(t.base, t.right, RE, fr, u.res, u.c, u.lastR, j)
  BY DEF BothState
<1>2. /\ u.les \in Seq(EditsOf(S)) /\ u.res \in Seq(EditsOf(S)) /\ u.c \in Clusters
      /\ u.lastL \in SUBSET EditsOf(S) /\ u.lastR \in SUBSET EditsOf(S)
      /\ u = [les |-> u.les, res |-> u.res, c |-> u.c, lastL |-> u.lastL, lastR |-> u.lastR]
  BY <1>1 DEF Boths
<1>3. v = [les |-> lt.es, res |-> rt.es, c |-> rt.c, lastL |-> lt.last, lastR |-> rt.last]
  BY DEF AbsorbBoth
<1>4. /\ x = [es |-> x.es, c |-> x.c, last |-> x.last] /\ x.es = u.les /\ x.c = u.c /\ x.last = u.lastL
      /\ y = [es |-> y.es, c |-> y.c, last |-> y.last] /\ y.es = u.res /\ y.c = lt.c /\ y.last = u.lastR
  OBVIOUS
<1>5. SideState(S, t.base, t.left, LE, start, fl, x, i)
  <2>1. x \in Sides(S)
    BY <1>2 DEF Sides
  <2> QED BY <1>1, <1>4, <2>1 DEF SideState
<1> HIDE DEF x, v
<1>6. \E k : SideDone(S, t.base, t.left, LE, start, fl, x, i, AbsorbSide(x.es, x.c, x.last), k)
  BY <1>4, <1>5, AbsorbSideTakes
<1>7. PICK k : SideDone(S, t.base, t.left, LE, start, fl, x, i, lt, k)
  BY <1>4, <1>6
<1> HIDE DEF lt
<1>8. /\ lt \in Sides(S) /\ ClusterOf(t.base, start, lt.c)
      /\ Absorbed(t.base, t.left, LE, fl, lt.es, lt.c, lt.last, k)
      /\ Still(lt.es, lt.c) /\ i <= k /\ u.c.end <= lt.c.end
      /\ k = i \/ Still(u.les, u.c) => lt = x
  BY <1>4, <1>7 DEF SideDone, SideState
<1>9. lt.es \in Seq(EditsOf(S)) /\ lt.c \in Clusters /\ lt.last \in SUBSET EditsOf(S)
  BY <1>8 DEF Sides
<1>10. Absorbed(t.base, t.right, RE, fr, u.res, lt.c, u.lastR, j)
  BY <1>1, <1>2, <1>8, <1>9, AbsorbedStays
<1>11. SideState(S, t.base, t.right, RE, start, fr, y, j)
  <2>1. y \in Sides(S)
    BY <1>2, <1>9 DEF Sides
  <2> QED BY <1>4, <1>8, <1>10, <2>1 DEF SideState
<1> HIDE DEF y
<1>12. \E l : SideDone(S, t.base, t.right, RE, start, fr, y, j, AbsorbSide(y.es, y.c, y.last), l)
  BY <1>4, <1>11, AbsorbSideTakes
<1>13. PICK l : SideDone(S, t.base, t.right, RE, start, fr, y, j, rt, l)
  BY <1>4, <1>12
<1> HIDE DEF rt
<1>14. /\ rt \in Sides(S) /\ ClusterOf(t.base, start, rt.c)
       /\ Absorbed(t.base, t.right, RE, fr, rt.es, rt.c, rt.last, l)
       /\ Still(rt.es, rt.c) /\ j <= l /\ lt.c.end <= rt.c.end
       /\ l = j \/ Still(u.res, lt.c) => rt = y
  BY <1>4, <1>13 DEF SideDone, SideState
<1>15. rt.es \in Seq(EditsOf(S)) /\ rt.c \in Clusters /\ rt.last \in SUBSET EditsOf(S)
  BY <1>14 DEF Sides
<1>16. Absorbed(t.base, t.left, LE, fl, lt.es, rt.c, lt.last, k)
  BY <1>8, <1>9, <1>14, <1>15, AbsorbedStays
<1>17. v.les = lt.es /\ v.res = rt.es /\ v.c = rt.c /\ v.lastL = lt.last /\ v.lastR = rt.last
  BY <1>3
<1>18. v \in Boths(S)
  BY <1>3, <1>9, <1>15 DEF Boths
<1>19. BothState(S, t, LE, RE, start, fl, fr, v, k, l)
  BY <1>14, <1>16, <1>17, <1>18 DEF BothState
<1>20. ASSUME lt = x, rt = y PROVE v = u /\ BothStill(u)
  <2>1. /\ lt.es = u.les /\ lt.c = u.c /\ lt.last = u.lastL
        /\ rt.es = u.res /\ rt.c = u.c /\ rt.last = u.lastR
    BY <1>4, <1>20
  <2> QED BY <1>2, <1>3, <1>8, <1>14, <2>1 DEF BothStill
<1>21. k = i /\ l = j => v = u /\ BothStill(u)
  BY <1>8, <1>14, <1>20
<1>22. BothStill(u) => v = u
  <2> HAVE BothStill(u)
  <2>1. lt = x
    BY <1>8 DEF BothStill
  <2>2. lt.c = u.c
    BY <1>4, <2>1
  <2>3. rt = y
    BY <1>14, <2>2 DEF BothStill
  <2> QED BY <1>20, <2>1, <2>3
<1> QED BY <1>8, <1>14, <1>19, <1>21, <1>22 DEF BothDone, v

-----------------------------------------------------------------------------
(* The merge: a cluster is collected until no edit overlaps it. *)

\* What CollectCluster makes of both sides.
Collected(S, t, LE, RE, start, fl, fr, u, i, j, v, k, l) ==
    /\ BothState(S, t, LE, RE, start, fl, fr, v, k, l) /\ BothStill(v)
    /\ i <= k /\ j <= l
    /\ k = i /\ l = j => v = u

LEMMA ClusterCollects ==
    ASSUME NEW S, NEW t, NEW LE, NEW RE, Makes(S, t.base, t.left, LE), Makes(S, t.base, t.right, RE),
           NEW start, NEW fl, NEW fr, fl.side \in Nat, fr.side \in Nat,
           NEW u, NEW i, NEW j, BothState(S, t, LE, RE, start, fl, fr, u, i, j)
    PROVE  \E k, l : Collected(S, t, LE, RE, start, fl, fr, u, i, j, CollectCluster(u), k, l)
<1> DEFINE after == CHOOSE f : BothAbsorbing(u, f)
           State(v, k, l) == BothState(S, t, LE, RE, start, fl, fr, v, k, l)
           X == {v \in Boths(S) : \E k, l : State(v, k, l)}
           By(n, k, l) == /\ State(after[n], k, l) /\ i <= k /\ j <= l
                          /\ k = i /\ l = j => after[n] = u
                          /\ BothStill(after[n]) \/ k + l >= (i + j) + n
           Held == {n \in Nat : \E k, l : By(n, k, l)}
           max == Len(u.les) + Len(u.res)
<1>1. ASSUME NEW v, NEW k, NEW l, State(v, k, l)
      PROVE  /\ v \in Boths(S) /\ k \in 0..Len(LE) /\ l \in 0..Len(RE)
             /\ v.les = EditsFrom(LE, k) /\ v.res = EditsFrom(RE, l)
  BY <1>1 DEF BothState, Absorbed
<1>2. ASSUME NEW v, NEW k, NEW l, State(v, k, l)
      PROVE  \E m, n : BothDone(S, t, LE, RE, start, fl, fr, v, k, l, AbsorbBoth(v), m, n)
  BY <1>2, AbsorbBothTakes
<1>3. ASSUME NEW v, NEW k, NEW l, State(v, k, l), NEW m, NEW n,
             BothDone(S, t, LE, RE, start, fl, fr, v, k, l, AbsorbBoth(v), m, n)
      PROVE  /\ State(AbsorbBoth(v), m, n) /\ k <= m /\ l <= n
             /\ m = k /\ n = l => AbsorbBoth(v) = v /\ BothStill(v)
             /\ BothStill(v) => AbsorbBoth(v) = v
  BY <1>3 DEF BothDone
<1>4. State(u, i, j)
  OBVIOUS
<1>5. Len(LE) \in Nat /\ Len(RE) \in Nat /\ LE \in Seq(EditsOf(S)) /\ RE \in Seq(EditsOf(S))
  BY DEF Makes, Script
<1> HIDE DEF State
<1>6. BothAbsorbing(u, after)
  <2>1. u \in X
    BY <1>1, <1>4
  <2>2. \A v \in X : AbsorbBoth(v) \in X
    <3> TAKE v \in X
    <3>1. PICK k, l : State(v, k, l)
      OBVIOUS
    <3>2. PICK m, n : BothDone(S, t, LE, RE, start, fl, fr, v, k, l, AbsorbBoth(v), m, n)
      BY <1>2, <3>1
    <3>3. State(AbsorbBoth(v), m, n)
      BY <1>3, <3>1, <3>2
    <3>4. AbsorbBoth(v) \in Boths(S)
      BY <1>1, <3>3
    <3> QED BY <3>3, <3>4
  <2> HIDE DEF X
  <2>3. \E f : BothAbsorbing(u, f)
    BY <2>1, <2>2, BothAbsorbingExists
  <2> QED BY <2>3
<1>7. CollectCluster(u) = after[max]
  BY DEF CollectCluster, BothAbsorbing
<1>8. \A n \in Nat : after[n] = IF n = 0 THEN u ELSE AbsorbBoth(after[n - 1])
  <2> HIDE DEF after
  <2> QED BY <1>6 DEF BothAbsorbing
<1> HIDE DEF after
<1>9. i \in Nat /\ j \in Nat /\ i <= Len(LE) /\ j <= Len(RE)
  BY <1>1, <1>4, <1>5
<1>10. max \in Nat /\ (i + j) + max = Len(LE) + Len(RE)
  <2>1. i \in 0..Len(LE) /\ u.les = EditsFrom(LE, i) /\ j \in 0..Len(RE) /\ u.res = EditsFrom(RE, j)
    BY <1>1, <1>4
  <2>2. Len(EditsFrom(LE, i)) = Len(LE) - i /\ Len(EditsFrom(RE, j)) = Len(RE) - j
    BY <1>5, <2>1, RestLength
  <2>3. Len(u.les) = Len(LE) - i /\ Len(u.res) = Len(RE) - j
    BY <2>1, <2>2
  <2>4. max = (Len(LE) - i) + (Len(RE) - j)
    BY <2>3
  <2>5. i \in 0..Len(LE) /\ j \in 0..Len(RE)
    BY <2>1
  <2> HIDE DEF max
  <2>6. \A a, b, p, q \in Nat : a \in 0..p /\ b \in 0..q =>
          (p - a) + (q - b) \in Nat /\ (a + b) + ((p - a) + (q - b)) = p + q
    OBVIOUS
  <2>7. Len(LE) \in Nat /\ Len(RE) \in Nat
    BY <1>5
  <2>8. i \in Nat /\ j \in Nat
    BY <2>5, <2>7
  <2> QED BY <2>4, <2>5, <2>6, <2>7, <2>8
<1>11. 0 \in Held
  <2>1. after[0] = u
    BY <1>8
  <2>2. By(0, i, j)
    BY <1>4, <1>9, <2>1
  <2> HIDE DEF By
  <2> QED BY <2>2
<1>12. ASSUME NEW n \in Nat, n \in Held PROVE n + 1 \in Held
  <2>1. PICK k, l : By(n, k, l)
    <3> HIDE DEF By
    <3> QED BY <1>12
  <2>2. after[n + 1] = AbsorbBoth(after[n])
    BY <1>8
  <2>3. State(after[n], k, l)
    BY <2>1
  <2>4. PICK m, o : BothDone(S, t, LE, RE, start, fl, fr, after[n], k, l, AbsorbBoth(after[n]), m, o)
    BY <1>2, <2>3
  <2>5. /\ State(after[n + 1], m, o) /\ k <= m /\ l <= o
        /\ m = k /\ o = l => after[n + 1] = after[n] /\ BothStill(after[n])
        /\ BothStill(after[n]) => after[n + 1] = after[n]
    BY <1>3, <2>2, <2>3, <2>4
  <2>6. CASE BothStill(after[n])
    <3>1. By(n + 1, k, l)
      BY <2>1, <2>5, <2>6
    <3> HIDE DEF By
    <3> QED BY <3>1
  <2>7. CASE ~BothStill(after[n])
    <3>1. /\ i <= k /\ j <= l /\ k + l >= (i + j) + n
          /\ k \in Int /\ l \in Int /\ m \in Int /\ o \in Int /\ ~(m = k /\ o = l)
      BY <1>1, <1>5, <2>1, <2>3, <2>5, <2>7
    <3>2. i <= m /\ j <= o /\ m + o >= (i + j) + (n + 1)
      BY <1>9, <2>5, <3>1
    <3>3. ~(m = i /\ o = j)
      BY <1>9, <3>1, <3>2
    <3>4. By(n + 1, m, o)
      BY <2>5, <3>2, <3>3
    <3> HIDE DEF By
    <3> QED BY <3>4
  <2> QED BY <2>6, <2>7
<1>13. max \in Held
  <2> HIDE DEF Held, max
  <2> QED BY <1>10, <1>11, <1>12, InductionOverNat
<1>14. PICK k, l : By(max, k, l)
  <2> HIDE DEF By
  <2> QED BY <1>13
<1> HIDE DEF max
<1>15. State(after[max], k, l) /\ i <= k /\ j <= l /\ (k = i /\ l = j => after[max] = u)
  BY <1>14
<1>16. BothStill(after[max])
  <2> SUFFICES ASSUME k + l >= (i + j) + max PROVE BothStill(after[max])
    BY <1>14
  <2>1. k = Len(LE) /\ l = Len(RE) /\ k \in 0..Len(LE) /\ l \in 0..Len(RE)
    BY <1>1, <1>5, <1>10, <1>15
  <2>2. Heads(t.base, t.left, LE, k) /\ Heads(t.base, t.right, RE, l)
    BY <2>1, HeadIs
  <2>3. EditsFrom(LE, k) = <<>> /\ EditsFrom(RE, l) = <<>>
    BY <2>1, <2>2 DEF Heads
  <2>4. after[max].les = <<>> /\ after[max].res = <<>>
    BY <1>1, <1>15, <2>3
  <2> QED BY <2>4 DEF BothStill, Still
<1> QED BY <1>7, <1>15, <1>16 DEF Collected, State

-----------------------------------------------------------------------------
(* The merge: where a cluster ends on each side. *)

\* A side goes with the cluster to its end, from where its last edit in it ends.
SideEnds(a, b, es, from, m, x, y) ==
    Ahead(a, b, es, m, x, y) /\ from.side <= y /\ y <= Len(b) /\ y \in Nat

LEMMA SideEndIs ==
    ASSUME NEW S, NEW a, NEW b, NEW es, Makes(S, a, b, es), NEW start, NEW from,
           from.side \in Nat, from.base = start,
           NEW rest, NEW last, NEW m, NEW cluster, ClusterOf(a, start, cluster.c),
           Absorbed(a, b, es, from, rest, cluster.c, last, m), Still(rest, cluster.c)
    PROVE  SideEnds(a, b, es, from, m, cluster.c.end, SideEnd(cluster, last, from.side, start))
<1> DEFINE p == BaseAt(es, from, m)
           q == ThereAt(es, from, m)
           x == cluster.c.end
           y == SideEnd(cluster, last, from.side, start)
<1>1. /\ m \in 0..Len(es) /\ rest = EditsFrom(es, m) /\ Ahead(a, b, es, m, p, q)
      /\ last = IF m = from.k THEN {} ELSE {es[m]}
      /\ p <= x /\ from.side <= q
  BY DEF Absorbed
<1>2. x \in Nat /\ x <= Len(a)
  BY DEF ClusterOf, Clusters
<1>3. AheadSays(a, b, es, m, p, q)
  BY <1>1, AheadNumbers
<1>4. p \in Nat /\ q \in Nat
  BY <1>3 DEF AheadSays
<1>5. y = q + (x - p)
  <2>1. CASE m = from.k
    <3>1. last = {} /\ p = start /\ q = from.side
      BY <1>1, <2>1 DEF BaseAt, ThereAt
    <3>2. y = from.side + x - start
      BY <3>1 DEF SideEnd
    <3> HIDE DEF x, y
    <3>3. start \in Nat
      BY <1>4, <3>1
    <3> QED BY <1>2, <3>1, <3>2, <3>3
  <2>2. CASE m # from.k
    <3> DEFINE e == es[m]
    <3>1. last = {e} /\ p = e.baseEnd /\ q = e.sideEnd
      BY <1>1, <2>2 DEF BaseAt, ThereAt
    <3>2. {d.sideEnd + cluster.c.end - d.baseEnd : d \in last} = {e.sideEnd + x - e.baseEnd}
      BY <3>1
    <3>3. last # {}
      BY <3>1
    <3>4. y = e.sideEnd + x - e.baseEnd
      BY <3>2, <3>3 DEF SideEnd
    <3> HIDE DEF x, y, e
    <3> QED BY <1>2, <1>4, <3>1, <3>4
  <2> QED BY <2>1, <2>2
<1>6. x <= NextBase(es, a, m)
  <2>1. CASE m = Len(es)
    BY <1>2, <2>1 DEF NextBase
  <2>2. CASE m # Len(es)
    <3>1. Heads(a, b, es, m)
      BY <1>1, HeadIs
    <3>2. rest # <<>> /\ rest[1] = es[m + 1] /\ NextBase(es, a, m) = es[m + 1].baseStart
      BY <1>1, <2>2, <3>1 DEF Heads
    <3>3. ~(rest[1].baseStart < x)
      BY <3>2 DEF Still, Overlaps
    <3>4. NextBase(es, a, m) \in Nat
      BY <1>3 DEF AheadSays
    <3> QED BY <1>2, <3>2, <3>3, <3>4
  <2> QED BY <2>1, <2>2
<1> HIDE DEF p, q, x, y
<1>7. Reach(a, es, m, p, q, x, y)
  BY <1>1, <1>2, <1>5, <1>6 DEF Reach
<1>8. Reached(a, b, es, m, p, q, x, y)
  BY <1>1, <1>7, ReachedSo
<1>9. Ahead(a, b, es, m, x, y) /\ q <= y /\ y <= Len(b)
  BY <1>8 DEF Reached
<1>10. y \in Nat /\ from.side <= y
  <2>1. y \in Nat
    BY <1>9 DEF Ahead
  <2> QED BY <1>1, <1>4, <1>9, <2>1
<1> QED BY <1>9, <1>10 DEF SideEnds, x, y

\* What is the same on both sides is taken once, what is not is a conflict.
LEMMA ClusterSpans ==
    ASSUME NEW S, NEW t, NEW pos, NEW to, \A side \in TextSides : pos[side] <= to[side],
           NEW bs \in Seq(S), NEW ls \in Seq(S), NEW rs \in Seq(S),
           bs = Slice(t.base, pos.base, to.base), ls = Slice(t.left, pos.left, to.left),
           rs = Slice(t.right, pos.right, to.right)
    PROVE  /\ Spanning(S, t, ClusterSegment(bs, ls, rs), pos, to)
           /\ ls = rs => ClusterSegment(bs, ls, rs).lines = ClusterSegment(bs, ls, rs).left
<1> DEFINE g == ClusterSegment(bs, ls, rs)
<1>1. CASE ls = rs
  <2>1. CleanOf(S, t, "both-identical", bs, ls, rs, ls, pos, to)
    BY <1>1 DEF CleanOf
  <2>2. CleanHas(S, t, CleanSegment("both-identical", bs, ls, rs, ls), ls, rs, ls, pos, to)
    BY <2>1, CleanSpans
  <2>3. g = CleanSegment("both-identical", bs, ls, rs, ls)
    BY <1>1 DEF ClusterSegment
  <2> QED BY <2>2, <2>3 DEF CleanHas
<1>2. CASE ls # rs
  <2>1. g = ConflictHunk(bs, ls, rs)
    BY <1>2 DEF ClusterSegment
  <2>2. SegmentIsTrue(g)
    BY <2>1, ConflictIsTrue
  <2>3. g.type = "conflict" /\ g.base = bs /\ g.left = ls /\ g.right = rs /\ g.lines = bs
    BY <2>1 DEF ConflictHunk
  <2> HIDE DEF g
  <2>4. PartsTyped(S, g)
    BY <2>3 DEF PartsTyped, Parts
  <2>5. SegmentTakes(g)
    BY <1>2, <2>3 DEF SegmentTakes
  <2>6. ASSUME NEW side \in TextSides PROVE g[side] = SubSeq(t[side], pos[side] + 1, to[side])
    BY <2>3 DEF Slice, TextSides
  <2>7. Spanning(S, t, g, pos, to)
    BY <2>2, <2>4, <2>5, <2>6 DEF Spanning
  <2> QED BY <1>2, <2>7 DEF g
<1> QED BY <1>1, <1>2

\* On equal sides as much is absorbed.
LEMMA SameAbsorbed ==
    ASSUME NEW S, NEW a, NEW b, NEW es, Makes(S, a, b, es), NEW start, NEW fl, NEW fr, NEW c \in Clusters,
           NEW ls, NEW rs, NEW x, NEW y, NEW k, NEW l, fl.k = fr.k,
           Absorbed(a, b, es, fl, ls, c, x, k), Absorbed(a, b, es, fr, rs, c, y, l),
           Still(ls, c)
    PROVE  l <= k
<1> SUFFICES ASSUME ~(l <= k) PROVE FALSE
  OBVIOUS
<1>1. /\ k \in 0..Len(es) /\ l \in 0..Len(es) /\ fr.k \in Nat /\ fr.k <= k
      /\ ls = EditsFrom(es, k) /\ BaseAt(es, fr, l) <= c.end
  BY DEF Absorbed
<1>2. Len(es) \in Nat /\ Script(S, a, b, es, Len(a), Len(b))
  BY DEF Makes, Script
<1>3. k < l /\ k + 1 \in 1..Len(es) /\ l \in 1..Len(es) /\ k + 1 <= l /\ k # Len(es) /\ l # fr.k
  BY <1>1, <1>2
<1> DEFINE e == es[k + 1]
           f == es[l]
<1>4. ls # <<>> /\ ls[1] = e
  <2>1. Heads(a, b, es, k)
    BY <1>1, HeadIs
  <2> QED BY <1>1, <1>3, <2>1 DEF Heads
<1>5. f.baseEnd <= c.end
  BY <1>1, <1>3 DEF BaseAt
<1>6. e.baseEnd <= f.baseEnd
  BY <1>2, <1>3, EditsInOrder
<1>7. EditIs(S, a, b, e) /\ EditIs(S, a, b, f)
  BY <1>3, EditsAre
<1>8. e.baseStart \in Nat /\ e.baseEnd \in Nat /\ e.baseStart <= e.baseEnd /\ f.baseEnd \in Nat
  BY <1>7 DEF EditIs
<1>9. c.end \in Nat
  BY DEF Clusters
<1>10. ~Overlaps(e, c)
  BY <1>4 DEF Still
<1> HIDE DEF e, f
<1>11. ~(e.baseStart < c.end) /\ ~(e.baseStart = c.end /\ e.baseStart = e.baseEnd)
  BY <1>10 DEF Overlaps, Empty
<1> QED BY <1>5, <1>6, <1>8, <1>9, <1>11

-----------------------------------------------------------------------------
(* The merge: the segment of a cluster. *)

\* The cluster an overlap begins with, and where its sides are.
FirstCluster(s, start) ==
    [les |-> s.les, res |-> s.res, lastL |-> {}, lastR |-> {},
     c |-> [start |-> start, end |-> Greater(s.les[1].baseEnd, s.res[1].baseEnd),
            emptyAtEnd |-> FALSE]]

From(k, base, side) == [k |-> k, base |-> base, side |-> side]

LEMMA ClusterBegins ==
    ASSUME NEW S, NEW t, NEW LE, NEW RE, Merging(S, t, LE, RE),
           NEW s, NEW i, NEW j, MergeState(S, t, LE, RE, s, i, j),
           s.les # <<>>, s.res # <<>>, NEW start, s.pos.base = start,
           Starting(t, LE, RE, s, i, j, start)
    PROVE  /\ BothState(S, t, LE, RE, start, From(i, start, s.pos.left), From(j, start, s.pos.right),
                        FirstCluster(s, start), i, j)
           /\ ~BothStill(FirstCluster(s, start))
           /\ i \in 0..Len(LE) /\ j \in 0..Len(RE) /\ i # Len(LE) /\ j # Len(RE)
<1> DEFINE fl == From(i, start, s.pos.left)
           fr == From(j, start, s.pos.right)
           u == FirstCluster(s, start)
           e == s.les[1]
           f == s.res[1]
<1>1. Makes(S, t.base, t.left, LE) /\ Makes(S, t.base, t.right, RE)
  BY MergingMakes
<1>2. /\ s.les = EditsFrom(LE, i) /\ s.res = EditsFrom(RE, j)
      /\ Ahead(t.base, t.left, LE, i, s.pos.base, s.pos.left)
      /\ Ahead(t.base, t.right, RE, j, s.pos.base, s.pos.right)
  BY DEF MergeState
<1>3. /\ AheadSays(t.base, t.left, LE, i, s.pos.base, s.pos.left)
      /\ AheadSays(t.base, t.right, RE, j, s.pos.base, s.pos.right)
  BY <1>1, <1>2, AheadNumbers
<1>4. /\ i \in 0..Len(LE) /\ j \in 0..Len(RE) /\ i \in Nat /\ j \in Nat
      /\ s.pos.left \in Nat /\ s.pos.right \in Nat
  BY <1>3 DEF AheadSays
<1>5. Heads(t.base, t.left, LE, i) /\ Heads(t.base, t.right, RE, j)
  BY <1>1, <1>4, HeadIs
<1>6. /\ i # Len(LE) /\ e = LE[i + 1] /\ i + 1 \in 1..Len(LE)
      /\ NextBase(LE, t.base, i) = e.baseStart
      /\ j # Len(RE) /\ f = RE[j + 1] /\ j + 1 \in 1..Len(RE)
      /\ NextBase(RE, t.base, j) = f.baseStart
  BY <1>2, <1>5 DEF Heads
<1>7. EditIs(S, t.base, t.left, e) /\ EditIs(S, t.base, t.right, f)
  BY <1>1, <1>6, EditsAre
<1>8. /\ e.baseStart \in Nat /\ e.baseEnd \in Nat /\ e.baseStart <= e.baseEnd /\ e.baseEnd <= Len(t.base)
      /\ f.baseStart \in Nat /\ f.baseEnd \in Nat /\ f.baseStart <= f.baseEnd /\ f.baseEnd <= Len(t.base)
  BY <1>7 DEF EditIs
<1>9. /\ start \in Nat /\ start <= e.baseStart /\ start <= f.baseStart
      /\ start = e.baseStart \/ start = f.baseStart
  BY <1>6 DEF Starting
<1> DEFINE end == Greater(e.baseEnd, f.baseEnd)
<1>10. /\ u.les = s.les /\ u.res = s.res /\ u.lastL = {} /\ u.lastR = {}
       /\ u.c = [start |-> start, end |-> end, emptyAtEnd |-> FALSE]
       /\ u = [les |-> u.les, res |-> u.res, c |-> u.c, lastL |-> u.lastL, lastR |-> u.lastR]
  BY DEF FirstCluster
<1> HIDE DEF u, e, f
<1>11. end \in Nat /\ start <= end /\ end <= Len(t.base) /\ e.baseEnd <= end /\ f.baseEnd <= end
  BY <1>8, <1>9 DEF Greater
<1> HIDE DEF end
<1>12. u.c.start = start /\ u.c.end = end /\ u.c \in Clusters
  BY <1>9, <1>10, <1>11 DEF Clusters
<1>13. ClusterOf(t.base, start, u.c)
  BY <1>11, <1>12 DEF ClusterOf
<1>14. u \in Boths(S)
  <2>1. LE \in Seq(EditsOf(S)) /\ RE \in Seq(EditsOf(S))
    BY <1>1 DEF Makes, Script
  <2>2. u.les \in Seq(EditsOf(S)) /\ u.res \in Seq(EditsOf(S))
    BY <1>2, <1>4, <1>10, <2>1, RestIs
  <2> QED BY <1>10, <1>12, <2>2 DEF Boths
<1>15. /\ fl.k = i /\ fl.base = start /\ fl.side = s.pos.left
       /\ fr.k = j /\ fr.base = start /\ fr.side = s.pos.right
  BY DEF From
<1> HIDE DEF fl, fr
<1>16. /\ BaseAt(LE, fl, i) = start /\ ThereAt(LE, fl, i) = s.pos.left
       /\ BaseAt(RE, fr, j) = start /\ ThereAt(RE, fr, j) = s.pos.right
  BY <1>15 DEF BaseAt, ThereAt
<1>17. Absorbed(t.base, t.left, LE, fl, u.les, u.c, u.lastL, i)
  BY <1>2, <1>4, <1>10, <1>11, <1>12, <1>15, <1>16 DEF Absorbed
<1>18. Absorbed(t.base, t.right, RE, fr, u.res, u.c, u.lastR, j)
  BY <1>2, <1>4, <1>10, <1>11, <1>12, <1>15, <1>16 DEF Absorbed
<1>19. BothState(S, t, LE, RE, start, fl, fr, u, i, j)
  BY <1>13, <1>14, <1>17, <1>18 DEF BothState
<1>20. ~BothStill(u)
  <2>1. CASE start = e.baseStart
    <3>1. e.baseStart < end \/ (e.baseStart = end /\ start = end)
      BY <1>8, <1>11, <2>1
    <3>2. Overlaps(e, u.c)
      BY <1>12, <3>1 DEF Overlaps
    <3> QED BY <1>10, <3>2 DEF BothStill, Still, e
  <2>2. CASE start = f.baseStart
    <3>1. f.baseStart < end \/ (f.baseStart = end /\ start = end)
      BY <1>8, <1>11, <2>2
    <3>2. Overlaps(f, u.c)
      BY <1>12, <3>1 DEF Overlaps
    <3> QED BY <1>10, <3>2 DEF BothStill, Still, f
  <2> QED BY <1>9, <2>1, <2>2
<1> QED BY <1>4, <1>6, <1>19, <1>20 DEF fl, fr, u

\* An overlap is taken with all that overlaps it, of each side some edit or none,
\* and of one of them at least one.
LEMMA ClusteredTakes ==
    ASSUME NEW S, NEW t, NEW LE, NEW RE, Merging(S, t, LE, RE),
           NEW s, NEW i, NEW j, MergeState(S, t, LE, RE, s, i, j),
           s.les # <<>>, s.res # <<>>, NEW start, s.pos.base = start,
           Starting(t, LE, RE, s, i, j, start)
    PROVE  \E k, l : /\ MergeState(S, t, LE, RE, Clustered(t, s, start), k, l)
                     /\ i <= k /\ j <= l /\ ~(k = i /\ l = j)
<1> DEFINE fl == From(i, start, s.pos.left)
           fr == From(j, start, s.pos.right)
           u == FirstCluster(s, start)
           v == CollectCluster(u)
           to == ClusterEnd(v, s.pos, start)
           bs == Slice(t.base, start, to.base)
           ls == Slice(t.left, s.pos.left, to.left)
           rs == Slice(t.right, s.pos.right, to.right)
           g == ClusterSegment(bs, ls, rs)
           n == Clustered(t, s, start)
<1>1. Makes(S, t.base, t.left, LE) /\ Makes(S, t.base, t.right, RE)
  BY MergingMakes
<1>2. /\ BothState(S, t, LE, RE, start, fl, fr, u, i, j) /\ ~BothStill(u)
      /\ i \in 0..Len(LE) /\ j \in 0..Len(RE) /\ i # Len(LE) /\ j # Len(RE)
  BY ClusterBegins
<1>3. /\ Ahead(t.base, t.left, LE, i, s.pos.base, s.pos.left)
      /\ Ahead(t.base, t.right, RE, j, s.pos.base, s.pos.right)
      /\ Favours(t, LE, RE, s, i, j)
  BY DEF MergeState
<1>4. s.pos.left \in Nat /\ s.pos.right \in Nat /\ s.pos.base \in Nat
  BY <1>3 DEF Ahead
<1>5. /\ fl.k = i /\ fl.base = start /\ fl.side = s.pos.left
      /\ fr.k = j /\ fr.base = start /\ fr.side = s.pos.right
  BY DEF From
<1>6. n = [les |-> v.les, res |-> v.res, pos |-> to, made |-> Append(s.made, g)]
  BY DEF Clustered, FirstCluster
<1>7. /\ to.base = v.c.end /\ to.left = SideEnd(v, v.lastL, s.pos.left, start)
      /\ to.right = SideEnd(v, v.lastR, s.pos.right, start) /\ DOMAIN to = TextSides
  BY DEF ClusterEnd, TextSides
<1>8. /\ n.les = v.les /\ n.res = v.res /\ n.pos = to /\ n.made = Append(s.made, g)
      /\ DOMAIN n = {"les", "res", "made", "pos"}
  BY <1>6
<1> HIDE DEF fl, fr, u, to, n
<1>9. PICK k, l : Collected(S, t, LE, RE, start, fl, fr, u, i, j, v, k, l)
  <2>1. fl.side \in Nat /\ fr.side \in Nat
    BY <1>4, <1>5
  <2> QED BY <1>1, <1>2, <2>1, ClusterCollects
<1> HIDE DEF v
<1>10. /\ BothState(S, t, LE, RE, start, fl, fr, v, k, l) /\ BothStill(v)
       /\ i <= k /\ j <= l /\ (k = i /\ l = j => v = u)
  BY <1>9 DEF Collected
<1>11. ~(k = i /\ l = j)
  BY <1>2, <1>10
<1>12. /\ ClusterOf(t.base, start, v.c) /\ Still(v.les, v.c) /\ Still(v.res, v.c)
       /\ Absorbed(t.base, t.left, LE, fl, v.les, v.c, v.lastL, k)
       /\ Absorbed(t.base, t.right, RE, fr, v.res, v.c, v.lastR, l)
  BY <1>10 DEF BothState, BothStill
<1>13. SideEnds(t.base, t.left, LE, fl, k, v.c.end, SideEnd(v, v.lastL, fl.side, start))
  BY <1>1, <1>4, <1>5, <1>12, SideEndIs
<1>14. SideEnds(t.base, t.right, RE, fr, l, v.c.end, SideEnd(v, v.lastR, fr.side, start))
  BY <1>1, <1>4, <1>5, <1>12, SideEndIs
<1>15. /\ Ahead(t.base, t.left, LE, k, to.base, to.left)
       /\ s.pos.left <= to.left /\ to.left <= Len(t.left) /\ to.left \in Nat
  BY <1>5, <1>7, <1>13 DEF SideEnds
<1>16. /\ Ahead(t.base, t.right, RE, l, to.base, to.right)
       /\ s.pos.right <= to.right /\ to.right <= Len(t.right) /\ to.right \in Nat
  BY <1>5, <1>7, <1>14 DEF SideEnds
<1>17. start <= to.base /\ to.base <= Len(t.base) /\ to.base \in Nat /\ v.c \in Clusters
  BY <1>7, <1>12 DEF ClusterOf, Clusters
<1>18. \A side \in TextSides : s.pos[side] <= to[side]
  BY <1>15, <1>16, <1>17 DEF TextSides
<1>19. t.base \in Seq(S) /\ t.left \in Seq(S) /\ t.right \in Seq(S)
  BY <1>1 DEF Makes
<1>20. bs \in Seq(S) /\ ls \in Seq(S) /\ rs \in Seq(S)
  BY <1>4, <1>15, <1>16, <1>17, <1>19, SliceTyped
<1>21. ASSUME OneSide(t, LE, RE) PROVE k = l /\ to.left = to.right /\ ls = rs
  <2>1. LE = RE /\ t.left = t.right /\ i = j /\ s.pos.left = s.pos.right
    BY <1>3, <1>21 DEF OneSide, Favours
  <2>2. fl.k = fr.k
    BY <1>5, <2>1
  <2>3. Absorbed(t.base, t.left, LE, fr, v.res, v.c, v.lastR, l)
    BY <1>12, <2>1
  <2>4. l <= k
    BY <1>1, <1>12, <1>17, <2>2, <2>3, SameAbsorbed
  <2>5. k <= l
    BY <1>1, <1>12, <1>17, <2>2, <2>3, SameAbsorbed
  <2>6. k \in Int /\ l \in Int
    BY <1>15, <1>16 DEF Ahead
  <2>7. k = l
    BY <2>4, <2>5, <2>6
  <2>8. Ahead(t.base, t.left, LE, k, to.base, to.right)
    BY <1>16, <2>1, <2>7
  <2>9. /\ AheadSays(t.base, t.left, LE, k, to.base, to.left)
        /\ AheadSays(t.base, t.left, LE, k, to.base, to.right)
    BY <1>1, <1>15, <2>8, AheadNumbers
  <2>10. to.left = to.right
    BY <2>9 DEF AheadSays
  <2> QED BY <2>1, <2>7, <2>10
<1>22. /\ bs = Slice(t.base, s.pos.base, to.base) /\ ls = Slice(t.left, s.pos.left, to.left)
       /\ rs = Slice(t.right, s.pos.right, to.right)
  OBVIOUS
<1> HIDE DEF bs, ls, rs
<1>23. Spanning(S, t, g, s.pos, to) /\ (ls = rs => g.lines = g.left)
  BY <1>18, <1>20, <1>22, ClusterSpans, SMTT(30)
<1> HIDE DEF g
<1>24. Favoured(t, LE, RE, g)
  <2>1. LE # <<>> /\ RE # <<>>
    <3>1. \A z : z \in 0..Len(<<>>) => z = Len(<<>>)
      OBVIOUS
    <3> QED BY <1>2, <3>1
  <2> QED BY <1>21, <1>23, <2>1 DEF Favoured
<1>25. n.les = EditsFrom(LE, k) /\ n.res = EditsFrom(RE, l)
  BY <1>8, <1>12 DEF Absorbed
<1>26. MergeState(S, t, LE, RE, n, k, l)
  BY <1>8, <1>7, <1>15, <1>16, <1>21, <1>23, <1>24, <1>25, StepKeeps
<1> QED BY <1>10, <1>11, <1>26 DEF n

-----------------------------------------------------------------------------
(* The merge: its rounds, to the end of the texts. *)

\* The first edit of a side that is strictly before the other is where a round starts.
LEMMA FirstStarts ==
    ASSUME NEW S, NEW t, NEW LE, NEW RE, Merging(S, t, LE, RE),
           NEW s, NEW i, NEW j, MergeState(S, t, LE, RE, s, i, j),
           NEW start, Starting(t, LE, RE, s, i, j, start)
    PROVE  /\ StrictlyBefore(s.les, s.res) => start = s.les[1].baseStart
           /\ StrictlyBefore(s.res, s.les) => start = s.res[1].baseStart
           /\ ~(StrictlyBefore(s.les, s.res) /\ StrictlyBefore(s.res, s.les))
<1> DEFINE e == s.les[1]
           f == s.res[1]
<1>1. Makes(S, t.base, t.left, LE) /\ Makes(S, t.base, t.right, RE)
  BY MergingMakes
<1>2. /\ s.les = EditsFrom(LE, i) /\ s.res = EditsFrom(RE, j)
      /\ Ahead(t.base, t.left, LE, i, s.pos.base, s.pos.left)
      /\ Ahead(t.base, t.right, RE, j, s.pos.base, s.pos.right)
  BY DEF MergeState
<1>3. i \in 0..Len(LE) /\ j \in 0..Len(RE)
  BY <1>2 DEF Ahead
<1>4. Heads(t.base, t.left, LE, i) /\ Heads(t.base, t.right, RE, j)
  BY <1>1, <1>3, HeadIs
<1>5. /\ s.les = <<>> <=> i = Len(LE)
      /\ i # Len(LE) => e = LE[i + 1] /\ NextBase(LE, t.base, i) = e.baseStart /\ i + 1 \in 1..Len(LE)
  BY <1>2, <1>4 DEF Heads
<1>6. /\ s.res = <<>> <=> j = Len(RE)
      /\ j # Len(RE) => f = RE[j + 1] /\ NextBase(RE, t.base, j) = f.baseStart /\ j + 1 \in 1..Len(RE)
  BY <1>2, <1>4 DEF Heads
<1>7. i # Len(LE) => e.baseStart \in Nat /\ e.baseEnd \in Nat /\ e.baseStart <= e.baseEnd
  <2> HAVE i # Len(LE)
  <2>1. EditIs(S, t.base, t.left, e)
    BY <1>1, <1>5, EditsAre
  <2> QED BY <2>1 DEF EditIs
<1>8. j # Len(RE) => f.baseStart \in Nat /\ f.baseEnd \in Nat /\ f.baseStart <= f.baseEnd
  <2> HAVE j # Len(RE)
  <2>1. EditIs(S, t.base, t.right, f)
    BY <1>1, <1>6, EditsAre
  <2> QED BY <2>1 DEF EditIs
<1>9. /\ start \in Nat /\ start <= NextBase(LE, t.base, i) /\ start <= NextBase(RE, t.base, j)
      /\ \/ i # Len(LE) /\ start = e.baseStart
         \/ j # Len(RE) /\ start = f.baseStart
  BY <1>5, <1>6 DEF Starting
<1>10. ASSUME StrictlyBefore(s.les, s.res) PROVE start = e.baseStart
  <2>1. i # Len(LE) /\ (s.res = <<>> \/ e.baseEnd < f.baseStart \/ e.baseEnd = f.baseStart)
    BY <1>5, <1>10 DEF StrictlyBefore
  <2> HIDE DEF e, f
  <2> QED BY <1>5, <1>6, <1>7, <1>8, <1>9, <2>1
<1>11. ASSUME StrictlyBefore(s.res, s.les) PROVE start = f.baseStart
  <2>1. j # Len(RE) /\ (s.les = <<>> \/ f.baseEnd < e.baseStart \/ f.baseEnd = e.baseStart)
    BY <1>6, <1>11 DEF StrictlyBefore
  <2> HIDE DEF e, f
  <2> QED BY <1>5, <1>6, <1>7, <1>8, <1>9, <2>1
<1>12. ASSUME StrictlyBefore(s.les, s.res), StrictlyBefore(s.res, s.les) PROVE FALSE
  <2>1. /\ i # Len(LE) /\ j # Len(RE)
        /\ e.baseEnd < f.baseStart \/ (e.baseEnd = f.baseStart /\ e.baseStart # e.baseEnd)
        /\ f.baseEnd < e.baseStart \/ f.baseEnd = e.baseStart
    BY <1>5, <1>6, <1>12 DEF StrictlyBefore, Empty
  <2> HIDE DEF e, f
  <2> QED BY <1>7, <1>8, <2>1
<1> QED BY <1>10, <1>11, <1>12

\* A round takes an edit.
RoundDone(S, t, LE, RE, n, i, j, k, l) ==
    MergeState(S, t, LE, RE, n, k, l) /\ i <= k /\ j <= l /\ ~(k = i /\ l = j)

LEMMA RoundTakes ==
    ASSUME NEW S, NEW t, NEW LE, NEW RE, Merging(S, t, LE, RE),
           NEW s, NEW i, NEW j, MergeState(S, t, LE, RE, s, i, j),
           ~(s.les = <<>> /\ s.res = <<>>)
    PROVE  \E k, l : RoundDone(S, t, LE, RE, MergeRound(t, s), i, j, k, l)
<1> DEFINE start == CHOOSE n \in Starts(s) : \A m \in Starts(s) : n <= m
           there == Unchanged(t, s, start)
<1>1. Starting(t, LE, RE, s, i, j, start)
  BY RoundStarts
<1> DEFINE b1 == StrictlyBefore(s.les, s.res)
           b2 == StrictlyBefore(s.res, s.les)
<1>2. /\ b1 => MergeRound(t, s) = LeftOnly(t, there)
      /\ b2 => MergeRound(t, s) = RightOnly(t, there)
      /\ ~b1 /\ ~b2 => MergeRound(t, s) = Clustered(t, there, start)
  <2>1. ~(b1 /\ b2)
    BY <1>1, FirstStarts
  <2>2. ASSUME b1, ~b2 PROVE MergeRound(t, s) = LeftOnly(t, there)
    BY <2>2, Zenon DEF MergeRound, Starts
  <2>3. ASSUME b2, ~b1 PROVE MergeRound(t, s) = RightOnly(t, there)
    BY <2>3, Zenon DEF MergeRound, Starts
  <2>4. ASSUME ~b1, ~b2 PROVE MergeRound(t, s) = Clustered(t, there, start)
    BY <2>4, Zenon DEF MergeRound, Starts
  <2> QED BY <2>1, <2>2, <2>3, <2>4
<1> HIDE DEF start
<1>3. MergeState(S, t, LE, RE, there, i, j) /\ there.pos.base = start
  <2>1. /\ start \in Nat /\ s.pos.base <= start
        /\ start <= NextBase(LE, t.base, i) /\ start <= NextBase(RE, t.base, j)
    BY <1>1 DEF Starting
  <2> QED BY <2>1, UnchangedTakes
<1> HIDE DEF there
<1>4. there.les = s.les /\ there.res = s.res
  BY <1>3 DEF MergeState
<1>5. i \in Nat /\ j \in Nat
  BY <1>3 DEF MergeState, Ahead
<1>6. CASE b1
  <2>1. there.pos.base = there.les[1].baseStart /\ StrictlyBefore(there.les, there.res)
    BY <1>1, <1>3, <1>4, <1>6, FirstStarts
  <2>2. MergeState(S, t, LE, RE, LeftOnly(t, there), i + 1, j)
    BY <1>3, <2>1, LeftTakes
  <2>3. RoundDone(S, t, LE, RE, MergeRound(t, s), i, j, i + 1, j)
    BY <1>2, <1>5, <1>6, <2>2 DEF RoundDone
  <2> QED BY <2>3
<1>7. CASE b2
  <2>1. there.pos.base = there.res[1].baseStart /\ StrictlyBefore(there.res, there.les)
    BY <1>1, <1>3, <1>4, <1>7, FirstStarts
  <2>2. MergeState(S, t, LE, RE, RightOnly(t, there), i, j + 1)
    BY <1>3, <2>1, RightTakes
  <2>3. RoundDone(S, t, LE, RE, MergeRound(t, s), i, j, i, j + 1)
    BY <1>2, <1>5, <1>7, <2>2 DEF RoundDone
  <2> QED BY <2>3
<1>8. CASE ~b1 /\ ~b2
  <2>1. there.les # <<>> /\ there.res # <<>>
    BY <1>4, <1>8 DEF StrictlyBefore
  <2>2. Starting(t, LE, RE, there, i, j, start)
    BY <1>1, <1>3 DEF Starting
  <2>3. PICK k, l : /\ MergeState(S, t, LE, RE, Clustered(t, there, start), k, l)
                    /\ i <= k /\ j <= l /\ ~(k = i /\ l = j)
    BY <1>3, <2>1, <2>2, ClusteredTakes
  <2>4. RoundDone(S, t, LE, RE, MergeRound(t, s), i, j, k, l)
    BY <1>2, <1>8, <2>3 DEF RoundDone
  <2> QED BY <2>4
<1> QED BY <1>6, <1>7, <1>8

\* What the merge has made when it ends.
MergeEnds(S, t, LE, RE, made) ==
    /\ FreshSegments(made)
    /\ \A k \in 1..Len(made) : PartsTyped(S, made[k]) /\ SegmentTakes(made[k])
    /\ \A side \in TextSides : PartOf(made, side) = t[side]
    /\ LE = <<>> => Rendering(made, "right")
    /\ RE = <<>> => Rendering(made, "left")
    /\ OneSide(t, LE, RE) => Rendering(made, "left")

LEMMA MergeTakes ==
    ASSUME NEW S, NEW t, NEW LE, NEW RE, Merging(S, t, LE, RE)
    PROVE  MergeEnds(S, t, LE, RE, MergedSegments(t, LE, RE))
<1> DEFINE first == [les |-> LE, res |-> RE, made |-> <<>>,
                     pos |-> [base |-> 0, left |-> 0, right |-> 0]]
           after == CHOOSE f : Rounds(t, first, f)
           By(n, i, j) == /\ MergeState(S, t, LE, RE, after[n], i, j)
                          /\ i + j >= n \/ (i = Len(LE) /\ j = Len(RE))
           Held == {n \in Nat : \E i, j : By(n, i, j)}
           max == Len(LE) + Len(RE)
           last == Unchanged(t, after[max], Len(t.base))
<1>1. Makes(S, t.base, t.left, LE) /\ Makes(S, t.base, t.right, RE)
  BY MergingMakes
<1>2. /\ Len(LE) \in Nat /\ Len(RE) \in Nat /\ LE \in Seq(EditsOf(S)) /\ RE \in Seq(EditsOf(S))
      /\ Len(t.base) \in Nat
  BY <1>1 DEF Makes, Script
<1>3. Rounds(t, first, after)
  BY RoundsExist
<1>4. MergedSegments(t, LE, RE) = last.made
  BY DEF MergedSegments, Rounds
<1>5. \A n \in Nat : after[n] = IF n = 0 THEN first ELSE MergeRound(t, after[n - 1])
  <2> HIDE DEF after, first
  <2> QED BY <1>3 DEF Rounds
<1> HIDE DEF after
<1>6. MergeState(S, t, LE, RE, first, 0, 0)
  <2>1. EditsFrom(LE, 0) = LE /\ EditsFrom(RE, 0) = RE
    <3>1. \A es \in Seq(EditsOf(S)) : SubSeq(es, 1, Len(es)) = es
      OBVIOUS
    <3>2. 0 + 1 = 1
      OBVIOUS
    <3> QED BY <1>2, <3>1, <3>2 DEF EditsFrom
  <2>2. Ahead(t.base, t.left, LE, 0, 0, 0) /\ Ahead(t.base, t.right, RE, 0, 0, 0)
    BY <1>1, AheadAtFirst DEF Makes
  <2>3. Taken(S, t, <<>>, [base |-> 0, left |-> 0, right |-> 0])
    BY NothingTaken
  <2>4. \A part : Rendering(<<>>, part)
    BY DEF Rendering
  <2>5. /\ DOMAIN first = {"les", "res", "made", "pos"} /\ DOMAIN first.pos = TextSides
        /\ first.les = LE /\ first.res = RE /\ first.made = <<>>
        /\ first.pos = [base |-> 0, left |-> 0, right |-> 0]
        /\ first.pos.base = 0 /\ first.pos.left = 0 /\ first.pos.right = 0
    BY DEF TextSides
  <2> HIDE DEF first
  <2>6. Favours(t, LE, RE, first, 0, 0)
    BY <2>4, <2>5 DEF Favours
  <2> QED BY <2>1, <2>2, <2>3, <2>5, <2>6 DEF MergeState
<1> HIDE DEF first
<1>7. ASSUME NEW s, NEW i, NEW j, MergeState(S, t, LE, RE, s, i, j)
      PROVE  /\ i \in 0..Len(LE) /\ j \in 0..Len(RE)
             /\ s.les = <<>> /\ s.res = <<>> <=> i = Len(LE) /\ j = Len(RE)
  <2>1. i \in 0..Len(LE) /\ j \in 0..Len(RE) /\ s.les = EditsFrom(LE, i) /\ s.res = EditsFrom(RE, j)
    BY <1>7 DEF MergeState, Ahead
  <2>2. Heads(t.base, t.left, LE, i) /\ Heads(t.base, t.right, RE, j)
    BY <1>1, <2>1, HeadIs
  <2> QED BY <2>1, <2>2 DEF Heads
<1>8. 0 \in Held
  <2>1. after[0] = first
    BY <1>5
  <2>2. By(0, 0, 0)
    BY <1>6, <2>1
  <2> HIDE DEF By
  <2> QED BY <2>2
<1>9. ASSUME NEW n \in Nat, n \in Held PROVE n + 1 \in Held
  <2>1. PICK i, j : By(n, i, j)
    <3> HIDE DEF By
    <3> QED BY <1>9
  <2> DEFINE s == after[n]
  <2>2. after[n + 1] = MergeRound(t, s)
    BY <1>5
  <2>3. MergeState(S, t, LE, RE, s, i, j)
    BY <2>1
  <2> HIDE DEF s
  <2>4. CASE s.les = <<>> /\ s.res = <<>>
    <3>1. after[n + 1] = s
      <4>1. ~StrictlyBefore(s.les, s.res) /\ ~StrictlyBefore(s.res, s.les)
        BY <2>4 DEF StrictlyBefore
      <4>2. MergeRound(t, s) = s
        BY <2>4, <4>1 DEF MergeRound
      <4> QED BY <2>2, <4>2
    <3>2. i = Len(LE) /\ j = Len(RE)
      BY <1>7, <2>3, <2>4
    <3>3. By(n + 1, i, j)
      BY <2>3, <3>1, <3>2
    <3> HIDE DEF By
    <3> QED BY <3>3
  <2>5. CASE ~(s.les = <<>> /\ s.res = <<>>)
    <3>1. PICK k, l : RoundDone(S, t, LE, RE, MergeRound(t, s), i, j, k, l)
      BY <2>3, <2>5, RoundTakes
    <3>2. MergeState(S, t, LE, RE, after[n + 1], k, l) /\ i <= k /\ j <= l /\ ~(k = i /\ l = j)
      BY <2>2, <3>1 DEF RoundDone
    <3>3. i + j >= n
      BY <1>7, <2>1, <2>3, <2>5
    <3>4. i \in Int /\ j \in Int /\ k \in Int /\ l \in Int
      BY <1>2, <1>7, <2>3, <3>2
    <3>5. k + l >= n + 1
      BY <3>2, <3>3, <3>4
    <3>6. By(n + 1, k, l)
      BY <3>2, <3>5
    <3> HIDE DEF By
    <3> QED BY <3>6
  <2> QED BY <2>4, <2>5
<1>10. max \in Nat
  BY <1>2
<1>11. max \in Held
  <2> HIDE DEF Held, max
  <2> QED BY <1>8, <1>9, <1>10, InductionOverNat
<1>12. PICK i, j : By(max, i, j)
  <2> HIDE DEF By
  <2> QED BY <1>11
<1>13. MergeState(S, t, LE, RE, after[max], i, j)
  BY <1>12
<1>14. i = Len(LE) /\ j = Len(RE)
  <2>1. i \in 0..Len(LE) /\ j \in 0..Len(RE)
    BY <1>7, <1>13
  <2> QED BY <1>2, <1>12, <2>1
<1> HIDE DEF max
<1>15. NextBase(LE, t.base, i) = Len(t.base) /\ NextBase(RE, t.base, j) = Len(t.base)
  BY <1>14 DEF NextBase
<1>16. after[max].pos.base <= Len(t.base)
  <2>1. AheadSays(t.base, t.left, LE, i, after[max].pos.base, after[max].pos.left)
    BY <1>1, <1>13, AheadNumbers DEF MergeState
  <2> QED BY <2>1 DEF AheadSays
<1>17. MergeState(S, t, LE, RE, last, i, j) /\ last.pos.base = Len(t.base)
  <2> DEFINE upTo == Len(t.base)
  <2>1. /\ upTo \in Nat /\ after[max].pos.base <= upTo
        /\ upTo <= NextBase(LE, t.base, i) /\ upTo <= NextBase(RE, t.base, j)
    BY <1>2, <1>15, <1>16
  <2> HIDE DEF upTo
  <2>2. MergeState(S, t, LE, RE, Unchanged(t, after[max], upTo), i, j) /\ Unchanged(t, after[max], upTo).pos.base = upTo
    BY <1>13, <2>1, UnchangedTakes
  <2> QED BY <2>2 DEF upTo
<1> HIDE DEF last
<1>18. last.pos.left = Len(t.left) /\ last.pos.right = Len(t.right)
  <2>1. /\ AheadSays(t.base, t.left, LE, i, last.pos.base, last.pos.left)
        /\ AheadSays(t.base, t.right, RE, j, last.pos.base, last.pos.right)
    BY <1>1, <1>17, AheadNumbers DEF MergeState
  <2>2. NextThere(LE, t.left, i) = Len(t.left) /\ NextThere(RE, t.right, j) = Len(t.right)
    BY <1>14 DEF NextThere
  <2> QED BY <1>15, <1>17, <2>1, <2>2, SMTT(30) DEF AheadSays
<1>19. Taken(S, t, last.made, last.pos) /\ Favours(t, LE, RE, last, i, j)
  BY <1>17 DEF MergeState
<1>20. ASSUME NEW side \in TextSides PROVE PartOf(last.made, side) = t[side]
  <2>1. PartOf(last.made, side) = SubSeq(t[side], 1, last.pos[side])
    BY <1>19 DEF Taken
  <2>2. last.pos[side] = Len(t[side])
    BY <1>17, <1>18 DEF TextSides
  <2>3. t[side] \in Seq(S)
    BY DEF Merging, TextsTyped
  <2>4. \A w \in Seq(S) : SubSeq(w, 1, Len(w)) = w
    OBVIOUS
  <2> QED BY <2>1, <2>2, <2>3, <2>4
<1> QED BY <1>4, <1>19, <1>20 DEF MergeEnds, Taken, Favours

-----------------------------------------------------------------------------
(* The merge: the document it makes. *)

\* What the lines are made of: the words and what is put between two lines.
Words == STRING \cup {NewLine}
TextLines == Seq(Words)

LEMMA SeqOfMore == \A A, B : A \subseteq B => Seq(A) \subseteq Seq(B)
  OBVIOUS

LEMMA LinesAreText == Seq(Seq(STRING)) \subseteq Seq(TextLines)
<1> DEFINE A == STRING
<1>1. A \subseteq Words
  BY DEF Words
<1> HIDE DEF A
<1>2. Seq(A) \subseteq Seq(Words)
  BY <1>1, SeqOfMore
<1>3. Seq(Seq(A)) \subseteq Seq(Seq(Words))
  BY <1>2, SeqOfMore
<1> QED BY <1>3 DEF A, TextLines

\* What is merged and what is typed are such lines.
LEMMA TextsAreText == MergeAssumption => \A t \in Texts \cup Inputs : t.lines \in Seq(TextLines)
<1> SUFFICES ASSUME MergeAssumption, NEW t \in Texts \cup Inputs PROVE t.lines \in Seq(TextLines)
  OBVIOUS
<1> DEFINE A == Seq(Seq(STRING))
<1>1. t.lines \in A
  BY DEF MergeAssumption
<1>2. A \subseteq Seq(TextLines)
  BY LinesAreText
<1> HIDE DEF A
<1> QED BY <1>1, <1>2

\* The lines of the three texts.
LinesOfTexts == [base |-> texts.base.lines, left |-> texts.left.lines, right |-> texts.right.lines]

\* The document has all the lines of the three texts.
DocumentTakes ==
    /\ Len(segments) \in Nat /\ DOMAIN segments = 1..Len(segments) /\ Len(segments) # 0
    /\ \A i \in 1..Len(segments) : PartsTyped(TextLines, segments[i]) /\ SegmentTakes(segments[i])
    /\ \A side \in TextSides : PartOf(segments, side) = texts[side].lines

\* As it was made.
FreshlyMade ==
    /\ texts.base.lines = texts.left.lines => RenderedLines = texts.right.lines
    /\ texts.base.lines = texts.right.lines => RenderedLines = texts.left.lines
    /\ texts.left.lines = texts.right.lines => RenderedLines = texts.left.lines

LEMMA RenderingIs ==
    ASSUME NEW made, NEW part, DOMAIN made = 1..Len(made), Rendering(made, part)
    PROVE  LinesIn(made) = PartOf(made, part)
<1>1. [i \in DOMAIN made |-> made[i].lines] = [k \in 1..Len(made) |-> made[k][part]]
  BY DEF Rendering
<1> QED BY <1>1 DEF LinesIn, PartOf

LEMMA DocumentStarts == MergeAssumption /\ EditorInit => TextsKept /\ DocumentTakes /\ FreshlyMade
<1> SUFFICES ASSUME MergeAssumption, EditorInit PROVE TextsKept /\ DocumentTakes /\ FreshlyMade
  OBVIOUS
<1> DEFINE t == LinesOfTexts
           LE == SequenceEdits(t.base, t.left)
           RE == SequenceEdits(t.base, t.right)
<1>0. TextsKept
  BY DEF EditorInit, TextsKept
<1>1. texts.base \in Texts /\ texts.left \in Texts /\ texts.right \in Texts
  BY <1>0 DEF TextsKept
<1>2. \A side \in TextSides : t[side] \in Seq(TextLines) /\ t[side] = texts[side].lines
  BY <1>1, TextsAreText DEF TextSides, LinesOfTexts
<1>3. segments = MergedSegments(t, LE, RE)
  BY DEF EditorInit, ThreeWayMerge, LinesOfTexts
<1>4. \E side \in TextSides : texts[side].lines # <<>>
  <2>1. DOMAIN texts = TextSides
    BY <1>0 DEF TextsKept, TextSides
  <2> QED BY <2>1 DEF EditorInit
<1>5. t.base \in Seq(TextLines) /\ t.left \in Seq(TextLines) /\ t.right \in Seq(TextLines)
  BY <1>2 DEF TextSides
<1>6. /\ t.base = texts.base.lines /\ t.left = texts.left.lines /\ t.right = texts.right.lines
  BY DEF LinesOfTexts
<1> HIDE DEF t
<1>7. Merging(TextLines, t, LE, RE)
  <2>1. TextsTyped(TextLines, t)
    BY <1>2 DEF TextsTyped
  <2> QED BY <1>5, <2>1, EditsSay DEF Merging
<1>8. MergeEnds(TextLines, t, LE, RE, segments)
  BY <1>3, <1>7, MergeTakes
<1>9. t.left = t.right => OneSide(t, LE, RE)
  BY DEF OneSide
<1>10. (t.base = t.left => LE = <<>>) /\ (t.base = t.right => RE = <<>>)
  BY <1>5, NoEdits
<1> HIDE DEF LE, RE
<1>11. /\ FreshSegments(segments)
       /\ \A k \in 1..Len(segments) : PartsTyped(TextLines, segments[k]) /\ SegmentTakes(segments[k])
       /\ \A side \in TextSides : PartOf(segments, side) = t[side]
       /\ LE = <<>> => Rendering(segments, "right")
       /\ RE = <<>> => Rendering(segments, "left")
       /\ OneSide(t, LE, RE) => Rendering(segments, "left")
  BY <1>8 DEF MergeEnds
<1>12. Len(segments) \in Nat /\ DOMAIN segments = 1..Len(segments)
  BY <1>11 DEF FreshSegments
<1>13. Len(segments) # 0
  <2> SUFFICES ASSUME Len(segments) = 0 PROVE FALSE
    OBVIOUS
  <2>1. ASSUME NEW side \in TextSides PROVE texts[side].lines = <<>>
    <3>1. PartOf(segments, side) = <<>>
      <4>1. [k \in 1..0 |-> segments[k][side]] = <<>>
        OBVIOUS
      <4> QED BY <4>1 DEF PartOf, FlattenSeq
    <3> QED BY <1>2, <1>11, <3>1
  <2> QED BY <1>4, <2>1
<1>14. DocumentTakes
  BY <1>2, <1>11, <1>12, <1>13 DEF DocumentTakes
<1>15. FreshlyMade
  <2>1. \A part : Rendering(segments, part) => RenderedLines = PartOf(segments, part)
    BY <1>12, RenderingIs DEF RenderedLines
  <2>2. PartOf(segments, "left") = t.left /\ PartOf(segments, "right") = t.right
    BY <1>11 DEF TextSides
  <2> QED BY <1>6, <1>9, <1>10, <1>11, <2>1, <2>2 DEF FreshlyMade
<1> QED BY <1>0, <1>14, <1>15

LEMMA TakesGives == TextsKept /\ DocumentTakes /\ (edits = 0 => FreshlyMade) => MergeTakesAll
<1> SUFFICES ASSUME TextsKept, DocumentTakes, edits = 0 => FreshlyMade PROVE MergeTakesAll
  OBVIOUS
<1>1. DOMAIN texts = TextSides
  BY DEF TextsKept, TextSides
<1>2. DOMAIN segments = 1..Len(segments)
  BY DEF DocumentTakes
<1>3. \A part : Lines(part) = PartOf(segments, part)
  BY <1>2 DEF Lines, PartOf
<1>4. \A side \in DOMAIN texts : Lines(side) = texts[side].lines
  BY <1>1, <1>3 DEF DocumentTakes
<1>5. \A s \in Range(segments) : SegmentTakes(s)
  BY <1>2 DEF DocumentTakes, Range
<1> QED BY <1>4, <1>5 DEF MergeTakesAll, SegmentTakes, FreshlyMade

-----------------------------------------------------------------------------
(* Combining: words and lines. *)

LEMMA PiecesTyped ==
    ASSUME NEW S, NEW l \in Nat, NEW p, \A i \in 1..l : p[i] \in Seq(S)
    PROVE  FlattenSeq([i \in 1..l |-> p[i]]) \in Seq(S)
<1> DEFINE pieces == [i \in 1..l |-> p[i]]
<1>1. pieces \in Seq(Seq(S))
  OBVIOUS
<1> HIDE DEF pieces
<1>2. FlattenSeq(pieces) \in Seq(S)
  BY <1>1, FlattenType
<1> QED BY <1>2 DEF pieces

LEMMA TokensTyped ==
    ASSUME NEW lines \in Seq(TextLines)
    PROVE  Tokens(lines) \in TextLines
<1> DEFINE p == [i \in 1..Len(lines) |-> IF i = 1 THEN lines[i] ELSE <<NewLine>> \o lines[i]]
<1>1. Len(lines) \in Nat
  OBVIOUS
<1>2. <<NewLine>> \in Seq(Words)
  <2>1. NewLine \in Words
    BY DEF Words
  <2> QED BY <2>1
<1>3. \A i \in 1..Len(lines) : lines[i] \in Seq(Words)
  BY DEF TextLines
<1>4. \A i \in 1..Len(lines) : <<NewLine>> \o lines[i] \in Seq(Words)
  BY <1>2, <1>3
<1>5. \A i \in 1..Len(lines) : p[i] \in Seq(Words)
  BY <1>3, <1>4
<1>6. p = [i \in 1..Len(lines) |-> p[i]]
  OBVIOUS
<1>7. FlattenSeq(p) \in Seq(Words)
  <2> HIDE DEF p
  <2>1. FlattenSeq([i \in 1..Len(lines) |-> p[i]]) \in Seq(Words)
    BY <1>1, <1>5, PiecesTyped
  <2> QED BY <1>6, <2>1
<1> QED BY <1>7 DEF Tokens, TextLines

LEMMA LinesOfTyped ==
    ASSUME NEW tokens \in TextLines
    PROVE  LinesOf(tokens) \in Seq(TextLines)
<1> DEFINE Breaks(n) == Cardinality({i \in 1..n : tokens[i] = NewLine})
           Part(k, i) == IF tokens[i] # NewLine /\ Breaks(i) = k THEN <<tokens[i]>> ELSE <<>>
           Made(k) == FlattenSeq([i \in 1..Len(tokens) |-> Part(k - 1, i)])
           n == Breaks(Len(tokens)) + 1
<1>0. Len(tokens) \in Nat /\ \A i \in 1..Len(tokens) : tokens[i] \in Words
  BY DEF TextLines
<1>1. CASE tokens = <<>>
  BY <1>1 DEF LinesOf
<1>2. CASE tokens # <<>>
  <2>1. Breaks(Len(tokens)) \in Nat
    <3>1. IsFiniteSet(1..Len(tokens))
      BY <1>0, FS_Interval
    <3>2. IsFiniteSet({i \in 1..Len(tokens) : tokens[i] = NewLine})
      BY <3>1, FS_Subset
    <3> QED BY <3>2, FS_CardinalityType
  <2>2. ASSUME NEW k \in 1..n PROVE Made(k) \in TextLines
    <3> DEFINE p == [i \in 1..Len(tokens) |-> Part(k - 1, i)]
    <3>1. \A i \in 1..Len(tokens) : <<tokens[i]>> \in Seq(Words)
      BY <1>0
    <3>2. <<>> \in Seq(Words)
      OBVIOUS
    <3>3. ASSUME NEW i \in 1..Len(tokens) PROVE Part(k - 1, i) \in Seq(Words)
      <4> HIDE DEF Breaks
      <4> QED BY <3>1, <3>2
    <3> HIDE DEF Part
    <3>4. \A i \in 1..Len(tokens) : p[i] \in Seq(Words)
      BY <3>3
    <3>5. p = [i \in 1..Len(tokens) |-> p[i]]
      OBVIOUS
    <3> HIDE DEF p
    <3>6. FlattenSeq(p) \in Seq(Words)
      BY <1>0, <3>4, <3>5, PiecesTyped
    <3> QED BY <3>6 DEF p, TextLines
  <2>3. LinesOf(tokens) = [line \in 1..n |-> Made(line)]
    BY <1>2 DEF LinesOf
  <2>4. n \in Nat
    BY <2>1
  <2> HIDE DEF Made, n
  <2> QED BY <2>2, <2>3, <2>4
<1> QED BY <1>1, <1>2

\* Edits within the first n items.
EditsWithin(S, n) == {e \in EditsOf(S) : e.baseStart <= n /\ e.baseEnd <= n}

LEMMA ScriptWithin ==
    ASSUME NEW S, NEW a \in Seq(S), NEW b \in Seq(S)
    PROVE  SequenceEdits(a, b) \in Seq(EditsWithin(S, Len(a)))
<1> DEFINE es == SequenceEdits(a, b)
<1>1. Script(S, a, b, es, Len(a), Len(b))
  BY EditsSay
<1> HIDE DEF es
<1>2. es \in Seq(EditsOf(S)) /\ Len(es) \in Nat
  BY <1>1, ScriptType
<1>3. \A k \in 1..Len(es) : es[k] \in EditsOf(S) /\ es[k].baseStart \in Nat /\ es[k].baseEnd \in Nat
  BY <1>1, ScriptType
<1>4. \A k \in 1..Len(es) : es[k].baseStart <= es[k].baseEnd /\ es[k].baseEnd <= Len(a)
  BY <1>1 DEF Script, ProperEdit
<1>5. Len(a) \in Nat
  OBVIOUS
<1>6. \A x \in Nat : \A y \in Nat : \A l \in Nat : x <= y /\ y <= l => x <= l
  OBVIOUS
<1>7. \A k \in 1..Len(es) : es[k] \in EditsWithin(S, Len(a))
  BY <1>3, <1>4, <1>5, <1>6 DEF EditsWithin
<1>8. es = [k \in 1..Len(es) |-> es[k]]
  BY <1>2
<1> HIDE DEF EditsWithin
<1>9. es \in Seq(EditsWithin(S, Len(a)))
  BY <1>2, <1>7, <1>8
<1> QED BY <1>9 DEF es

-----------------------------------------------------------------------------
(* Combining: the edits of both sides in one sequence. *)

\* What the rounds of combining come to, for edits from a set.
CombineStates(E) == [made : Seq(E), first : Seq(E), second : Seq(E)]

LEMMA CombineRoundTyped ==
    ASSUME NEW E, NEW s \in CombineStates(E)
    PROVE  CombineRound(s) \subseteq CombineStates(E)
<1> DEFINE e == s.first[1]
           f == s.second[1]
           Then(made, first, second) ==
              {[made |-> s.made \o made, first |-> first, second |-> second]}
           T == SUBSET CombineStates(E)
<1>1. s.made \in Seq(E) /\ s.first \in Seq(E) /\ s.second \in Seq(E)
  BY DEF CombineStates
<1>2. CASE s.first = <<>> \/ s.second = <<>>
  BY <1>2 DEF CombineRound
<1>3. CASE ~(s.first = <<>> \/ s.second = <<>>)
  <2>1. e \in E /\ f \in E /\ Tail(s.first) \in Seq(E) /\ Tail(s.second) \in Seq(E)
    BY <1>1, <1>3
  <2>2. \A made, first, second \in Seq(E) : Then(made, first, second) \in T
    BY <1>1 DEF CombineStates
  <2>3. CombineRound(s) =
           CASE e.baseEnd < f.baseStart -> Then(<<e>>, Tail(s.first), s.second)
             [] f.baseEnd < e.baseStart -> Then(<<f>>, s.first, Tail(s.second))
             [] SameEdit(e, f) -> Then(<<e>>, Tail(s.first), Tail(s.second))
             [] Touch(e, f) -> Then(<<e, f>>, Tail(s.first), Tail(s.second))
             [] Touch(f, e) -> Then(<<f, e>>, Tail(s.first), Tail(s.second))
             [] OTHER -> {}
    BY <1>3 DEF CombineRound
  <2> HIDE DEF e, f
  <2>4. <<e>> \in Seq(E) /\ <<f>> \in Seq(E) /\ <<e, f>> \in Seq(E) /\ <<f, e>> \in Seq(E)
    BY <2>1
  <2>5. {} \in T
    OBVIOUS
  <2> DEFINE r1 == Then(<<e>>, Tail(s.first), s.second)
             r2 == Then(<<f>>, s.first, Tail(s.second))
             r3 == Then(<<e>>, Tail(s.first), Tail(s.second))
             r4 == Then(<<e, f>>, Tail(s.first), Tail(s.second))
             r5 == Then(<<f, e>>, Tail(s.first), Tail(s.second))
  <2> HIDE DEF Then, T
  <2>6. r1 \in T /\ r2 \in T /\ r3 \in T /\ r4 \in T /\ r5 \in T
    BY <1>1, <2>1, <2>2, <2>4
  <2> HIDE DEF r1, r2, r3, r4, r5
  <2>7. CombineRound(s) =
           CASE e.baseEnd < f.baseStart -> r1
             [] f.baseEnd < e.baseStart -> r2
             [] SameEdit(e, f) -> r3
             [] Touch(e, f) -> r4
             [] Touch(f, e) -> r5
             [] OTHER -> {}
    BY <2>3 DEF r1, r2, r3, r4, r5
  <2>8. CombineRound(s) \in T
    BY <2>5, <2>6, <2>7
  <2> QED BY <2>8 DEF T
<1> QED BY <1>2, <1>3

Combining(x0, f) ==
    f = [n \in Nat |-> IF n = 0 THEN x0 ELSE UNION {CombineRound(s) : s \in f[n - 1]}]

LEMMA CombiningExists ==
    ASSUME NEW E, NEW x0 \in SUBSET CombineStates(E)
    PROVE  \E f \in [Nat -> SUBSET CombineStates(E)] : Combining(x0, f)
<1> DEFINE X == SUBSET CombineStates(E)
           R(x) == UNION {CombineRound(s) : s \in x}
           H == [n \in Nat |-> [x \in X |-> R(x)]]
<1>1. \A x \in X : R(x) \in X
  BY CombineRoundTyped
<1>2. x0 \in X
  OBVIOUS
<1> HIDE DEF X, R
<1>3. H \in [Nat -> [X -> X]]
  BY <1>1
<1>4. \A n \in Nat : \A x \in X : H[n][x] = R(x)
  OBVIOUS
<1> HIDE DEF H
<1>5. PICK f \in [Nat -> X] : Recursive(f, x0, H)
  BY <1>2, <1>3, RecursionExists
<1>6. \A n \in Nat : n # 0 => H[n][f[n - 1]] = R(f[n - 1])
  <2> TAKE n \in Nat
  <2> HAVE n # 0
  <2>1. n - 1 \in Nat
    OBVIOUS
  <2>2. f[n - 1] \in X
    BY <1>5, <2>1
  <2> QED BY <1>4, <2>2
<1>7. \A n \in Nat : f[n] = IF n = 0 THEN x0 ELSE R(f[n - 1])
  <2> TAKE n \in Nat
  <2>1. f[n] = IF n = 0 THEN x0 ELSE H[n][f[n - 1]]
    BY <1>5 DEF Recursive
  <2> QED BY <1>6, <2>1
<1>8. f = [n \in Nat |-> IF n = 0 THEN x0 ELSE R(f[n - 1])]
  BY <1>5, <1>7 DEF Recursive
<1>9. Combining(x0, f)
  BY <1>8 DEF Combining, R
<1>10. f \in [Nat -> SUBSET CombineStates(E)]
  BY <1>5 DEF X
<1> QED BY <1>9, <1>10

LEMMA CombinedTyped ==
    ASSUME NEW E, NEW first \in Seq(E), NEW second \in Seq(E)
    PROVE  CombinedEdits(first, second) \subseteq Seq(E)
<1> DEFINE x0 == {[made |-> <<>>, first |-> first, second |-> second]}
           after == CHOOSE f : Combining(x0, f)
           n == Len(first) + Len(second)
<1>1. x0 \in SUBSET CombineStates(E)
  BY DEF CombineStates
<1>2. CombinedEdits(first, second) = {s.made \o s.first \o s.second : s \in after[n]}
  BY DEF CombinedEdits, Combining
<1>3. n \in Nat
  OBVIOUS
<1> HIDE DEF x0, n
<1>4. Combining(x0, after)
  <2>1. \E f : Combining(x0, f)
    BY <1>1, CombiningExists
  <2> QED BY <2>1
<1>5. \A k \in Nat : after[k] = IF k = 0 THEN x0 ELSE UNION {CombineRound(s) : s \in after[k - 1]}
  <2> HIDE DEF after
  <2> QED BY <1>4 DEF Combining
<1> HIDE DEF after
<1> DEFINE Held == {k \in Nat : after[k] \subseteq CombineStates(E)}
<1>6. 0 \in Held
  BY <1>1, <1>5
<1>7. ASSUME NEW k \in Nat, k \in Held PROVE k + 1 \in Held
  <2>1. after[k + 1] = UNION {CombineRound(s) : s \in after[k]}
    <3>1. k + 1 \in Nat /\ k + 1 # 0 /\ (k + 1) - 1 = k
      OBVIOUS
    <3>2. after[k + 1] = UNION {CombineRound(s) : s \in after[(k + 1) - 1]}
      BY <1>5, <3>1
    <3> QED BY <3>1, <3>2
  <2>2. after[k] \subseteq CombineStates(E)
    BY <1>7
  <2>3. \A s \in after[k] : CombineRound(s) \subseteq CombineStates(E)
    BY <2>2, CombineRoundTyped
  <2> QED BY <2>1, <2>3
<1>8. \A k \in Nat : k \in Held
  <2> HIDE DEF Held
  <2> QED BY <1>6, <1>7, InductionOverNat
<1>9. after[n] \subseteq CombineStates(E)
  BY <1>3, <1>8
<1>10. \A s \in CombineStates(E) : s.made \o s.first \o s.second \in Seq(E)
  BY DEF CombineStates
<1> QED BY <1>2, <1>9, <1>10

-----------------------------------------------------------------------------
(* Combining: the lines a resolution stands for are lines. *)

LEMMA ApplyTyped ==
    ASSUME NEW S, NEW tokens \in Seq(S), NEW es \in Seq(EditsWithin(S, Len(tokens)))
    PROVE  Apply(tokens, es) \subseteq Seq(S)
<1> DEFINE l == Len(tokens)
           done(i) == IF i = 0 THEN 0 ELSE es[i].baseEnd
           p == [i \in 1..Len(es) |-> SubSeq(tokens, done(i - 1) + 1, es[i].baseStart) \o es[i].items]
           rest == SubSeq(tokens, done(Len(es)) + 1, l)
<1>1. l \in Nat /\ Len(es) \in Nat
  OBVIOUS
<1>2. \A i \in 1..Len(es) : es[i] \in EditsWithin(S, l)
  OBVIOUS
<1>3. \A e \in EditsWithin(S, l) : /\ e.baseStart \in Nat /\ e.baseStart <= l
                                   /\ e.baseEnd \in Nat /\ e.items \in Seq(S)
  BY DEF EditsWithin, EditsOf
<1> HIDE DEF l
<1>4. \A i \in 0..Len(es) : done(i) \in Nat
  BY <1>1, <1>2, <1>3
<1> HIDE DEF done
<1>5. ASSUME NEW m \in Nat, NEW k \in Nat, k <= l PROVE SubSeq(tokens, m + 1, k) \in Seq(S)
  BY <1>5, PartIs DEF l
<1>6. ASSUME NEW i \in 1..Len(es) PROVE p[i] \in Seq(S)
  <2>1. i - 1 \in 0..Len(es) /\ es[i].baseStart \in Nat /\ es[i].baseStart <= l /\ es[i].items \in Seq(S)
    BY <1>1, <1>2, <1>3
  <2>2. SubSeq(tokens, done(i - 1) + 1, es[i].baseStart) \in Seq(S)
    BY <1>4, <1>5, <2>1
  <2> QED BY <2>1, <2>2
<1>7. rest \in Seq(S)
  <2>1. Len(es) \in 0..Len(es) /\ l <= l
    BY <1>1
  <2>2. done(Len(es)) \in Nat
    BY <1>4, <2>1
  <2> QED BY <1>1, <1>5, <2>1, <2>2
<1>8. Apply(tokens, es) \subseteq {FlattenSeq(p) \o rest}
  BY DEF Apply, done, l
<1>9. p = [i \in 1..Len(es) |-> p[i]]
  OBVIOUS
<1> HIDE DEF p, rest
<1>10. FlattenSeq(p) \in Seq(S)
  BY <1>1, <1>6, <1>9, PiecesTyped
<1>11. FlattenSeq(p) \o rest \in Seq(S)
  BY <1>7, <1>10
<1> QED BY <1>8, <1>11

LEMMA ApplyBothTyped ==
    ASSUME NEW tokens \in TextLines, NEW first \in Seq(EditsWithin(Words, Len(tokens))),
           NEW second \in Seq(EditsWithin(Words, Len(tokens)))
    PROVE  ApplyBoth(tokens, first, second) \subseteq Seq(TextLines)
<1>1. \A es \in CombinedEdits(first, second) : Apply(tokens, es) \subseteq TextLines
  <2> TAKE es \in CombinedEdits(first, second)
  <2>1. es \in Seq(EditsWithin(Words, Len(tokens)))
    BY CombinedTyped
  <2> QED BY <2>1, ApplyTyped DEF TextLines
<1>2. \A t \in TextLines : LinesOf(t) \in Seq(TextLines)
  BY LinesOfTyped
<1> QED BY <1>1, <1>2 DEF ApplyBoth

LEMMA SmartTyped ==
    ASSUME NEW base \in Seq(TextLines), NEW first \in Seq(TextLines), NEW second \in Seq(TextLines)
    PROVE  SmartCombine(base, first, second) \subseteq Seq(TextLines)
<1> DEFINE b == Tokens(base)
           f == Tokens(first)
           s == Tokens(second)
<1>1. b \in TextLines /\ f \in TextLines /\ s \in TextLines
  BY TokensTyped
<1>2. SmartCombine(base, first, second) \subseteq ApplyBoth(b, SequenceEdits(b, f), SequenceEdits(b, s))
  BY DEF SmartCombine
<1> HIDE DEF b, f, s
<1>3. SequenceEdits(b, f) \in Seq(EditsWithin(Words, Len(b)))
  BY <1>1, ScriptWithin DEF TextLines
<1>4. SequenceEdits(b, s) \in Seq(EditsWithin(Words, Len(b)))
  BY <1>1, ScriptWithin DEF TextLines
<1> QED BY <1>1, <1>2, <1>3, <1>4, ApplyBothTyped

LEMMA AppendedTyped ==
    ASSUME NEW S, NEW first \in Seq(S), NEW second \in Seq(S)
    PROVE  Appended(first, second) \in Seq(S)
<1> DEFINE p == CommonPrefix(first, second)
           s == CommonSuffix(first, second, p)
           x == SubSeq(first, 1, Len(first) - s)
           y == SubSeq(second, p + 1, Len(second) - s)
           z == SubSeq(first, Len(first) - s + 1, Len(first))
<1>1. p \in Nat /\ p <= Len(first) /\ p <= Len(second) /\ Len(first) \in Nat /\ Len(second) \in Nat
  BY PrefixIs
<1>2. s \in Nat /\ p + s <= Len(first)
  <2> HIDE DEF p
  <2> QED BY <1>1, SuffixIs
<1>3. Appended(first, second) = x \o y \o z
  BY DEF Appended
<1> HIDE DEF p, s
<1>4. /\ Len(first) - s \in Nat /\ Len(first) - s <= Len(first)
      /\ Len(second) - s \in Int /\ Len(second) - s <= Len(second)
  BY <1>1, <1>2
<1>5. x \in Seq(S)
  <2>1. SubSeq(first, 0 + 1, Len(first) - s) \in Seq(S)
    BY <1>4, PartIs
  <2> QED BY <2>1
<1>6. y \in Seq(S)
  BY <1>1, <1>4, PartIs
<1>7. z \in Seq(S)
  BY <1>1, <1>4, PartIs
<1> HIDE DEF x, y, z
<1> QED BY <1>3, <1>5, <1>6, <1>7

LEMMA CombineTyped ==
    ASSUME NEW base \in Seq(TextLines), NEW first \in Seq(TextLines), NEW second \in Seq(TextLines)
    PROVE  CombineLines(first, second, base) \in Seq(TextLines)
<1>1. SmartCombine(base, first, second) \subseteq Seq(TextLines)
  BY SmartTyped
<1>2. Appended(first, second) \in Seq(TextLines)
  BY AppendedTyped
<1> QED BY <1>1, <1>2 DEF CombineLines, OneOf

SidesTyped(h) == h.base \in Seq(TextLines) /\ h.left \in Seq(TextLines) /\ h.right \in Seq(TextLines)

LEMMA ResolvedTyped ==
    ASSUME NEW h, SidesTyped(h), NEW r \in Resolutions
    PROVE  ResolvedLines(h, r) \in Seq(TextLines)
<1>1. CombineLines(h.left, h.right, h.base) \in Seq(TextLines)
  BY CombineTyped DEF SidesTyped
<1>2. CombineLines(h.right, h.left, h.base) \in Seq(TextLines)
  BY CombineTyped DEF SidesTyped
<1>3. h.base \in Seq(TextLines) /\ h.left \in Seq(TextLines) /\ h.right \in Seq(TextLines)
  BY DEF SidesTyped
<1> DEFINE x == CombineLines(h.left, h.right, h.base)
           y == CombineLines(h.right, h.left, h.base)
           T == Seq(TextLines)
<1>4. ResolvedLines(h, r) = CASE r = "left" -> h.left
                              [] r = "right" -> h.right
                              [] r = "both-left-first" -> x
                              [] r = "both-right-first" -> y
                              [] r \in {"base", "unhandled"} -> h.base
  BY DEF ResolvedLines
<1>5. x \in T /\ y \in T /\ h.base \in T /\ h.left \in T /\ h.right \in T
  BY <1>1, <1>2, <1>3
<1> HIDE DEF x, y, T
<1>6. ResolvedLines(h, r) \in T
  BY <1>4, <1>5 DEF Resolutions
<1> QED BY <1>6 DEF T

-----------------------------------------------------------------------------
(* The user: what a step leaves of the segments. *)

\* A segment with other lines, or another resolution, and the rest as before.
Follows(s, g) ==
    /\ g.type = s.type /\ g.base = s.base /\ g.left = s.left /\ g.right = s.right
    /\ s.type # "conflict" => g.origin = s.origin
    /\ g.lines \in Seq(TextLines)

Followed(segs, new) ==
    /\ TrueSegments(new) /\ DOMAIN new = DOMAIN segs
    /\ \A i \in DOMAIN segs : Follows(segs[i], new[i])

SegmentsHaveLines(segs) == TrueSegments(segs) /\ \A i \in DOMAIN segs : PartsTyped(TextLines, segs[i])

LEMMA FollowsItself == \A s : PartsTyped(TextLines, s) => Follows(s, s)
  BY DEF PartsTyped, Parts, Follows

LEMMA OneFollows ==
    ASSUME NEW segs, SegmentsHaveLines(segs), NEW i \in DOMAIN segs, NEW g, Follows(segs[i], g),
           NEW new, new = [segs EXCEPT ![i] = g], TrueSegments(new)
    PROVE  Followed(segs, new)
<1>1. \A j \in DOMAIN segs : Follows(segs[j], segs[j])
  BY FollowsItself DEF SegmentsHaveLines
<1>2. DOMAIN new = DOMAIN segs /\ \A j \in DOMAIN segs : new[j] = IF j = i THEN g ELSE segs[j]
  OBVIOUS
<1>3. \A j \in DOMAIN segs : Follows(segs[j], new[j])
  BY <1>1, <1>2
<1> QED BY <1>2, <1>3 DEF Followed

LEMMA WithResolutionFollows ==
    ASSUME NEW h, HunkShape(h), NEW r, NEW lines \in Seq(TextLines)
    PROVE  Follows(h, WithResolution(h, r, lines))
<1> DEFINE d == r # "unhandled"
           g == WithResolution(h, r, lines)
<1> HIDE DEF d
<1>1. g = [h EXCEPT !.resolution = r, !.leftHandled = d, !.rightHandled = d,
                    !.handled = d, !.lines = lines]
  BY DEF WithResolution, d
<1> HIDE DEF g
<1>2. /\ g.type = "conflict" /\ h.type = "conflict" /\ g.lines = lines
      /\ g.base = h.base /\ g.left = h.left /\ g.right = h.right
  <2>1. HunkShape(h)
    OBVIOUS
  <2> QED BY <1>1, <2>1 DEF HunkShape, HunkFields
<1>3. Follows(h, g)
  BY <1>2 DEF Follows
<1> QED BY <1>3 DEF g

\* A conflict of the document.
LEMMA ConflictAt ==
    ASSUME DocumentInv, SegmentsHaveLines(segments), NEW i \in Conflicts
    PROVE  /\ i \in DOMAIN segments /\ HunkIsTrue(segments[i]) /\ HunkShape(segments[i])
           /\ PartsTyped(TextLines, segments[i]) /\ SidesTyped(segments[i])
<1>1. i \in DOMAIN segments /\ HunkIsTrue(segments[i])
  BY DEF Conflicts, DocumentInv, TrueSegments, SegmentIsTrue, CleanShape
<1>2. HunkShape(segments[i])
  BY <1>1 DEF HunkIsTrue
<1>3. PartsTyped(TextLines, segments[i])
  BY <1>1 DEF SegmentsHaveLines
<1>4. SidesTyped(segments[i])
  BY <1>3 DEF PartsTyped, Parts, SidesTyped
<1> QED BY <1>1, <1>2, <1>3, <1>4

LEMMA ResolveFollows ==
    ASSUME DocumentInv, SegmentsHaveLines(segments), NEW i \in Conflicts, NEW r \in Resolutions, Resolve(i, r)
    PROVE  Followed(segments, segments')
<1> DEFINE g == WithResolution(segments[i], r, ResolvedLines(segments[i], r))
<1>1. segments' = [segments EXCEPT ![i] = g]
  BY DEF Resolve, Step
<1>2. TrueSegments(segments')
  BY ResolveStep
<1>3. i \in DOMAIN segments /\ HunkShape(segments[i]) /\ SidesTyped(segments[i])
  BY ConflictAt
<1>4. ResolvedLines(segments[i], r) \in Seq(TextLines)
  BY <1>3, ResolvedTyped
<1>5. Follows(segments[i], g)
  BY <1>3, <1>4, WithResolutionFollows
<1> HIDE DEF g
<1> QED BY <1>1, <1>2, <1>3, <1>5, OneFollows

LEMMA CustomFollows ==
    ASSUME DocumentInv, SegmentsHaveLines(segments), NEW i \in Conflicts, NEW lines \in Seq(TextLines),
           CustomInput(i, lines)
    PROVE  Followed(segments, segments')
<1> DEFINE h == segments[i]
           r == InferredResolution(h, lines)
           g == CustomHunk(h, r, lines)
<1>1. segments' = [segments EXCEPT ![i] = g]
  BY DEF CustomInput, Step
<1>2. TrueSegments(segments')
  BY CustomStep
<1>3. i \in DOMAIN segments /\ HunkShape(h) /\ SidesTyped(h)
  BY ConflictAt
<1>4. r \in Resolutions \cup {"custom"}
  BY InferredIsTrue
<1> HIDE DEF r, h
<1>5. Follows(h, g)
  <2>1. (IF r = "custom" THEN lines ELSE ResolvedLines(h, r)) \in Seq(TextLines)
    BY <1>3, <1>4, ResolvedTyped
  <2> QED BY <1>3, <2>1, WithResolutionFollows DEF CustomHunk
<1> HIDE DEF g
<1> QED BY <1>1, <1>2, <1>3, <1>5, OneFollows DEF h

LEMMA IgnoreFollows ==
    ASSUME DocumentInv, SegmentsHaveLines(segments), NEW i \in Conflicts, NEW side \in {"left", "right"},
           IgnoreSide(i, side)
    PROVE  Followed(segments, segments')
<1> DEFINE h == segments[i]
           l == h.leftHandled \/ side = "left"
           rh == h.rightHandled \/ side = "right"
           d == l /\ rh
           r == WithoutSide(h, side, d)
           lines == IF r = "custom" THEN h.lines ELSE ResolvedLines(h, r)
           g == [h EXCEPT !.resolution = r, !.leftHandled = l, !.rightHandled = rh,
                          !.handled = d, !.lines = lines]
<1>1. segments' = [segments EXCEPT ![i] = g]
  BY DEF IgnoreSide, Step
<1>2. TrueSegments(segments')
  BY IgnoreStep
<1>3. i \in DOMAIN segments /\ HunkShape(h) /\ PartsTyped(TextLines, h) /\ SidesTyped(h)
  BY ConflictAt
<1>4. r \in Resolutions \cup {"custom"}
  <2> HIDE DEF h, d
  <2> QED BY <1>3 DEF WithoutSide, HunkShape, Resolutions
<1> HIDE DEF l, rh, d, r, h
<1>5. lines \in Seq(TextLines)
  <2>1. h.lines \in Seq(TextLines)
    BY <1>3 DEF PartsTyped, Parts
  <2> QED BY <1>3, <1>4, <2>1, ResolvedTyped
<1> HIDE DEF lines
<1>6. Follows(h, g)
  <2>1. /\ g.type = "conflict" /\ h.type = "conflict" /\ g.lines = lines
        /\ g.base = h.base /\ g.left = h.left /\ g.right = h.right
    BY <1>3 DEF HunkShape, HunkFields
  <2> HIDE DEF g
  <2> QED BY <1>5, <2>1 DEF Follows
<1> HIDE DEF g
<1> QED BY <1>1, <1>2, <1>3, <1>6, OneFollows DEF h

LEMMA HandledFollows ==
    ASSUME DocumentInv, SegmentsHaveLines(segments), NEW i \in Conflicts, ToggleHandled(i)
    PROVE  Followed(segments, segments')
<1> DEFINE h == segments[i]
           d == ~h.handled
           r == CASE h.resolution = "unhandled" /\ d -> "base"
                  [] h.resolution = "base" /\ ~d -> "unhandled"
                  [] OTHER -> h.resolution
           g == [h EXCEPT !.resolution = r, !.leftHandled = d, !.rightHandled = d, !.handled = d]
<1>1. segments' = [segments EXCEPT ![i] = g]
  BY DEF ToggleHandled, Step
<1>2. TrueSegments(segments')
  BY HandledStep
<1>3. i \in DOMAIN segments /\ HunkShape(h) /\ PartsTyped(TextLines, h)
  BY ConflictAt
<1> HIDE DEF d, r, h
<1>4. Follows(h, g)
  <2>1. /\ g.type = "conflict" /\ h.type = "conflict" /\ g.lines = h.lines
        /\ g.base = h.base /\ g.left = h.left /\ g.right = h.right
    BY <1>3 DEF HunkShape, HunkFields
  <2>2. h.lines \in Seq(TextLines)
    BY <1>3 DEF PartsTyped, Parts
  <2> HIDE DEF g
  <2> QED BY <2>1, <2>2 DEF Follows
<1> HIDE DEF g
<1> QED BY <1>1, <1>2, <1>3, <1>4, OneFollows DEF h

LEMMA AcceptedFollows ==
    ASSUME DocumentInv, SegmentsHaveLines(segments), NEW i \in DOMAIN segments, ToggleAccepted(i)
    PROVE  Followed(segments, segments')
<1> DEFINE s == segments[i]
           accepted == ~s.accepted
           lines == CASE ~accepted -> s.base
                      [] accepted /\ s.origin = "right" -> s.right
                      [] OTHER -> s.left
           g == [s EXCEPT !.accepted = accepted, !.lines = lines]
<1>1. segments' = [segments EXCEPT ![i] = g]
  BY DEF ToggleAccepted, Step
<1>2. TrueSegments(segments')
  BY AcceptedStep
<1>3. CleanShape(s)
  BY DEF ToggleAccepted, DocumentInv, TrueSegments, SegmentIsTrue, HunkIsTrue, HunkShape
<1>4. s.base \in Seq(TextLines) /\ s.left \in Seq(TextLines) /\ s.right \in Seq(TextLines)
  BY DEF SegmentsHaveLines, PartsTyped, Parts
<1> HIDE DEF s, accepted
<1>5. lines \in Seq(TextLines)
  <2> DEFINE T == Seq(TextLines)
  <2>1. s.base \in T /\ s.left \in T /\ s.right \in T
    BY <1>4
  <2> HIDE DEF T
  <2>2. lines \in T
    BY <2>1
  <2> QED BY <2>2 DEF T
<1> HIDE DEF lines
<1>6. Follows(s, g)
  <2>1. /\ g.type = s.type /\ g.lines = lines /\ g.origin = s.origin
        /\ g.base = s.base /\ g.left = s.left /\ g.right = s.right
    BY <1>3 DEF CleanShape, CleanFields
  <2> HIDE DEF g
  <2> QED BY <1>5, <2>1 DEF Follows
<1> HIDE DEF g
<1> QED BY <1>1, <1>2, <1>6, OneFollows DEF s

-----------------------------------------------------------------------------
(* The user: where a segment begins in a text that was typed. *)

LEMMA RenderedTyped ==
    ASSUME SegmentsHaveLines(segments), NEW l \in Nat, DOMAIN segments = 1..l
    PROVE  /\ RenderedLines \in Seq(TextLines)
           /\ \A i \in 1..l : LinesBefore(i) \in Nat
<1>1. \A i \in 1..l : segments[i].lines \in Seq(TextLines)
  BY DEF SegmentsHaveLines, PartsTyped, Parts
<1>2. ASSUME NEW n \in Nat, n <= l
      PROVE  FlattenSeq([j \in 1..n |-> segments[j].lines]) \in Seq(TextLines)
  <2> DEFINE p == [j \in 1..n |-> segments[j].lines]
  <2>1. \A j \in 1..n : j \in 1..l
    BY <1>2
  <2>2. \A j \in 1..n : p[j] \in Seq(TextLines)
    BY <1>1, <2>1
  <2>3. p = [j \in 1..n |-> p[j]]
    OBVIOUS
  <2> HIDE DEF p
  <2>4. FlattenSeq(p) \in Seq(TextLines)
    BY <1>2, <2>2, <2>3, PiecesTyped
  <2> QED BY <2>4 DEF p
<1>3. RenderedLines \in Seq(TextLines)
  BY <1>2 DEF RenderedLines, LinesIn
<1>4. ASSUME NEW i \in 1..l PROVE LinesBefore(i) \in Nat
  <2>1. i - 1 \in Nat /\ i - 1 <= l
    OBVIOUS
  <2>2. FlattenSeq([j \in 1..(i - 1) |-> segments[j].lines]) \in Seq(TextLines)
    BY <1>2, <2>1
  <2> QED BY <2>2 DEF LinesBefore
<1> QED BY <1>3, <1>4

\* Numbers of lines of the text so far and of the new one.
Numbers(matches, count) ==
    /\ count \in Nat
    /\ \A m \in matches : m[1] \in Nat /\ m[2] \in Nat /\ 1 <= m[2] /\ m[2] <= count

LEMMA BoundaryBetween ==
    ASSUME NEW matches, NEW count, Numbers(matches, count), NEW i, LinesBefore(i) \in Nat,
           NEW begun \in Nat, begun <= count, NEW x, x = NewBoundary(matches, i, begun, count)
    PROVE  x \in Nat /\ begun <= x /\ x <= count
<1> DEFINE old    == LinesBefore(i)
           exact  == {m \in matches : m[1] = old + 1}
           before == {m \in matches : m[1] <= old}
           last   == CHOOSE m \in before : \A n \in before : n[1] <= m[1]
           one    == CHOOSE m \in exact : TRUE
<1>1. x = CASE exact # {} -> Greater(begun, one[2] - 1)
            [] exact = {} /\ before # {} -> Lesser(count, Greater(begun, last[2] + old - last[1]))
            [] OTHER -> Lesser(count, Greater(begun, old))
  BY DEF NewBoundary
<1>2. count \in Nat /\ old \in Nat
  BY DEF Numbers
<1>3. \A y \in Int : LET z == Lesser(count, Greater(begun, y)) IN z \in Nat /\ begun <= z /\ z <= count
  BY <1>2 DEF Lesser, Greater
<1>4. CASE exact # {}
  <2>1. one \in exact
    BY <1>4
  <2>2. one[2] \in Nat /\ 1 <= one[2] /\ one[2] <= count
    BY <2>1 DEF Numbers
  <2>3. x = Greater(begun, one[2] - 1)
    BY <1>1, <1>4
  <2> HIDE DEF one
  <2> QED BY <1>2, <2>2, <2>3 DEF Greater
<1>5. CASE exact = {} /\ before # {}
  <2> DEFINE T == {m[1] : m \in before}
  <2>1. T \in SUBSET Int /\ T # {} /\ \A k \in T : 0 <= k /\ k <= old
    BY <1>2, <1>5 DEF Numbers
  <2>2. PICK k \in T : \A j \in T : j <= k
    <3> HIDE DEF T
    <3>1. 0 \in Int /\ old \in Int
      BY <1>2
    <3> HIDE DEF old
    <3> QED BY <2>1, <3>1, GreatestOf
  <2>3. last \in before
    BY <2>2
  <2>4. last[1] \in Nat /\ last[2] \in Nat
    BY <2>3 DEF Numbers
  <2>5. x = Lesser(count, Greater(begun, last[2] + old - last[1]))
    BY <1>1, <1>5
  <2> HIDE DEF last, old
  <2>6. last[2] + old - last[1] \in Int
    BY <1>2, <2>4
  <2> QED BY <1>3, <2>5, <2>6
<1>6. CASE exact = {} /\ before = {}
  <2>1. x = Lesser(count, Greater(begun, old))
    BY <1>1, <1>6
  <2> HIDE DEF old
  <2> QED BY <1>2, <1>3, <2>1
<1> QED BY <1>4, <1>5, <1>6

\* The begins of the segments: each behind the one before, the first at the first
\* line, and the end of the last at the end.
Bounding(matches, l, count, f) ==
    f = [i \in Nat |-> CASE i <= 1 -> 0
                         [] i > l -> count
                         [] OTHER -> NewBoundary(matches, i, f[i - 1], count)]

LEMMA BoundingExists ==
    ASSUME NEW matches, NEW count, Numbers(matches, count), NEW l \in Nat, l # 0,
           \A i \in 1..l : LinesBefore(i) \in Nat
    PROVE  \E f \in [Nat -> 0..count] : Bounding(matches, l, count, f)
<1> DEFINE X == 0..count
           B(i, x) == CASE i <= 1 -> 0
                        [] i > l -> count
                        [] OTHER -> NewBoundary(matches, i, x, count)
           H == [i \in Nat |-> [x \in X |-> B(i, x)]]
<1>0. count \in Nat
  BY DEF Numbers
<1>1. ASSUME NEW i \in Nat, NEW x \in X PROVE B(i, x) \in X
  <2>1. CASE i <= 1
    BY <1>0, <2>1
  <2>2. CASE i > l
    BY <1>0, <2>2
  <2>3. CASE ~(i <= 1) /\ ~(i > l)
    <3>1. i \in 1..l /\ x \in Nat /\ x <= count
      BY <1>0, <2>3
    <3>2. B(i, x) = NewBoundary(matches, i, x, count)
      BY <2>3
    <3> HIDE DEF B
    <3>3. B(i, x) \in Nat /\ B(i, x) <= count
      BY <3>1, <3>2, BoundaryBetween
    <3> QED BY <1>0, <3>3
  <2> QED BY <2>1, <2>2, <2>3
<1>2. 0 \in X
  BY <1>0
<1>3. \A x : B(0, x) = 0
  OBVIOUS
<1> HIDE DEF X, B
<1>4. H \in [Nat -> [X -> X]]
  BY <1>1
<1>5. \A i \in Nat : \A x \in X : H[i][x] = B(i, x)
  OBVIOUS
<1> HIDE DEF H
<1>6. PICK f \in [Nat -> X] : Recursive(f, 0, H)
  BY <1>2, <1>4, RecursionExists
<1>7. \A i \in Nat : i # 0 => H[i][f[i - 1]] = B(i, f[i - 1])
  <2> TAKE i \in Nat
  <2> HAVE i # 0
  <2>1. i - 1 \in Nat
    OBVIOUS
  <2>2. f[i - 1] \in X
    BY <1>6, <2>1
  <2> QED BY <1>5, <2>2
<1>8. \A i \in Nat : f[i] = B(i, f[i - 1])
  <2> TAKE i \in Nat
  <2>1. f[i] = IF i = 0 THEN 0 ELSE H[i][f[i - 1]]
    BY <1>6 DEF Recursive
  <2> QED BY <1>3, <1>7, <2>1
<1>9. f = [i \in Nat |-> B(i, f[i - 1])]
  BY <1>6, <1>8
<1>10. Bounding(matches, l, count, f)
  BY <1>9 DEF Bounding, B
<1>11. f \in [Nat -> 0..count]
  BY <1>6 DEF X
<1> QED BY <1>10, <1>11

-----------------------------------------------------------------------------
(* The user: the segments of a typed text are all of it. *)

\* A text of count lines is cut into l parts at the numbers f.
Cuts(f, l, count) ==
    /\ f[1] = 0 /\ f[l + 1] = count
    /\ \A i \in 1..(l + 1) : f[i] \in Nat /\ f[i] <= count
    /\ \A i \in 1..l : f[i] <= f[i + 1]

LEMMA BoundsCut ==
    ASSUME NEW matches, NEW count, Numbers(matches, count), NEW l \in Nat, l # 0,
           \A i \in 1..l : LinesBefore(i) \in Nat, NEW f, Bounding(matches, l, count, f)
    PROVE  Cuts(f, l, count)
<1>0. count \in Nat
  BY DEF Numbers
<1>1. \A i \in Nat : f[i] = CASE i <= 1 -> 0
                              [] i > l -> count
                              [] OTHER -> NewBoundary(matches, i, f[i - 1], count)
  BY DEF Bounding
<1>2. \A i \in Nat : i <= 1 => f[i] = 0
  BY <1>1
<1>3. f[l + 1] = count
  <2>1. l + 1 \in Nat /\ ~(l + 1 <= 1) /\ l + 1 > l
    OBVIOUS
  <2> QED BY <1>1, <2>1
<1>4. ASSUME NEW n \in Nat, n # 0, n + 1 <= l, f[n] \in Nat, f[n] <= count
      PROVE  f[n + 1] \in Nat /\ f[n] <= f[n + 1] /\ f[n + 1] <= count
  <2>1. n + 1 \in Nat /\ ~(n + 1 <= 1) /\ ~(n + 1 > l) /\ (n + 1) - 1 = n /\ n + 1 \in 1..l
    BY <1>4
  <2>2. f[n + 1] = NewBoundary(matches, n + 1, f[(n + 1) - 1], count)
    BY <1>1, <2>1
  <2>3. f[n + 1] = NewBoundary(matches, n + 1, f[n], count)
    BY <2>1, <2>2
  <2>4. LinesBefore(n + 1) \in Nat
    BY <2>1
  <2> QED BY <1>4, <2>3, <2>4, BoundaryBetween
<1> DEFINE Held == {n \in Nat : n <= l => f[n] \in Nat /\ f[n] <= count}
<1>5. 0 \in Held
  BY <1>0, <1>2
<1>6. ASSUME NEW n \in Nat, n \in Held PROVE n + 1 \in Held
  <2>1. CASE n = 0
    BY <1>0, <1>2, <2>1
  <2>2. CASE n # 0
    BY <1>4, <1>6, <2>2
  <2> QED BY <2>1, <2>2
<1>7. \A n \in Nat : n \in Held
  <2> HIDE DEF Held
  <2> QED BY <1>5, <1>6, InductionOverNat
<1>8. \A i \in 1..l : f[i] \in Nat /\ f[i] <= count
  BY <1>7
<1>9. \A i \in 1..(l + 1) : f[i] \in Nat /\ f[i] <= count
  <2>1. \A i \in 1..(l + 1) : i \in 1..l \/ i = l + 1
    OBVIOUS
  <2> QED BY <1>0, <1>3, <1>8, <2>1
<1>10. ASSUME NEW i \in 1..l PROVE f[i] <= f[i + 1]
  <2>1. CASE i = l
    BY <1>3, <1>8, <2>1
  <2>2. CASE i # l
    <3>1. i \in Nat /\ i # 0 /\ i + 1 <= l
      BY <2>2
    <3> QED BY <1>4, <1>8, <3>1
  <2> QED BY <2>1, <2>2
<1>11. f[1] = 0
  BY <1>2
<1> QED BY <1>3, <1>9, <1>10, <1>11 DEF Cuts

\* The parts are all of the text.
LEMMA CutsJoin ==
    ASSUME NEW S, NEW lines \in Seq(S), NEW l \in Nat, NEW f, Cuts(f, l, Len(lines))
    PROVE  /\ \A i \in 1..l : Slice(lines, f[i], f[i + 1]) \in Seq(S)
           /\ FlattenSeq([i \in 1..l |-> Slice(lines, f[i], f[i + 1])]) = lines
<1> DEFINE pieces == [i \in 1..l |-> Slice(lines, f[i], f[i + 1])]
           Joined(n) == FlattenSeq([i \in 1..n |-> pieces[i]])
           Held == {n \in Nat : n <= l => Joined(n) = SubSeq(lines, 1, f[n + 1])}
<1>0. Len(lines) \in Nat
  OBVIOUS
<1>1. \A i \in 1..(l + 1) : f[i] \in Nat /\ f[i] <= Len(lines)
  BY DEF Cuts
<1>2. \A i \in 1..l : i \in 1..(l + 1) /\ i + 1 \in 1..(l + 1)
  OBVIOUS
<1>3. \A i \in 1..l : Slice(lines, f[i], f[i + 1]) \in Seq(S)
  BY <1>1, <1>2, SliceTyped
<1>4. \A i \in 1..l : pieces[i] = SubSeq(lines, f[i] + 1, f[i + 1]) /\ pieces[i] \in Seq(S)
  BY <1>3 DEF Slice
<1>5. pieces = [i \in 1..l |-> pieces[i]]
  OBVIOUS
<1> HIDE DEF pieces
<1>6. 0 \in Held
  <2>1. Joined(0) = <<>>
    BY FlattenNone
  <2>2. f[0 + 1] = 0
    BY DEF Cuts
  <2>3. SubSeq(lines, 1, 0) = <<>>
    OBVIOUS
  <2> HIDE DEF Joined
  <2> QED BY <2>1, <2>2, <2>3
<1>7. ASSUME NEW n \in Nat, n \in Held PROVE n + 1 \in Held
  <2> SUFFICES ASSUME n + 1 <= l PROVE Joined(n + 1) = SubSeq(lines, 1, f[(n + 1) + 1])
    OBVIOUS
  <2>1. Joined(n) = SubSeq(lines, 1, f[n + 1])
    BY <1>7
  <2>2. \A i \in 1..(n + 1) : pieces[i] \in Seq(S)
    <3>1. \A i \in 1..(n + 1) : i \in 1..l
      OBVIOUS
    <3> QED BY <1>4, <3>1
  <2>3. Joined(n + 1) = Joined(n) \o pieces[n + 1]
    BY <2>2, FlattenGrows
  <2> HIDE DEF Joined
  <2>4. n + 1 \in 1..l
    OBVIOUS
  <2>5. pieces[n + 1] = SubSeq(lines, f[n + 1] + 1, f[(n + 1) + 1])
    BY <1>4, <2>4
  <2> DEFINE y == f[n + 1]
             w == f[(n + 1) + 1]
  <2>6. y \in Nat /\ w \in Nat /\ w <= Len(lines)
    BY <1>1, <1>2, <2>4
  <2>7. y <= w
    BY <2>4 DEF Cuts
  <2> HIDE DEF y, w
  <2>8. SubSeq(lines, 1, y) \o SubSeq(lines, y + 1, w) = SubSeq(lines, 1, w)
    BY <2>6, <2>7, SlicesJoin
  <2> QED BY <2>1, <2>3, <2>5, <2>8 DEF y, w
<1>8. \A n \in Nat : n \in Held
  <2> HIDE DEF Held
  <2> QED BY <1>6, <1>7, InductionOverNat
<1>9. Joined(l) = SubSeq(lines, 1, f[l + 1])
  BY <1>8
<1>10. f[l + 1] = Len(lines)
  BY DEF Cuts
<1>11. SubSeq(lines, 1, Len(lines)) = lines
  OBVIOUS
<1>12. FlattenSeq(pieces) = lines
  BY <1>5, <1>9, <1>10, <1>11
<1> QED BY <1>3, <1>12 DEF pieces

-----------------------------------------------------------------------------
(* The user: the typed text becomes the document. *)

LEMMA BoundariesCut ==
    ASSUME SegmentsHaveLines(segments), NEW l \in Nat, l # 0, DOMAIN segments = 1..l, Len(segments) = l,
           NEW lines \in Seq(TextLines)
    PROVE  Cuts(NewBoundaries(lines), l, Len(lines))
<1> DEFINE matches == MatchedPairs(RenderedLines, lines)
           count == Len(lines)
           f == CHOOSE g : Bounding(matches, l, count, g)
<1>1. RenderedLines \in Seq(TextLines) /\ \A i \in 1..l : LinesBefore(i) \in Nat
  BY RenderedTyped
<1>2. Common(RenderedLines, lines, matches)
  BY <1>1, MatchesAre
<1>3. NewBoundaries(lines) = f
  BY DEF NewBoundaries, Bounding
<1> HIDE DEF matches
<1>4. Numbers(matches, count)
  <2>1. count \in Nat
    OBVIOUS
  <2>2. \A m \in matches : m[1] \in 1..Len(RenderedLines) /\ m[2] \in 1..count
    BY <1>2 DEF Common
  <2>3. Len(RenderedLines) \in Nat
    BY <1>1
  <2> QED BY <2>1, <2>2, <2>3 DEF Numbers
<1> HIDE DEF count
<1>5. Bounding(matches, l, count, f)
  <2>1. \E g : Bounding(matches, l, count, g)
    BY <1>1, <1>4, BoundingExists
  <2> QED BY <2>1
<1> HIDE DEF f
<1>6. Cuts(f, l, count)
  BY <1>1, <1>4, <1>5, BoundsCut
<1> QED BY <1>3, <1>6 DEF count

LEMMA SyncedFollows ==
    ASSUME NEW s, SegmentIsTrue(s), PartsTyped(TextLines, s), NEW lines \in Seq(TextLines)
    PROVE  Follows(s, Synced(s, lines)) /\ Synced(s, lines).lines = lines
<1>1. CASE s.lines = lines
  BY <1>1, FollowsItself DEF Synced
<1>2. CASE s.lines # lines /\ CleanShape(s)
  <2> DEFINE ok == \/ s.origin = "unchanged"
                   \/ lines = IF s.origin = "right" THEN s.right ELSE s.left
             g == [s EXCEPT !.lines = lines, !.accepted = ok]
  <2> HIDE DEF ok
  <2>1. Synced(s, lines) = g
    BY <1>2 DEF Synced, CleanShape, ok
  <2>2. /\ g.type = s.type /\ g.lines = lines /\ g.origin = s.origin
        /\ g.base = s.base /\ g.left = s.left /\ g.right = s.right
    BY <1>2 DEF CleanShape, CleanFields
  <2> HIDE DEF g
  <2>3. Follows(s, g)
    BY <2>2 DEF Follows
  <2> QED BY <2>1, <2>2, <2>3
<1>3. CASE s.lines # lines /\ HunkIsTrue(s)
  <2> DEFINE r == InferredResolution(s, lines)
             g == WithResolution(s, r, lines)
  <2>1. HunkShape(s)
    BY <1>3 DEF HunkIsTrue
  <2>2. Synced(s, lines) = g
    BY <1>3 DEF Synced, HunkIsTrue, HunkShape
  <2> HIDE DEF r
  <2>3. Follows(s, g)
    BY <2>1, WithResolutionFollows
  <2>4. g.lines = lines
    BY <2>1 DEF WithResolution, HunkShape, HunkFields
  <2> HIDE DEF g
  <2> QED BY <2>2, <2>3, <2>4
<1> QED BY <1>1, <1>2, <1>3 DEF SegmentIsTrue

\* A document of some segments.
Document(l) ==
    /\ DocumentInv /\ SegmentsHaveLines(segments)
    /\ l \in Nat /\ l # 0 /\ DOMAIN segments = 1..l /\ Len(segments) = l

\* What the user's typing makes of the document.
LEMMA SyncFollows ==
    ASSUME NEW l, Document(l), NEW t, t.lines \in Seq(TextLines), Sync(t), TrueSegments(segments')
    PROVE  Followed(segments, segments') /\ LinesIn(segments') = t.lines
<1>0. /\ DocumentInv /\ SegmentsHaveLines(segments)
      /\ l \in Nat /\ l # 0 /\ DOMAIN segments = 1..l /\ Len(segments) = l
  BY DEF Document
<1>1. CASE t.lines = RenderedLines
  <2>1. segments' = segments
    BY <1>1 DEF Sync
  <2>2. \A i \in DOMAIN segments : Follows(segments[i], segments[i])
    BY <1>0, FollowsItself DEF SegmentsHaveLines
  <2> QED BY <1>1, <2>1, <2>2 DEF Followed, RenderedLines
<1>2. CASE t.lines # RenderedLines
  <2> DEFINE bounds == NewBoundaries(t.lines)
             To(i) == Slice(t.lines, bounds[i], bounds[i + 1])
  <2>1. segments' = [i \in DOMAIN segments |-> Synced(segments[i], To(i))]
    BY <1>2 DEF Sync
  <2>2. Cuts(bounds, l, Len(t.lines))
    BY <1>0, BoundariesCut
  <2> HIDE DEF bounds
  <2>3. /\ \A i \in 1..l : To(i) \in Seq(TextLines)
        /\ FlattenSeq([i \in 1..l |-> To(i)]) = t.lines
    BY <1>0, <2>2, CutsJoin
  <2> HIDE DEF To
  <2>4. \A i \in 1..l : SegmentIsTrue(segments[i]) /\ PartsTyped(TextLines, segments[i])
    BY <1>0 DEF SegmentsHaveLines, TrueSegments
  <2>5. \A i \in 1..l : Follows(segments[i], segments'[i]) /\ segments'[i].lines = To(i)
    BY <1>0, <2>1, <2>3, <2>4, SyncedFollows
  <2>6. DOMAIN segments' = 1..l
    BY <1>0, <2>1
  <2>7. [i \in DOMAIN segments' |-> segments'[i].lines] = [i \in 1..l |-> To(i)]
    BY <2>5, <2>6
  <2> QED BY <1>0, <2>3, <2>5, <2>6, <2>7 DEF Followed, LinesIn
<1> QED BY <1>1, <1>2

LEMMA AllFollows ==
    ASSUME NEW l, Document(l), NEW side \in {"left", "right"}, ResolveAll(side)
    PROVE  Followed(segments, segments')
<1>0. DocumentInv /\ SegmentsHaveLines(segments)
  BY DEF Document
<1>1. segments' = [i \in DOMAIN segments |->
                      IF i \in Conflicts THEN WithResolution(segments[i], side, segments[i][side])
                      ELSE segments[i]]
  BY DEF ResolveAll, Step
<1>2. TrueSegments(segments')
  BY <1>0, AllStep
<1>3. ASSUME NEW i \in DOMAIN segments PROVE Follows(segments[i], segments'[i])
  <2>1. CASE i \in Conflicts
    <3>1. HunkShape(segments[i]) /\ SidesTyped(segments[i])
      BY <1>0, <2>1, ConflictAt
    <3>2. segments[i][side] \in Seq(TextLines)
      BY <3>1 DEF SidesTyped
    <3>3. segments'[i] = WithResolution(segments[i], side, segments[i][side])
      BY <1>1, <2>1
    <3> QED BY <3>1, <3>2, <3>3, WithResolutionFollows
  <2>2. CASE i \notin Conflicts
    <3>1. segments'[i] = segments[i]
      BY <1>1, <2>2
    <3> QED BY <1>0, <3>1, FollowsItself DEF SegmentsHaveLines
  <2> QED BY <2>1, <2>2
<1>4. DOMAIN segments' = DOMAIN segments
  BY <1>1
<1> QED BY <1>2, <1>3, <1>4 DEF Followed

-----------------------------------------------------------------------------
(* The document of the editor: its theorems. *)

LEMMA DocumentIs == DocumentInv /\ DocumentTakes => Document(Len(segments))
<1> SUFFICES ASSUME DocumentInv, DocumentTakes PROVE Document(Len(segments))
  OBVIOUS
<1>1. /\ Len(segments) \in Nat /\ Len(segments) # 0 /\ DOMAIN segments = 1..Len(segments)
      /\ \A i \in 1..Len(segments) : PartsTyped(TextLines, segments[i])
  BY DEF DocumentTakes
<1>2. SegmentsHaveLines(segments)
  BY <1>1 DEF SegmentsHaveLines, DocumentInv
<1> QED BY <1>1, <1>2 DEF Document

\* What takes all the lines of the texts still does when it has followed.
LEMMA StillTakes ==
    ASSUME DocumentTakes, Followed(segments, segments'), texts' = texts
    PROVE  DocumentTakes'
<1> DEFINE l == Len(segments)
           new == segments'
<1>1. /\ l \in Nat /\ l # 0 /\ DOMAIN segments = 1..l
      /\ \A i \in 1..l : PartsTyped(TextLines, segments[i]) /\ SegmentTakes(segments[i])
      /\ \A side \in TextSides : PartOf(segments, side) = texts[side].lines
  BY DEF DocumentTakes
<1>2. DOMAIN new = 1..l /\ TrueSegments(new) /\ \A i \in 1..l : Follows(segments[i], new[i])
  BY <1>1 DEF Followed
<1> HIDE DEF l, new
<1>3. Len(new) = l
  <2>1. PICK n \in Nat : DOMAIN new = 1..n /\ new = [i \in 1..n |-> new[i]]
    BY <1>2 DEF TrueSegments
  <2>2. new \in Seq({new[i] : i \in 1..n})
    BY <2>1
  <2>3. Len(new) \in Nat /\ DOMAIN new = 1..Len(new)
    BY <2>2
  <2>4. \A m \in Nat : \A k \in Nat : 1..m = 1..k => m = k
    <3> SUFFICES ASSUME NEW m \in Nat, NEW k \in Nat, 1..m = 1..k PROVE m = k
      OBVIOUS
    <3>1. m # 0 => m \in 1..k
      <4>1. m # 0 => m \in 1..m
        OBVIOUS
      <4> QED BY <4>1
    <3>2. k # 0 => k \in 1..m
      <4>1. k # 0 => k \in 1..k
        OBVIOUS
      <4> QED BY <4>1
    <3>3. (m # 0 => m <= k) /\ (k # 0 => k <= m)
      BY <3>1, <3>2
    <3> QED BY <3>3
  <2> QED BY <1>1, <1>2, <2>3, <2>4
<1>4. ASSUME NEW i \in 1..l PROVE PartsTyped(TextLines, new[i]) /\ SegmentTakes(new[i])
  <2> DEFINE s == segments[i]
             g == new[i]
  <2>1. Follows(s, g) /\ PartsTyped(TextLines, s) /\ SegmentTakes(s)
    BY <1>1, <1>2
  <2> HIDE DEF s, g
  <2>2. PartsTyped(TextLines, g)
    BY <2>1 DEF Follows, PartsTyped, Parts
  <2>3. SegmentTakes(g)
    BY <2>1 DEF Follows, SegmentTakes
  <2> QED BY <2>2, <2>3 DEF g
<1>5. ASSUME NEW side \in TextSides PROVE PartOf(new, side) = PartOf(segments, side)
  <2>1. \A i \in 1..l : new[i][side] = segments[i][side]
    BY <1>2 DEF Follows, TextSides
  <2>2. [i \in 1..l |-> new[i][side]] = [i \in 1..l |-> segments[i][side]]
    BY <2>1
  <2> QED BY <1>3, <2>2 DEF PartOf, l
<1>6. \A side \in TextSides : PartOf(new, side) = texts'[side].lines
  BY <1>1, <1>5
<1> QED BY <1>1, <1>2, <1>3, <1>4, <1>6 DEF DocumentTakes, new

\* What stays true of the document: what it is made of, and that the text is the same.
EditorInv ==
    /\ DocumentInv /\ TextsKept /\ DocumentTakes /\ (edits = 0 => FreshlyMade) /\ TextIsDocument

\* A step follows, and the text with it.
Going ==
    /\ Followed(segments, segments') /\ texts' = texts /\ edits' = edits + 1
    /\ raw'.lines = LinesIn(segments')

LEMMA StepGoes ==
    ASSUME MergeAssumption, DocumentInv, Document(Len(segments)), EditorNext, DocumentInv'
    PROVE  Going
<1>1. SegmentsHaveLines(segments) /\ TrueSegments(segments')
  BY DEF Document, DocumentInv
<1>2. ASSUME NEW new, Step(new), Followed(segments, segments') PROVE Going
  BY <1>2 DEF Step, Going
<1>3. ASSUME NEW i \in Conflicts, NEW r \in Resolutions, Resolve(i, r) PROVE Going
  BY <1>1, <1>2, <1>3, ResolveFollows DEF Resolve
<1>4. ASSUME NEW i \in Conflicts, NEW t \in Inputs, CustomInput(i, t.lines) PROVE Going
  <2>1. t.lines \in Seq(TextLines)
    BY TextsAreText
  <2> QED BY <1>1, <1>2, <1>4, <2>1, CustomFollows DEF CustomInput
<1>5. ASSUME NEW i \in Conflicts, NEW side \in {"left", "right"}, IgnoreSide(i, side) PROVE Going
  BY <1>1, <1>2, <1>5, IgnoreFollows, ZenonT(60) DEF IgnoreSide
<1>6. ASSUME NEW i \in Conflicts, ToggleHandled(i) PROVE Going
  BY <1>1, <1>2, <1>6, HandledFollows DEF ToggleHandled
<1>7. ASSUME NEW i \in DOMAIN segments, ToggleAccepted(i) PROVE Going
  BY <1>1, <1>2, <1>7, AcceptedFollows DEF ToggleAccepted
<1>8. ASSUME NEW side \in {"left", "right"}, ResolveAll(side) PROVE Going
  BY <1>2, <1>8, AllFollows DEF ResolveAll
<1>9. ASSUME NEW t \in Inputs, Sync(t) PROVE Going
  <2>1. t.lines \in Seq(TextLines)
    BY TextsAreText
  <2>2. Followed(segments, segments') /\ LinesIn(segments') = t.lines
    BY <1>1, <1>9, <2>1, SyncFollows
  <2>3. raw' = t /\ texts' = texts /\ edits' = edits + 1
    BY <1>9 DEF Sync
  <2> QED BY <2>2, <2>3 DEF Going
<1> QED BY <1>3, <1>4, <1>5, <1>6, <1>7, <1>8, <1>9 DEF EditorNext

LEMMA EditorStarts == MergeAssumption /\ EditorInit => EditorInv
<1> SUFFICES ASSUME MergeAssumption, EditorInit PROVE EditorInv
  OBVIOUS
<1>1. DocumentInv
  BY InitDocument
<1>2. TextsKept /\ DocumentTakes /\ FreshlyMade
  BY DocumentStarts
<1>3. TextIsDocument
  BY DEF EditorInit, TextIsDocument, RenderedLines
<1> QED BY <1>1, <1>2, <1>3 DEF EditorInv

LEMMA EditorKeeps == MergeAssumption /\ EditorInv /\ [EditorNext]_editorVars => EditorInv'
<1> SUFFICES ASSUME MergeAssumption, EditorInv, [EditorNext]_editorVars PROVE EditorInv'
  OBVIOUS
<1>1. DocumentInv /\ TextsKept /\ DocumentTakes /\ (edits = 0 => FreshlyMade) /\ TextIsDocument
  BY DEF EditorInv
<1>2. DocumentInv'
  BY <1>1, NextDocument
<1>3. CASE EditorNext
  <2>1. Document(Len(segments))
    BY <1>1, DocumentIs
  <2>2. Going
    BY <1>1, <1>2, <1>3, <2>1, StepGoes
  <2>3. DocumentTakes'
    BY <1>1, <2>2, StillTakes DEF Going
  <2>4. TextsKept'
    BY <1>1, <2>2 DEF Going, TextsKept
  <2>5. edits' # 0
    BY <1>1, <2>2 DEF Going, DocumentInv
  <2>6. TextIsDocument'
    BY <2>2 DEF Going, TextIsDocument, RenderedLines
  <2> QED BY <1>2, <2>3, <2>4, <2>5, <2>6 DEF EditorInv
<1>4. CASE UNCHANGED editorVars
  <2>1. /\ UNCHANGED texts /\ UNCHANGED segments /\ UNCHANGED raw /\ UNCHANGED edits
    BY <1>4 DEF editorVars
  <2>2. DocumentTakes'
    BY <1>1, <2>1 DEF DocumentTakes, PartOf
  <2>3. TextsKept' /\ TextIsDocument' /\ (edits' = 0 => FreshlyMade')
    BY <1>1, <2>1 DEF TextsKept, TextIsDocument, FreshlyMade, RenderedLines, LinesIn
  <2> QED BY <1>2, <2>2, <2>3 DEF EditorInv
<1> QED BY <1>3, <1>4

\* Whatever is merged, what the editor shows are all the lines of the three texts in
\* their order: a conflict where the sides differ, what one side changed where the other
\* did not, and the side that is all there is to merge when the other is the base.
THEOREM MergeAlwaysTakesAll == EditorSpec => []MergeTakesAll
<1>1. EditorInit => EditorInv
  BY MergeAssumption, EditorStarts
<1>2. EditorInv /\ [EditorNext]_editorVars => EditorInv'
  BY MergeAssumption, EditorKeeps
<1>3. EditorInv => MergeTakesAll
  BY TakesGives DEF EditorInv
<1> QED BY <1>1, <1>2, <1>3, PTL DEF EditorSpec

\* However the user goes on, in the segments or in the result as a text, the document
\* has the lines of the text: none that was typed is lost, moved or said twice.
THEOREM TextStaysDocument == EditorSpec => []TextIsDocument
<1>1. EditorInit => EditorInv
  BY MergeAssumption, EditorStarts
<1>2. EditorInv /\ [EditorNext]_editorVars => EditorInv'
  BY MergeAssumption, EditorKeeps
<1>3. EditorInv => TextIsDocument
  BY DEF EditorInv
<1> QED BY <1>1, <1>2, <1>3, PTL DEF EditorSpec
=============================================================================
