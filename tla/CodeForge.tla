----------------------------- MODULE CodeForge -----------------------------
(***************************************************************************)
(* src/core/code-forge-service.ts: which provider serves a repository.  A  *)
(* detection reads the remotes, then the preferred provider, then asks one *)
(* provider after the other; calls made during one share its promise.      *)
(*                                                                         *)
(* Left out: polling, backoff refreshes and the sync marks of commits.     *)
(***************************************************************************)
EXTENDS Naturals

CONSTANTS Providers,       \* the registered providers
          Rank,            \* the order in which they are asked
          MaxSettings      \* bound on changes of the configuration

None == "none"

ASSUME ForgeAssumption == /\ None \notin Providers
                          /\ Rank \in [Providers -> Nat]
                          /\ \A p, q \in Providers : Rank[p] = Rank[q] => p = q

VARIABLES pref,            \* the configured provider
          settings,        \* how often the configuration changed
          stage,           \* the detection: "idle", "remotes" or "ask"
          sampled,         \* the preference it has read
          prev,            \* prevActive, the provider it found active
          asked,           \* the providers it found registered
          active,          \* activeProviderInstance
          on,              \* the providers activated and not deactivated
          heard,           \* whose updates activeProviderDisposable passes on
          dead             \* isDisposed

forgeVars == <<pref, settings, stage, sampled, prev, asked, active, on, heard, dead>>

\* The constructor starts the first detection.
ForgeInit == /\ pref = None /\ settings = 0
             /\ stage = "remotes" /\ sampled = None /\ prev = None /\ asked = {}
             /\ active = None /\ on = {} /\ heard = None
             /\ dead = FALSE

\* detectActiveProvider(true): a detection in progress is joined.
Detect == stage' = IF stage = "idle" THEN "remotes" ELSE stage

\* The listener of configuration changes.
Configure(p) == /\ ~dead
                /\ settings < MaxSettings
                /\ p # pref
                /\ pref' = p
                /\ settings' = settings + 1
                /\ Detect
                /\ UNCHANGED <<sampled, prev, asked, active, on, heard, dead>>

\* An action of the user's, or a look at the log view, detects again.
Redetect == /\ ~dead /\ stage = "idle"
            /\ Detect
            /\ UNCHANGED <<pref, settings, sampled, prev, asked, active, on, heard, dead>>

\* The remotes are known: the preference and the providers are read, which
\* dispose() forgets.
RemotesRead == /\ stage = "remotes"
               /\ stage' = "ask"
               /\ sampled' = pref /\ prev' = active
               /\ asked' = IF dead THEN {} ELSE Providers
               /\ UNCHANGED <<pref, settings, active, on, heard, dead>>

Rest == stage' = "idle" /\ sampled' = None /\ prev' = None /\ asked' = {}

\* getGitRemotes or a provider throws: everything stays as it is.
DetectionFails == /\ stage \in {"remotes", "ask"}
                  /\ Rest
                  /\ UNCHANGED <<pref, settings, active, on, heard, dead>>

\* The first to say yes: the preferred one, or the first by rank.
Best(willing) == IF sampled \in willing THEN {sampled}
                 ELSE {p \in willing : \A q \in willing : Rank[p] <= Rank[q]}

DetectedKeepingOld(p) ==
    /\ Rest
    /\ active' = p /\ heard' = p
    /\ on' = on \cup ({p} \ {None})
    /\ UNCHANGED <<pref, settings, dead>>

\* The detection ends with p, whether or not the service was disposed of.
Detected(p) ==
    /\ Rest
    /\ IF p = prev THEN UNCHANGED <<active, on, heard>>
       ELSE /\ active' = p /\ heard' = p
            /\ on' = (on \ {prev}) \cup ({p} \ {None})
    /\ UNCHANGED <<pref, settings, dead>>

\* Which of the providers recognise the remotes is up to them.
Detects == /\ stage = "ask"
           /\ \E willing \in SUBSET asked :
                 IF willing = {} THEN Detected(None) ELSE \E p \in Best(willing) : Detected(p)

\* dispose() deactivates what is active now.
ForgeDispose == /\ ~dead
                /\ dead' = TRUE
                /\ on' = on \ {active}
                /\ active' = None /\ heard' = None
                /\ UNCHANGED <<pref, settings, stage, sampled, prev, asked>>

-----------------------------------------------------------------------------
\* While the service lives, the provider it names is the one that is activated
\* and the one it listens to.
OneProviderAtWork == ~dead => on = {active} \ {None} /\ heard = active

\* A disposed service has no provider at work.
DisposedIsInactive == dead => on = {}
=============================================================================
