----------------------------- MODULE MCEventually -----------------------------
(***************************************************************************)
(* What has to happen in the end.  Two processes change the saved          *)
(* connections (ConnectionAdmin); the local settings, the token of Aurora  *)
(* DSQL, the tokens of Firestore and the SSH tunnels share no state with   *)
(* them nor with each other, so part says which of the five a behaviour is *)
(* about, and the variables of the others stay as they began.              *)
(***************************************************************************)
EXTENDS MCConnectionAdmin

CONSTANT None      \* no language, no attempt, no token

VARIABLES
    part,
    settings, staged, loaded, announced, changes, theme_of,
    attempt, version, launched, asked, wrong,
    age, missed, loop, held, call,
    cached, lock, ask,
    session, opening, listener, sockets, holder, answer, forwards, live, client

Settings == INSTANCE LocalSettings WITH
    Servers <- {"s1", "s2"}, Locales <- {"en", "ja"}, Themes <- {"dark", "auto"},
    DefaultTheme <- "auto", Versions <- {"v1", "v2"}, MaxChanges <- 3

Refresh == INSTANCE TokenRefresh WITH
    Callers <- {"c1", "c2"}, expires_secs <- 9, MaxBuild <- 1, Mints <- {"ok", "fails"}

Auth == INSTANCE FirestoreAuth WITH
    Callers <- {"c1", "c2"}, Lifetimes <- {1, 5}, DEFAULT_EXPIRY_SECS <- 4,
    EXPIRY_SKEW_SECS <- 2, MaxCalls <- 2

Tunnel == INSTANCE Tunnels WITH
    Policies <- {"pinned", "blank", "known", "unknown"}, Calls <- {"query"},
    MaxForwards <- 2, IdleWindow <- 4, Nodes <- {"n1", "n2"}, Clients <- {"c1", "c2", "c3"}

settingsVars == <<settings, staged, loaded, announced, changes, theme_of,
                  attempt, version, launched, asked, wrong>>
refreshVars == <<age, missed, loop, held, call>>
authVars == <<cached, lock, ask>>
tunnelVars == <<session, opening, listener, sockets, holder, answer, forwards, live, client>>
-------------------------------------------------------------------------------
AllInit ==
    /\ part \in {"admin", "settings", "refresh", "auth", "tunnel", "forwards"}
    /\ Init /\ Settings!SettingsInit /\ Refresh!RefreshInit /\ Auth!AuthInit /\ Tunnel!TInit
    /\ part # "settings" => settings = Settings!defaults /\ version = "v1"
    /\ part # "refresh" => age = 0

AllNext ==
    /\ UNCHANGED part
    /\ \/ /\ part = "admin" /\ Next
          /\ UNCHANGED <<settingsVars, refreshVars, authVars, tunnelVars>>
       \/ /\ part = "settings" /\ Settings!SettingsNext
          /\ UNCHANGED <<vars, refreshVars, authVars, tunnelVars>>
       \/ /\ part = "refresh" /\ Refresh!RefreshNext
          /\ UNCHANGED <<vars, settingsVars, authVars, tunnelVars>>
       \/ /\ part = "auth" /\ Auth!AuthNext
          /\ UNCHANGED <<vars, settingsVars, refreshVars, tunnelVars>>
       \/ /\ part = "tunnel" /\ Tunnel!TunnelNext
          /\ UNCHANGED <<vars, settingsVars, refreshVars, authVars>>
       \/ /\ part = "forwards" /\ Tunnel!ForwardsNext
          /\ UNCHANGED <<vars, settingsVars, refreshVars, authVars>>

\* The fairness of each component, where it is the one that moves.
AllFairness ==
    /\ \A p \in Procs : WF_vars(Proceed(p))
    /\ WF_settingsVars(part = "settings" /\ Settings!watch_ui_locale)
    /\ WF_refreshVars(part = "refresh" /\ Refresh!time_passes)
    /\ WF_refreshVars(part = "refresh" /\ Refresh!wakes)
    /\ WF_refreshVars(part = "refresh" /\ Refresh!build_dsql_pool)
    /\ \A c \in {"c1", "c2"} :
          /\ SF_authVars(part = "auth" /\ Auth!token_at(c))
          /\ WF_authVars(part = "auth" /\ (Auth!exchange(c) \/ Auth!exchange_fails(c)))
    /\ WF_tunnelVars(part = "tunnel" /\ Tunnel!tick)
    /\ WF_tunnelVars(part = "tunnel" /\ Tunnel!session_dropped)
    /\ WF_tunnelVars(part = "tunnel" /\ opening = "idle" /\ Tunnel!socket_closes)

AllSpec ==
    AllInit /\ [][AllNext]_<<part, vars, settingsVars, refreshVars, authVars, tunnelVars>>
            /\ AllFairness
-------------------------------------------------------------------------------
(***************************************************************************)
(* A change of the language leaves the rest of the settings alone and the  *)
(* window comes to show it; an update that did not land is reported at the *)
(* first start after it or not at all (LocalSettings).                     *)
(***************************************************************************)
SettingsStandAndAreSeen ==
    [](Settings!LocaleKeepsTheRest /\ Settings!StalledIsReportedAtOnce)
        /\ Settings!WindowFollowsTheFile

(***************************************************************************)
(* A token that is used is alive and asked for once by a burst of calls; a *)
(* failure to mint one delays the next and no more, every call that asks   *)
(* is answered, and the task ends with its adapter (TokenRefresh,          *)
(* FirestoreAuth).                                                         *)
(***************************************************************************)
TokensAreCurrent ==
    /\ []Refresh!CurrentWhileMintsSucceed
    /\ Refresh!RecoversFromAFailure /\ Refresh!TaskEndsWithTheAdapter
    /\ Auth!CachedTokenIsAlive /\ Auth!OneExchangeForABurst /\ Auth!EveryCallIsAnswered

(***************************************************************************)
(* Nothing is sent to a bastion whose key was not looked at; a tunnel that *)
(* is held lasts as long as its bastion, an address that was handed out as *)
(* long as its driver, and neither stays behind once let go of (Tunnels).  *)
(***************************************************************************)
TunnelsHoldAndEnd ==
    /\ [](Tunnel!KeyComesFirst /\ Tunnel!ForwardLastsAsTheAdapter /\ Tunnel!AddressesStayLive)
    /\ Tunnel!IdleTunnelSurvives /\ Tunnel!NothingLingers
===============================================================================
