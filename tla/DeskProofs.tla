------------------------------- MODULE DeskProofs -------------------------------
(***************************************************************************)
(* Proofs about the assistant's answers (AiStream), the agent's tools      *)
(* (AgentTools), notes and saved queries (LocalNotes), the settings and    *)
(* updates (LocalSettings), the tokens of Firestore (FirestoreAuth) and    *)
(* the SSH tunnels (Tunnels).                                              *)
(***************************************************************************)
EXTENDS AiStream, AgentTools, LocalNotes, LocalSettings, FirestoreAuth, Tunnels, FiniteSetTheorems, TLAPS
-------------------------------------------------------------------------------
(* Notes and saved queries. *)

(***************************************************************************)
(* A change whose save failed has left no trace in the window that made    *)
(* it, for any number of windows, notes and queries, whoever is killed in  *)
(* a save: what a window holds and what it was told are only ever changed  *)
(* together (persist, write_query).                                        *)
(***************************************************************************)
THEOREM FailedSavesLeaveNoTrace == NotesSpec => []FailedSaveLeavesNoTrace
<1> DEFINE Inv == held = promised
<1>1. NotesInit => Inv
  BY DEF NotesInit
<1>2. ASSUME Inv, [NotesNext]_NotesVars PROVE Inv'
  <2>1. CASE UNCHANGED NotesVars
    BY <1>2, <2>1 DEF NotesVars
  <2>2. ASSUME NEW w \in Windows, open_default(w) PROVE Inv'
    BY <1>2, <2>2 DEF open_default
  <2>3. ASSUME NEW w \in Windows, NEW s \in Stores, close(w) \/ killed(w, s) PROVE Inv'
    BY <1>2, <2>3 DEF close, killed
  <2>4. ASSUME NEW w, NEW s, NEW f, persist(w, s, f) PROVE Inv'
    BY <1>2, <2>4 DEF persist
  <2>5. ASSUME NEW w \in Windows, NEW p \in Places, NEW t \in Texts \cup {Blank}, NEW b \in BOOLEAN,
               set_note(w, p, t) \/ save_query(w, p, t, b) \/ delete_saved_query(w, p)
        PROVE Inv'
    BY <2>4, <2>5 DEF set_note, save_query, delete_saved_query
  <2>6. ASSUME NEW w \in Windows, close(w) PROVE Inv'
    BY <1>2, <2>6 DEF close
  <2>7. ASSUME NEW w \in Windows, NEW p \in Places, delete_saved_query(w, p) PROVE Inv'
    BY <2>4, <2>7 DEF delete_saved_query
  <2>8. QED
    BY <1>2, <2>1, <2>2, <2>3, <2>5, <2>6, <2>7 DEF NotesNext
<1>3. Inv => FailedSaveLeavesNoTrace
  BY DEF FailedSaveLeavesNoTrace
<1>4. QED
  BY <1>1, <1>2, <1>3, PTL DEF NotesSpec
-------------------------------------------------------------------------------
(* Settings and updates. *)

\* The file of this build has a theme of its own; the one no build knows is none of them.
SettingsAssumption == DefaultTheme \in Themes /\ "unreadable" \notin Themes

\* What a server read has the theme of the file, as nobody edits it meanwhile; an
\* attempt somebody has asked about is gone.
SettingsInv ==
    /\ settings \in Readable \cup {unreadable} /\ load_or_default.theme = theme_of
    /\ loaded \in [Servers -> Readable \cup {None}]
    /\ \A s \in Servers : loaded[s] # None => loaded[s].theme = theme_of
    /\ asked => attempt = None
    /\ ~ wrong

LEMMA SettingsSafe ==
    ASSUME SettingsAssumption
    PROVE  SettingsSpec => []SettingsInv
<1>0. defaults \in Readable /\ \A f \in Readable : f # unreadable /\ f.theme \in Themes
  BY DEF SettingsAssumption, defaults, file, Readable, unreadable
<1>1. SettingsInit => SettingsInv
  <2> SUFFICES ASSUME SettingsInit PROVE SettingsInv
    OBVIOUS
  <2>1. settings \in Readable
    BY DEF SettingsInit, file, Readable
  <2>2. load_or_default.theme = theme_of
    BY <1>0, <2>1 DEF SettingsInit, load_or_default
  <2>3. QED
    BY <2>1, <2>2 DEF SettingsInit, SettingsInv
<1>2. ASSUME SettingsInv, [SettingsNext]_SettingsVars PROVE SettingsInv'
  <2>0. load_or_default \in Readable
    BY <1>0, <1>2 DEF SettingsInv, load_or_default
  <2>1. CASE UNCHANGED SettingsVars
    BY <1>2, <2>1 DEF SettingsVars, SettingsInv, load_or_default
  <2>2. ASSUME NEW s \in Servers, load(s) PROVE SettingsInv'
    BY <1>2, <2>0, <2>2 DEF load, SettingsInv, UpdateVars, load_or_default
  <2>3. ASSUME NEW s \in Servers, NEW l \in Locales, set_ui_locale(s, l) PROVE SettingsInv'
    <3>1. loaded[s] \in Readable /\ loaded[s].theme = theme_of
      BY <1>2, <2>3 DEF set_ui_locale, SettingsInv
    <3>2. with_locale(loaded[s], l) \in Readable /\ with_locale(loaded[s], l).theme = theme_of
      BY <3>1 DEF with_locale, Readable
    <3>3. settings' \in Readable \cup {unreadable} /\ load_or_default'.theme = theme_of
      BY <1>0, <1>2, <2>3, <3>2 DEF set_ui_locale, SettingsInv, load_or_default
    <3>4. QED
      BY <1>2, <2>3, <3>3 DEF set_ui_locale, SettingsInv, UpdateVars
  <2>4. ASSUME NEW f \in Readable \cup {unreadable}, user_edits(f) PROVE SettingsInv'
    <3>1. load_or_default'.theme = theme_of'
      BY <1>0, <2>4 DEF user_edits, load_or_default, defaults, file
    <3>2. QED
      BY <1>2, <2>4, <3>1 DEF user_edits, SettingsInv, UpdateVars
  <2>5. CASE clean \/ watch_ui_locale
    BY <1>2, <2>5 DEF clean, watch_ui_locale, SettingsInv, UpdateVars, load_or_default
  <2>6. ASSUME NEW v \in Versions, record_update_attempt(v) \/ install(v) PROVE SettingsInv'
    BY <1>2, <2>6 DEF record_update_attempt, install, SettingsInv, FileVars, load_or_default
  <2>7. CASE take_stalled_update
    BY <1>2, <2>7 DEF take_stalled_update, take_attempt, SettingsInv, FileVars, load_or_default
  <2>8. CASE restart
    BY <1>2, <2>8 DEF restart, SettingsInv, FileVars, load_or_default
  <2>9. QED
    BY <1>2, <2>1, <2>2, <2>3, <2>4, <2>5, <2>6, <2>7, <2>8 DEF SettingsNext
<1>3. QED
  BY <1>1, <1>2, PTL DEF SettingsSpec

(***************************************************************************)
(* Setting the language leaves the theme alone, for any number of servers  *)
(* that set it at once and whichever of their saves fail, as long as the   *)
(* user edits the file while nobody is at it (set_ui_locale).              *)
(***************************************************************************)
THEOREM LanguagesLeaveTheThemeAlone ==
    ASSUME SettingsAssumption
    PROVE  SettingsSpec => []LocaleKeepsTheRest
<1>1. SettingsInv => LocaleKeepsTheRest
  BY DEF SettingsInv, LocaleKeepsTheRest
<1>2. QED
  BY <1>1, SettingsSafe, PTL

(***************************************************************************)
(* An update that did not land is reported at the first start after it was *)
(* tried or not at all, for any versions and any order of attempts,        *)
(* installations and restarts (take_stalled_update).                       *)
(***************************************************************************)
THEOREM StalledUpdatesAreToldAtOnce ==
    ASSUME SettingsAssumption
    PROVE  SettingsSpec => []StalledIsReportedAtOnce
<1>1. SettingsInv => StalledIsReportedAtOnce
  BY DEF SettingsInv, StalledIsReportedAtOnce
<1>2. QED
  BY <1>1, SettingsSafe, PTL
-------------------------------------------------------------------------------
(* The tokens of Firestore. *)

\* Times are seconds, and the lock is nobody's when it is free.
AuthAssumption ==
    /\ "free" \notin Callers
    /\ EXPIRY_SKEW_SECS \in Nat /\ DEFAULT_EXPIRY_SECS \in Nat /\ Lifetimes \subseteq Nat

Asking ==
    [at : {"idle", "waits", "exchanges", "sent"}, lag : 0 .. EXPIRY_SKEW_SECS, calls : Nat]

\* A token is honoured for as long as the cache believes, or longer, and whoever
\* exchanges has the lock.
AuthInv ==
    /\ cached \in [left : Nat, life : Nat] /\ cached.left <= cached.life
    /\ ask \in [Callers -> Asking]
    /\ \A c \in Callers : ask[c].at = "exchanges" => lock = c

\* Who exchanged is not exchanging any more, and nobody else was.
LEMMA TurnEnds ==
    ASSUME AuthAssumption, AuthInv, NEW c \in Callers, NEW at \in {"idle", "sent"},
           ask[c].at = "exchanges", ask' = [ask EXCEPT ![c].at = at, ![c].lag = 0]
    PROVE  ask' \in [Callers -> Asking] /\ \A d \in Callers : ask'[d].at # "exchanges"
<1>1. ask[c] \in Asking /\ DOMAIN ask = Callers
  BY DEF AuthInv
<1>2. ask' = [ask EXCEPT ![c] = [ask[c] EXCEPT !.at = at, !.lag = 0]]
  BY <1>1
<1>3. PICK mine : mine = [ask[c] EXCEPT !.at = at, !.lag = 0]
  OBVIOUS
<1>4. 0 \in 0 .. EXPIRY_SKEW_SECS
  BY DEF AuthAssumption
<1>5. mine \in Asking /\ mine.at = at
  BY <1>1, <1>3, <1>4 DEF Asking
<1>6. ask' \in [Callers -> Asking] /\ ask'[c].at = at
  BY <1>1, <1>2, <1>3, <1>5 DEF AuthInv
<1>7. ASSUME NEW d \in Callers, d # c PROVE ask'[d].at # "exchanges"
  BY <1>2, <1>7 DEF AuthInv, AuthAssumption
<1>8. QED
  BY <1>6, <1>7

\* What is left of more time, or after less of it, is more.
LEMMA LessIsNatural ==
    ASSUME NEW n \in Nat, NEW m \in Nat, NEW i \in Nat, NEW k \in Nat, n <= m, k <= i
    PROVE  less(n, i) \in Nat /\ less(m, k) \in Nat /\ less(n, i) <= less(m, k)
  BY DEF less

\* Only a look at the cache ends a wait.
LEMMA WhoLooks ==
    ASSUME AuthInv, [AuthNext]_AuthVars, NEW c \in Callers,
           ask[c].at = "waits", ask'[c].at \in {"sent", "exchanges"}
    PROVE  token_at(c)
<1>1. ~ UNCHANGED AuthVars
  BY DEF AuthVars
<1>2. ~ second
  BY DEF second, AuthInv, Asking
<1>3. ASSUME NEW d \in Callers, bearer(d) PROVE FALSE
  BY <1>3 DEF bearer, AuthInv, NoAsk
<1>4. ASSUME NEW d \in Callers, exchange(d) \/ exchange_fails(d) PROVE FALSE
  BY <1>4 DEF exchange, exchange_fails, AuthInv
<1>5. ASSUME NEW d \in Callers, d # c, token_at(d) PROVE FALSE
  BY <1>5 DEF token_at, AuthInv
<1>6. QED
  BY <1>1, <1>2, <1>3, <1>4, <1>5 DEF AuthNext

LEMMA AuthSafe ==
    ASSUME AuthAssumption
    PROVE  AuthInit /\ [][AuthNext]_AuthVars => []AuthInv
<1>1. AuthInit => AuthInv
  BY DEF AuthAssumption, AuthInit, AuthInv, Asking, NoToken, NoAsk
<1>2. ASSUME AuthInv, [AuthNext]_AuthVars PROVE AuthInv'
  <2>1. CASE UNCHANGED AuthVars
    BY <1>2, <2>1 DEF AuthVars, AuthInv
  <2>2. CASE second
    <3>1. /\ cached'.left \in Nat /\ cached'.life \in Nat /\ cached'.left <= cached'.life
          /\ cached' \in [left : Nat, life : Nat]
      BY <1>2, <2>2, LessIsNatural DEF second, AuthInv
    <3>2. ask' \in [Callers -> Asking]
      BY <1>2, <2>2 DEF second, AuthInv, Asking, AuthAssumption
    <3>3. \A c \in Callers : ask'[c].at = ask[c].at
      BY <1>2, <2>2 DEF second, AuthInv
    <3>4. QED
      BY <1>2, <2>2, <3>1, <3>2, <3>3 DEF second, AuthInv
  <2>3. ASSUME NEW c \in Callers, bearer(c) PROVE AuthInv'
    <3>0. 0 \in 0 .. EXPIRY_SKEW_SECS /\ ask[c].calls + 1 \in Nat
      BY <1>2 DEF AuthInv, Asking, AuthAssumption
    <3>1. PICK mine : mine = [NoAsk EXCEPT !.at = "waits", !.calls = ask[c].calls + 1]
      OBVIOUS
    <3>2. ask' \in [Callers -> Asking]
      <4>1. NoAsk \in Asking
        BY <3>0 DEF NoAsk, Asking
      <4>2. mine \in Asking
        BY <3>0, <3>1, <4>1 DEF Asking
      <4>3. QED
        BY <1>2, <2>3, <3>1, <4>2 DEF bearer, AuthInv
    <3>3. \A d \in Callers : ask'[d].at = "exchanges" => ask[d].at = "exchanges"
      BY <1>2, <2>3 DEF bearer, AuthInv, NoAsk
    <3>4. QED
      BY <1>2, <2>3, <3>2, <3>3 DEF bearer, AuthInv
  <2>4. ASSUME NEW c \in Callers, token_at(c) PROVE AuthInv'
    BY <1>2, <2>4 DEF token_at, may_look, AuthInv, Asking, AuthAssumption
  <2>5. ASSUME NEW c \in Callers, exchange(c) PROVE AuthInv'
    <3>1. PICK expires_in \in Lifetimes \union {DEFAULT_EXPIRY_SECS}, issued \in 0 .. ask[c].lag :
             cached' = [left |-> less(expires_in, ask[c].lag), life |-> less(expires_in, issued)]
      BY <2>5 DEF exchange
    <3>2. expires_in \in Nat /\ ask[c].lag \in Nat /\ issued \in Nat /\ issued <= ask[c].lag
      BY <1>2, <3>1 DEF AuthInv, Asking, AuthAssumption
    <3>3. cached' \in [left : Nat, life : Nat] /\ cached'.left <= cached'.life
      <4>1. less(expires_in, ask[c].lag) \in Nat /\ less(expires_in, issued) \in Nat
            /\ less(expires_in, ask[c].lag) <= less(expires_in, issued)
        BY <3>2 DEF less
      <4>2. QED
        BY <3>1, <4>1
    <3>4. ask' \in [Callers -> Asking] /\ \A d \in Callers : ask'[d].at # "exchanges"
      BY <1>2, <2>5, TurnEnds DEF exchange
    <3>5. QED
      BY <3>3, <3>4 DEF AuthInv
  <2>6. ASSUME NEW c \in Callers, exchange_fails(c) PROVE AuthInv'
    <3>1. ask' \in [Callers -> Asking] /\ \A d \in Callers : ask'[d].at # "exchanges"
      BY <1>2, <2>6, TurnEnds DEF exchange_fails
    <3>2. QED
      BY <1>2, <2>6, <3>1 DEF exchange_fails, AuthInv
  <2>7. QED
    BY <1>2, <2>1, <2>2, <2>3, <2>4, <2>5, <2>6 DEF AuthNext
<1>3. QED
  BY <1>1, <1>2, PTL

(***************************************************************************)
(* The token a call is handed from the cache is still honoured, for any    *)
(* number of callers, any lifetimes and any skew, as long as no call is    *)
(* held up for longer than the skew (token_at).                            *)
(***************************************************************************)
THEOREM CachedTokensAreAlive ==
    ASSUME AuthAssumption
    PROVE  AuthSpec => CachedTokenIsAlive
<1>1. ASSUME AuthInv, [AuthNext]_AuthVars, NEW c \in Callers, ask[c].at = "waits", ask'[c].at = "sent"
      PROVE  cached.life > 0
  <2>1. token_at(c)
    BY <1>1, WhoLooks
  <2>2. is_fresh(ask[c].lag)
    BY <1>1, <2>1 DEF token_at, AuthInv, Asking
  <2>3. QED
    BY <1>1, <2>2 DEF is_fresh, AuthInv, Asking, AuthAssumption
<1>2. AuthInv /\ [AuthNext]_AuthVars =>
          [\A c \in Callers : ask[c].at = "waits" /\ ask'[c].at = "sent" => cached.life > 0]_AuthVars
  BY <1>1
<1>3. QED
  BY <1>2, AuthSafe, PTL DEF AuthSpec, CachedTokenIsAlive

(***************************************************************************)
(* A burst of queries makes one request for a token: nobody asks while     *)
(* another does, and nobody once a token that outlives the skew is cached, *)
(* for any number of callers (Auth::token_at holds the lock meanwhile).    *)
(***************************************************************************)
THEOREM BurstsExchangeOnce ==
    ASSUME AuthAssumption
    PROVE  AuthSpec => OneExchangeForABurst
<1>1. ASSUME AuthInv, [AuthNext]_AuthVars, NEW c \in Callers, ask[c].at = "waits", ask'[c].at = "exchanges"
      PROVE  exchanging = {} /\ cached.left <= EXPIRY_SKEW_SECS
  <2>1. token_at(c)
    BY <1>1, WhoLooks
  <2>2. lock = "free" /\ ~ is_fresh(ask[c].lag)
    BY <1>1, <2>1 DEF token_at, may_look, AuthInv, Asking
  <2>3. exchanging = {}
    BY <1>1, <2>2 DEF exchanging, AuthInv, AuthAssumption
  <2>4. QED
    BY <1>1, <2>2, <2>3 DEF is_fresh, AuthInv, Asking, AuthAssumption
<1>2. AuthInv /\ [AuthNext]_AuthVars =>
          [\A c \in Callers : ask[c].at = "waits" /\ ask'[c].at = "exchanges"
              => exchanging = {} /\ cached.left <= EXPIRY_SKEW_SECS]_AuthVars
  BY <1>1
<1>3. QED
  BY <1>2, AuthSafe, PTL DEF AuthSpec, OneExchangeForABurst
-------------------------------------------------------------------------------
(* SSH tunnels. *)

\* The policies are those of HostKeyPolicy, and whatever reaps quiet sessions waits
\* for longer than a keepalive takes to come.
TunnelAssumption ==
    /\ Policies \subseteq {"pinned", "blank", "known", "unknown"}
    /\ IdleWindow \in Nat /\ IdleWindow >= KEEPALIVE_INTERVAL
    /\ "none" \notin Nodes

SessionTypes ==
    [at : {"none", "open", "closed"}, key : Keys \union {"none"}, policy : Policies \union {"none"},
     quiet : 0 .. KEEPALIVE_INTERVAL - 1, missed : Nat, gone : BOOLEAN]

\* A session is never quiet for as long as it takes to be poked; besides, the two
\* properties, which need nothing else.
KeyIsNamed ==
    opening # "idle" => session.key = "its own" /\ session.policy \in {"pinned", "known"}
RefusalIsTold ==
    \/ answer.why = "host key" /\ answer.refused = TRUE
    \/ answer.why # "host key" /\ answer.refused = FALSE
TunnelInv ==
    /\ session \in SessionTypes
    /\ opening \in {"idle", "authenticate", "listen", "dial", "done"}
    /\ KeyIsNamed
    /\ RefusalIsTold
    /\ ForwardLastsAsTheAdapter

\* The sessions there are; a session keeps its key and policy.
LEMMA NoSessionIsOne == NoSession \in SessionTypes
  BY DEF NoSession, SessionTypes, KEEPALIVE_INTERVAL

LEMMA SessionsStay ==
    ASSUME NEW s \in SessionTypes, NEW t, NEW quiet \in 0 .. KEEPALIVE_INTERVAL - 1, NEW reaped \in BOOLEAN,
           NEW missed \in Nat,
           \/ t = [s EXCEPT !.at = "closed"]
           \/ t = [s EXCEPT !.quiet = quiet]
           \/ t = [s EXCEPT !.quiet = quiet, !.gone = reaped]
           \/ t = [s EXCEPT !.gone = reaped, !.quiet = quiet]
           \/ t = [s EXCEPT !.quiet = quiet, !.missed = missed]
    PROVE  t \in SessionTypes /\ t.key = s.key /\ t.policy = s.policy
<1>1. CASE t = [s EXCEPT !.at = "closed"] \/ t = [s EXCEPT !.quiet = quiet]
  BY <1>1 DEF SessionTypes
<1>2. CASE t = [s EXCEPT !.quiet = quiet, !.gone = reaped]
  BY <1>2 DEF SessionTypes
<1>3. CASE t = [s EXCEPT !.gone = reaped, !.quiet = quiet]
  BY <1>3 DEF SessionTypes
<1>4. CASE t = [s EXCEPT !.quiet = quiet, !.missed = missed]
  BY <1>4 DEF SessionTypes
<1>5. QED
  BY <1>1, <1>2, <1>3, <1>4

LEMMA StillInTime == 0 \in 0 .. KEEPALIVE_INTERVAL - 1
  BY DEF KEEPALIVE_INTERVAL

LEMMA TunnelStepKeeps ==
    ASSUME TunnelAssumption, TunnelInv, TunnelNext
    PROVE  TunnelInv'
<1>1. session \in SessionTypes /\ opening \in {"idle", "authenticate", "listen", "dial", "done"}
  BY DEF TunnelInv
<1>2. session.quiet \in 0 .. 1 /\ session.missed \in Nat
  BY <1>1 DEF SessionTypes, KEEPALIVE_INTERVAL
<1>3. KeyIsNamed /\ RefusalIsTold /\ ForwardLastsAsTheAdapter
  BY DEF TunnelInv
\* What leaves the session its key, and the caller without an answer.
<1>4. ASSUME session' \in SessionTypes, session'.key = session.key, session'.policy = session.policy,
             UNCHANGED <<opening, listener, holder>>, RefusalIsTold'
      PROVE  TunnelInv'
  BY <1>1, <1>3, <1>4 DEF TunnelInv, KeyIsNamed, ForwardLastsAsTheAdapter
<1>5. UNCHANGED answer => RefusalIsTold'
  BY <1>3 DEF RefusalIsTold
<1>6. \A what, why : why # "host key" /\ answer' = Told(what, why) => RefusalIsTold'
  <2> SUFFICES ASSUME NEW what, NEW why, why # "host key", answer' = Told(what, why)
               PROVE  RefusalIsTold'
    OBVIOUS
  <2>1. answer'.why = why /\ answer'.refused = FALSE
    BY DEF Told
  <2>2. QED
    BY <2>1 DEF RefusalIsTold
<1>7. ASSUME gives_up_opening, RefusalIsTold' PROVE TunnelInv'
  BY <1>7, NoSessionIsOne DEF gives_up_opening, TunnelInv, KeyIsNamed, ForwardLastsAsTheAdapter
<1>8. CASE connect
  <2>1. PICK policy \in Policies, key \in Keys \union {"unreachable"} :
           IF key # "unreachable" /\ verify(policy, key)
           THEN /\ session' = [NoSession EXCEPT !.at = "open", !.key = key, !.policy = policy]
                /\ opening' = "authenticate" /\ holder' = "connect"
                /\ UNCHANGED <<listener, answer>>
           ELSE LET refused == key # "unreachable"
                IN  /\ gives_up_opening
                    /\ answer' = [Told("error", reason_of(refused)) EXCEPT !.refused = refused]
    BY <1>8 DEF connect
  <2>2. CASE key # "unreachable" /\ verify(policy, key)
    <3>1. key = "its own" /\ policy \in {"pinned", "known"} /\ key \in Keys
      BY <2>2 DEF TunnelAssumption, verify, fingerprint_matches, Keys
    <3>2. session' = [NoSession EXCEPT !.at = "open", !.key = key, !.policy = policy]
      BY <2>1, <2>2
    <3>3. session' \in SessionTypes /\ session'.key = key /\ session'.policy = policy
      <4>1. PICK t : t = [NoSession EXCEPT !.at = "open"]
        OBVIOUS
      <4>2. PICK u : u = [t EXCEPT !.key = key]
        OBVIOUS
      <4>3. PICK s : s = [u EXCEPT !.policy = policy]
        OBVIOUS
      <4>4. session' = s
        BY <3>2, <4>1, <4>2, <4>3
      <4>5. s \in SessionTypes /\ s.key = key /\ s.policy = policy
        <5>1. key \in Keys /\ policy \in Policies
          BY <3>1
        <5>2. t \in SessionTypes
          BY <4>1, NoSessionIsOne DEF SessionTypes
        <5>3. u \in SessionTypes /\ u.key = key
          BY <4>2, <5>1, <5>2 DEF SessionTypes
        <5>4. QED
          BY <4>3, <5>1, <5>3 DEF SessionTypes
      <4>6. QED
        BY <4>4, <4>5
    <3>4. opening' = "authenticate" /\ UNCHANGED <<listener, answer>>
      BY <2>1, <2>2
    <3>5. QED
      BY <1>5, <3>1, <3>3, <3>4 DEF TunnelInv, KeyIsNamed, ForwardLastsAsTheAdapter
  <2>3. CASE ~ (key # "unreachable" /\ verify(policy, key))
    <3>1. CASE key = "unreachable"
      <4>1. answer' = [Told("error", reason_of(FALSE)) EXCEPT !.refused = FALSE]
        BY <2>1, <2>3, <3>1
      <4>2. answer'.why # "host key" /\ answer'.refused = FALSE
        BY <4>1 DEF Told, reason_of
      <4>3. QED
        BY <1>7, <2>1, <2>3, <4>2 DEF RefusalIsTold
    <3>2. CASE key # "unreachable"
      <4>1. answer' = [Told("error", reason_of(TRUE)) EXCEPT !.refused = TRUE]
        BY <2>1, <2>3, <3>2
      <4>2. answer'.why = "host key" /\ answer'.refused = TRUE
        BY <4>1 DEF Told, reason_of
      <4>3. QED
        BY <1>7, <2>1, <2>3, <4>2 DEF RefusalIsTold
    <3>3. QED
      BY <3>1, <3>2
  <2>4. QED
    BY <2>2, <2>3
<1>9. ASSUME NEW why \in {"key load", "auth", "connect", "listener"}, fails(why) PROVE TunnelInv'
  BY <1>6, <1>7, <1>9 DEF fails
<1>10. CASE authenticate
  <2>1. CASE opening' = "listen" /\ UNCHANGED <<session, listener, holder, answer>>
    BY <1>1, <1>3, <1>5, <1>10, <2>1 DEF authenticate, TunnelInv, KeyIsNamed, ForwardLastsAsTheAdapter
  <2>2. QED
    BY <1>9, <1>10, <2>1 DEF authenticate
<1>11. CASE forward
  <2>1. CASE listener' = TRUE /\ opening' = "dial" /\ UNCHANGED <<session, holder, answer>>
    BY <1>1, <1>3, <1>5, <1>11, <2>1 DEF forward, TunnelInv, KeyIsNamed, ForwardLastsAsTheAdapter
  <2>2. QED
    BY <1>9, <1>11, <2>1 DEF forward
<1>12. CASE dial
  <2>1. UNCHANGED session /\ opening = "dial" /\ opening' \in {"idle", "done"}
    BY <1>12 DEF dial
  <2>2. opening' = "done" => listener' /\ holder' = "adapter"
    BY <1>12 DEF dial, wrap
  <2>3. opening' = "idle" => ~ listener'
    BY <1>12 DEF dial
  <2>4. RefusalIsTold'
    BY <1>6, <1>12 DEF dial
  <2>5. QED
    BY <1>1, <1>3, <2>1, <2>2, <2>3, <2>4 DEF TunnelInv, KeyIsNamed, ForwardLastsAsTheAdapter
<1>13. CASE use
  <2>1. session' = [session EXCEPT !.quiet = 0] \/ session' = session
    BY <1>13 DEF use
  <2>2. RefusalIsTold'
    BY <1>6, <1>13 DEF use
  <2>3. QED
    BY <1>1, <1>4, <1>13, <2>1, <2>2, SessionsStay, StillInTime DEF use
<1>14. CASE accept
  <2>1. session' = [session EXCEPT !.quiet = 0] \/ session' = session
    BY <1>14 DEF accept
  <2>2. QED
    BY <1>1, <1>4, <1>5, <1>14, <2>1, SessionsStay, StillInTime DEF accept
<1>15. CASE socket_closes
  BY <1>1, <1>4, <1>5, <1>15 DEF socket_closes
<1>16. CASE adapter_dropped
  BY <1>1, <1>5, <1>16 DEF adapter_dropped, aborted, TunnelInv, KeyIsNamed, ForwardLastsAsTheAdapter
<1>17. CASE session_dropped
  BY <1>1, <1>5, <1>17, NoSessionIsOne
  DEF session_dropped, TunnelInv, KeyIsNamed, ForwardLastsAsTheAdapter
<1>18. CASE tick
  <2>1. PICK quiet : quiet = IF poked THEN 0 ELSE session.quiet + 1
    OBVIOUS
  <2>2. quiet \in 0 .. KEEPALIVE_INTERVAL - 1
    BY <1>2, <2>1 DEF poked, KEEPALIVE_INTERVAL
  <2>3. session.missed + 1 \in Nat
    BY <1>2
  <2>4. session' \in SessionTypes /\ session'.key = session.key /\ session'.policy = session.policy
    <3>1. CASE ~ session.gone
      <4>1. session' = [session EXCEPT !.quiet = quiet, !.gone = quiet >= IdleWindow]
        BY <1>18, <2>1, <3>1, Zenon DEF tick
      <4>2. CASE quiet >= IdleWindow
        <5>1. session' = [session EXCEPT !.quiet = quiet, !.gone = TRUE]
          BY <4>1, <4>2
        <5>2. QED
          BY <1>1, <1>2, <2>2, <5>1, SessionsStay
      <4>3. CASE ~ (quiet >= IdleWindow)
        <5>1. (quiet >= IdleWindow) = FALSE
          BY <4>3
        <5>2. session' = [session EXCEPT !.quiet = quiet, !.gone = FALSE]
          BY <4>1, <5>1, Zenon
        <5>3. QED
          BY <1>1, <1>2, <2>2, <5>2, SessionsStay
      <4>4. QED
        BY <4>2, <4>3
    <3>2. CASE session.gone /\ session' = [session EXCEPT !.at = "closed"]
      BY <1>1, <1>2, <2>2, <3>2, SessionsStay
    <3>3. CASE session.gone /\ session' # [session EXCEPT !.at = "closed"]
      <4>1. PICK missed : missed = IF poked /\ session.missed < KEEPALIVE_MAX
                                   THEN session.missed + 1 ELSE session.missed
        OBVIOUS
      <4>2. missed \in Nat
        BY <1>2, <2>3, <4>1
      <4>3. session' = [session EXCEPT !.quiet = quiet, !.missed = missed]
        BY <1>18, <2>1, <3>3, <4>1 DEF tick
      <4>4. PICK reaped \in BOOLEAN : reaped = FALSE
        OBVIOUS
      <4>5. QED
        BY <1>1, <2>2, <4>2, <4>3, <4>4, SessionsStay
    <3>4. QED
      BY <3>1, <3>2, <3>3
  <2>5. QED
    BY <1>4, <1>5, <1>18, <2>4 DEF tick
<1>19. CASE bastion_gone
  BY <1>1, <1>4, <1>5, <1>19, SessionsStay, StillInTime DEF bastion_gone
<1>20. QED
  BY <1>8, <1>10, <1>11, <1>12, <1>13, <1>14, <1>15, <1>16, <1>17, <1>18, <1>19 DEF TunnelNext

LEMMA TunnelSafe ==
    ASSUME TunnelAssumption
    PROVE  TInit /\ [][TNext]_TVars => []TunnelInv
<1>1. TInit => TunnelInv
  <2> SUFFICES ASSUME TInit PROVE TunnelInv
    OBVIOUS
  <2>1. answer.why = "none" /\ answer.refused = FALSE
    BY DEF TInit, Told
  <2>2. QED
    BY <2>1, NoSessionIsOne DEF TInit, TunnelInv, KeyIsNamed, RefusalIsTold, ForwardLastsAsTheAdapter
<1>2. ASSUME TunnelInv, [TNext]_TVars PROVE TunnelInv'
  <2>1. CASE UNCHANGED TunnelVars
    BY <1>2, <2>1 DEF TunnelVars, TunnelInv, KeyIsNamed, RefusalIsTold, ForwardLastsAsTheAdapter
  <2>2. CASE TunnelNext
    BY <1>2, <2>2, TunnelStepKeeps
  <2>3. CASE ForwardsNext
    BY <2>1, <2>3 DEF ForwardsNext, resolve, opened, kept, disconnects
  <2>4. QED
    BY <1>2, <2>1, <2>2, <2>3 DEF TNext, TVars, TunnelVars
<1>3. QED
  BY <1>1, <1>2, PTL

(***************************************************************************)
(* Nothing is sent to a bastion whose host key the policy does not name,   *)
(* and a key that was refused is told as one, for every policy and however *)
(* the steps of opening fail (verify, TunnelError).                        *)
(***************************************************************************)
THEOREM CredentialsFollowTheHostKey ==
    ASSUME TunnelAssumption
    PROVE  TSpec => []KeyComesFirst
<1>1. TunnelInv => KeyComesFirst
  BY Zenon DEF TunnelInv, KeyIsNamed, RefusalIsTold, KeyComesFirst
<1>2. QED
  BY <1>1, TunnelSafe, PTL DEF TSpec

(***************************************************************************)
(* The loopback port accepts while somebody holds the adapter and no       *)
(* longer, for any number of sockets (TunneledAdapter, Drop of Forward).   *)
(***************************************************************************)
THEOREM ForwardsLastAsTheirAdapter ==
    ASSUME TunnelAssumption
    PROVE  TSpec => []ForwardLastsAsTheAdapter
<1>1. TunnelInv => ForwardLastsAsTheAdapter
  BY DEF TunnelInv
<1>2. QED
  BY <1>1, TunnelSafe, PTL DEF TSpec

(***************************************************************************)
(* No session is reaped for being quiet, whatever it is used for, if what  *)
(* reaps it waits for longer than one keepalive (KEEPALIVE_INTERVAL).      *)
(***************************************************************************)
THEOREM IdleTunnelsSurvive ==
    ASSUME TunnelAssumption
    PROVE  TSpec => IdleTunnelSurvives
<1>1. ASSUME TunnelInv, [TNext]_TVars, session'.gone, ~ session.gone PROVE session'.quiet = 0
  <2>1. CASE UNCHANGED session
    BY <1>1, <2>1
  <2>2. CASE tick
    <3>1. session.quiet \in 0 .. 1 /\ session \in SessionTypes
      BY <1>1 DEF TunnelInv, SessionTypes, KEEPALIVE_INTERVAL
    <3>2. PICK quiet : quiet = IF poked THEN 0 ELSE session.quiet + 1
      OBVIOUS
    <3>3. quiet \in 0 .. 1 /\ ~ (quiet >= IdleWindow)
      BY <3>1, <3>2 DEF poked, TunnelAssumption, KEEPALIVE_INTERVAL
    <3>4. session' = [session EXCEPT !.quiet = quiet, !.gone = FALSE]
      <4>1. (quiet >= IdleWindow) = FALSE
        BY <3>3
      <4>2. session' = [session EXCEPT !.quiet = quiet, !.gone = quiet >= IdleWindow]
        BY <1>1, <2>2, <3>2, Zenon DEF tick
      <4>3. QED
        BY <4>1, <4>2, Zenon
    <3>5. session'.gone = FALSE
      BY <3>1, <3>3, <3>4 DEF SessionTypes
    <3>6. QED
      BY <1>1, <3>5
  <2>3. CASE bastion_gone
    BY <1>1, <2>3 DEF bastion_gone, TunnelInv, SessionTypes
  <2>4. CASE use \/ accept
    BY <1>1, <2>4 DEF use, accept, TunnelInv, SessionTypes
  <2>5. CASE connect \/ authenticate \/ forward \/ session_dropped
    <3>1. NoSession.gone = FALSE /\ NoSession.quiet = 0
      BY DEF NoSession
    <3>2. \/ UNCHANGED session \/ session' = NoSession
          \/ \E policy \in Policies, key \in Keys \union {"unreachable"} :
                session' = [NoSession EXCEPT !.at = "open", !.key = key, !.policy = policy]
      BY <2>5 DEF connect, authenticate, forward, session_dropped, fails, gives_up_opening
    <3>3. ASSUME NEW policy, NEW key,
                 session' = [NoSession EXCEPT !.at = "open", !.key = key, !.policy = policy]
          PROVE  session'.quiet = 0
      BY <3>1, <3>3 DEF NoSession
    <3>4. QED
      BY <2>1, <3>1, <3>2, <3>3
  <2>6. CASE dial \/ socket_closes \/ adapter_dropped \/ ForwardsNext \/ UNCHANGED TVars
    BY <2>1, <2>6 DEF dial, socket_closes, adapter_dropped, ForwardsNext, resolve, opened, kept,
                      disconnects, TVars, TunnelVars
  <2>7. QED
    BY <1>1, <2>2, <2>3, <2>4, <2>5, <2>6 DEF TNext, TunnelNext
<1>2. TunnelInv /\ [TNext]_TVars => [(session'.gone /\ ~ session.gone) => session'.quiet = 0]_TVars
  BY <1>1
<1>3. QED
  BY <1>2, TunnelSafe, PTL DEF TSpec, IdleTunnelSurvives
\* Redis routes.  A client that was answered uses the forward kept for its node, one that
\* has just opened a forward of its own holds that one.
Held == [node : Nodes, by : Clients]
ClientTypes ==
    [at : {"idle", "opening", "opened", "connected"}, node : Nodes \union {"none"},
     address : Held \union {NoForward}]

\* What holds of one client.
ClientHolds(c, forward_of, guards) ==
    /\ client[c].at # "idle" => client[c].node \in Nodes
    /\ client[c].at = "opened" =>
          client[c].address = [node |-> client[c].node, by |-> c] /\ client[c].address \in guards
    /\ client[c].at = "connected" =>
          client[c].address = forward_of[client[c].node] /\ client[c].address # NoForward
IsKept(f, forward_of) ==
    \/ f = forward_of[f.node]
    \/ \E c \in Clients : client[c].at = "opened" /\ client[c].address = f
RouteInv ==
    /\ forwards \in [Nodes -> Held \union {NoForward}] /\ live \subseteq Held
    /\ client \in [Clients -> ClientTypes]
    /\ \A n \in Nodes : forwards[n] = NoForward \/ (forwards[n] \in live /\ forwards[n].node = n)
    /\ \A c \in Clients : ClientHolds(c, forwards, live)
    /\ \A f \in live : IsKept(f, forwards)

LEMMA NoForwardIsHeld ==
    ASSUME TunnelAssumption
    PROVE  NoForward \notin Held
  BY DEF TunnelAssumption, NoForward, Held

LEMMA RouteStepKeeps ==
    ASSUME TunnelAssumption, RouteInv, NEW c \in Clients,
           resolve(c) \/ opened(c) \/ kept(c) \/ disconnects(c)
    PROVE  RouteInv'
<1>1. /\ forwards \in [Nodes -> Held \union {NoForward}] /\ live \subseteq Held
      /\ client \in [Clients -> ClientTypes]
  BY DEF RouteInv
<1>2. \A n \in Nodes : forwards[n] = NoForward \/ (forwards[n] \in live /\ forwards[n].node = n)
  BY DEF RouteInv
<1>3. \A d \in Clients : ClientHolds(d, forwards, live)
  BY DEF RouteInv
<1>4. \A f \in live : IsKept(f, forwards)
  BY DEF RouteInv
<1>5. client[c] \in ClientTypes
  BY <1>1
\* What only moves this client, and not from or to a forward of its own.
<1>6. ASSUME NEW r \in ClientTypes, client' = [client EXCEPT ![c] = r], UNCHANGED <<forwards, live>>,
             client[c].at # "opened", r.at # "opened", r.at # "idle" => r.node \in Nodes,
             r.at = "connected" => r.address = forwards[r.node] /\ r.address # NoForward
      PROVE  RouteInv'
  <2>1. client' \in [Clients -> ClientTypes] /\ client'[c] = r
        /\ \A d \in Clients \ {c} : client'[d] = client[d]
    BY <1>1, <1>6
  <2>2. \A d \in Clients : ClientHolds(d, forwards, live)'
    BY <1>3, <1>6, <2>1 DEF ClientHolds
  <2>3. \A f \in live : IsKept(f, forwards)'
    BY <1>4, <1>6, <2>1 DEF IsKept
  <2>4. QED
    BY <1>1, <1>2, <1>6, <2>1, <2>2, <2>3 DEF RouteInv
<1>7. ASSUME client[c].at # "opened", client' = [client EXCEPT ![c] = Idle], UNCHANGED <<forwards, live>>
      PROVE  RouteInv'
  <2>1. Idle \in ClientTypes /\ Idle.at = "idle"
    BY DEF Idle, ClientTypes
  <2>2. QED
    BY <1>6, <1>7, <2>1
<1>8. CASE resolve(c)
  <2>1. PICK n \in Nodes :
           client' = [client EXCEPT ![c] =
               IF forwards[n] # NoForward
               THEN [at |-> "connected", node |-> n, address |-> forwards[n]]
               ELSE [at |-> "opening", node |-> n, address |-> NoForward]]
    BY <1>8 DEF resolve
  <2>2. client[c].at = "idle" /\ UNCHANGED <<forwards, live>>
    BY <1>8 DEF resolve
  <2>3. CASE forwards[n] # NoForward
    <3>1. PICK r : r = [at |-> "connected", node |-> n, address |-> forwards[n]]
      OBVIOUS
    <3>2. r \in ClientTypes /\ r.at = "connected" /\ r.node = n /\ r.address = forwards[n]
      BY <1>1, <3>1 DEF ClientTypes
    <3>3. client' = [client EXCEPT ![c] = r]
      BY <2>1, <2>3, <3>1
    <3>4. QED
      BY <1>6, <2>2, <2>3, <3>2, <3>3
  <2>4. CASE forwards[n] = NoForward
    <3>1. PICK r : r = [at |-> "opening", node |-> n, address |-> NoForward]
      OBVIOUS
    <3>2. r \in ClientTypes /\ r.at = "opening" /\ r.node = n
      BY <3>1 DEF ClientTypes
    <3>3. client' = [client EXCEPT ![c] = r]
      BY <2>1, <2>4, <3>1
    <3>4. QED
      BY <1>6, <2>2, <3>2, <3>3
  <2>5. QED
    BY <2>3, <2>4
<1>9. CASE opened(c)
  <2>1. PICK n, mine : n = client[c].node /\ mine = [node |-> n, by |-> c]
    OBVIOUS
  <2>2. client[c].at = "opening" /\ UNCHANGED forwards
    BY <1>9 DEF opened
  <2>3. n \in Nodes /\ mine \in Held
    <3>1. n \in Nodes
      BY <1>3, <2>1, <2>2 DEF ClientHolds
    <3>2. QED
      BY <2>1, <3>1 DEF Held
  <2>4. CASE client' = [client EXCEPT ![c].at = "opened", ![c].address = mine] /\ live' = live \union {mine}
    <3>1. PICK r : r = [client[c] EXCEPT !.at = "opened", !.address = mine]
      OBVIOUS
    <3>2. r \in ClientTypes /\ r.at = "opened" /\ r.node = n /\ r.address = mine
      BY <1>5, <2>1, <2>3, <3>1 DEF ClientTypes
    <3>3. client' \in [Clients -> ClientTypes] /\ client'[c] = r
          /\ \A d \in Clients \ {c} : client'[d] = client[d]
      BY <1>1, <2>4, <3>1, <3>2
    <3>4. \A d \in Clients : ClientHolds(d, forwards, live)'
      BY <1>3, <2>1, <2>2, <2>3, <2>4, <3>2, <3>3 DEF ClientHolds
    <3>5. \A f \in live' : IsKept(f, forwards)'
      BY <1>4, <2>2, <2>4, <3>2, <3>3 DEF IsKept
    <3>6. QED
      BY <1>1, <1>2, <2>2, <2>3, <2>4, <3>3, <3>4, <3>5 DEF RouteInv
  <2>5. QED
    BY <1>7, <1>9, <2>1, <2>2, <2>4 DEF opened
<1>10. CASE kept(c)
  <2>1. PICK n, mine, winner :
           n = client[c].node /\ mine = client[c].address /\ winner = or_insert(forwards[n], mine)
    OBVIOUS
  <2>2. /\ client[c].at = "opened"
        /\ forwards' = [forwards EXCEPT ![n] = winner]
        /\ live' = (live \ {mine, forwards[n]}) \union {winner}
        /\ client' = [client EXCEPT ![c] = [@ EXCEPT !.at = "connected", !.address = winner]]
    BY <1>10, <2>1 DEF kept
  <2>3. n \in Nodes /\ mine = [node |-> n, by |-> c] /\ mine \in live
    BY <1>3, <2>1, <2>2 DEF ClientHolds
  <2>4. mine \in Held /\ mine # NoForward /\ mine.node = n
    BY <1>1, <2>3, NoForwardIsHeld DEF Held
  <2>5. winner \in live /\ winner \in Held /\ winner # NoForward /\ winner.node = n
    BY <1>1, <1>2, <2>1, <2>3, <2>4, NoForwardIsHeld DEF or_insert
  <2>6. forwards' \in [Nodes -> Held \union {NoForward}] /\ forwards'[n] = winner
        /\ \A m \in Nodes \ {n} : forwards'[m] = forwards[m]
    BY <1>1, <2>2, <2>3, <2>5
  <2>7. live' \subseteq live /\ winner \in live'
    BY <2>2, <2>5
  <2>8. PICK r : r = [client[c] EXCEPT !.at = "connected", !.address = winner]
    OBVIOUS
  <2>9. r \in ClientTypes /\ r.at = "connected" /\ r.node = n /\ r.address = winner
    BY <1>5, <2>1, <2>5, <2>8 DEF ClientTypes
  <2>10. client' \in [Clients -> ClientTypes] /\ client'[c] = r
         /\ \A d \in Clients \ {c} : client'[d] = client[d]
    BY <1>1, <2>2, <2>8, <2>9
  \* What is taken out is nobody else's.
  <2>11. forwards[n] = NoForward \/ forwards[n] = winner
    BY <2>1 DEF or_insert
  <2>12. \A f \in live : f # mine => f \in live'
    BY <1>1, <2>2, <2>11, NoForwardIsHeld
  <2>13. \A m \in Nodes : forwards'[m] = NoForward \/ (forwards'[m] \in live' /\ forwards'[m].node = m)
    BY <1>2, <2>4, <2>5, <2>6, <2>7, <2>12
  <2>14. ASSUME NEW d \in Clients PROVE ClientHolds(d, forwards, live)'
    <3>1. CASE d = c
      BY <2>3, <2>5, <2>6, <2>9, <2>10, <3>1 DEF ClientHolds
    <3>2. CASE d # c
      <4>1. client'[d] = client[d] /\ ClientHolds(d, forwards, live)
        BY <1>3, <2>10, <3>2
      <4>2. CASE client[d].at = "opened"
        <5>1. client[d].address # mine
          BY <2>3, <3>2, <4>1, <4>2 DEF ClientHolds
        <5>2. QED
          BY <2>12, <4>1, <4>2, <5>1 DEF ClientHolds
      <4>3. CASE client[d].at = "connected"
        BY <2>6, <2>11, <4>1, <4>3 DEF ClientHolds
      <4>4. QED
        BY <4>1, <4>2, <4>3 DEF ClientHolds
    <3>3. QED
      BY <3>1, <3>2
  <2>15. ASSUME NEW f \in live' PROVE IsKept(f, forwards)'
    <3>1. CASE f = winner
      BY <2>5, <2>6, <3>1 DEF IsKept
    <3>2. CASE f # winner
      <4>1. f \in live /\ f # mine /\ f # forwards[n] /\ f.node \in Nodes
        BY <1>1, <2>2, <3>2 DEF Held
      <4>2. CASE f = forwards[f.node]
        BY <2>6, <4>1, <4>2 DEF IsKept
      <4>3. CASE f # forwards[f.node]
        <5>1. PICK d \in Clients : client[d].at = "opened" /\ client[d].address = f
          BY <1>4, <4>1, <4>3 DEF IsKept
        <5>2. d # c
          BY <2>1, <4>1, <5>1
        <5>3. QED
          BY <2>10, <5>1, <5>2 DEF IsKept
      <4>4. QED
        BY <4>2, <4>3
    <3>3. QED
      BY <3>1, <3>2
  <2>16. QED
    BY <1>1, <2>6, <2>7, <2>10, <2>13, <2>14, <2>15 DEF RouteInv
<1>11. CASE disconnects(c)
  BY <1>7, <1>11 DEF disconnects
<1>12. QED
  BY <1>8, <1>9, <1>10, <1>11

(***************************************************************************)
(* An address that was handed out is the forward that is kept for its node *)
(* and its guard is held, and no forward is held that is not kept or still *)
(* its opener's, for any number of nodes and of connections that open a    *)
(* forward to one node at once (redis_route.rs).                           *)
(***************************************************************************)
THEOREM AddressesAreHeld ==
    ASSUME TunnelAssumption
    PROVE  TSpec => []AddressesStayLive
<1>1. TInit => RouteInv
  <2> SUFFICES ASSUME TInit PROVE RouteInv
    OBVIOUS
  <2>1. Idle \in ClientTypes /\ Idle.at = "idle"
    BY DEF Idle, ClientTypes
  <2>2. QED
    BY <2>1 DEF TInit, RouteInv, ClientHolds
<1>2. ASSUME RouteInv, [TNext]_TVars PROVE RouteInv'
  <2>1. CASE UNCHANGED RouteVars
    BY <1>2, <2>1 DEF RouteVars, RouteInv, ClientHolds, IsKept
  <2>2. CASE TunnelNext
    BY <2>1, <2>2 DEF TunnelNext, connect, authenticate, forward, dial, use, accept, socket_closes,
                      adapter_dropped, session_dropped, tick, bastion_gone
  <2>3. CASE ForwardsNext
    BY <1>2, <2>3, RouteStepKeeps DEF ForwardsNext
  <2>4. QED
    BY <1>2, <2>1, <2>2, <2>3 DEF TNext, TVars, RouteVars
<1>3. RouteInv => AddressesStayLive
  <2> SUFFICES ASSUME RouteInv PROVE AddressesStayLive
    OBVIOUS
  <2>1. ASSUME NEW f \in live, IsKept(f, forwards)
        PROVE  f = forwards[f.node] \/ \E c \in Clients : client[c].at = "opened" /\ client[c].address = f
    BY <2>1, Zenon DEF IsKept
  <2>2. \A f \in live : IsKept(f, forwards)
    BY DEF RouteInv
  <2>3. \A n \in Nodes : forwards[n] = NoForward \/ (forwards[n] \in live /\ forwards[n].node = n)
    BY DEF RouteInv
  <2>4. ASSUME NEW c \in Clients, client[c].at = "connected"
        PROVE  client[c].address \in live /\ client[c].address.node = client[c].node
    <3>1. ClientHolds(c, forwards, live)
      BY DEF RouteInv
    <3>2. client[c].node \in Nodes /\ client[c].address = forwards[client[c].node]
          /\ client[c].address # NoForward
      BY <2>4, <3>1 DEF ClientHolds
    <3>3. QED
      BY <2>3, <3>2
  <2>5. QED
    BY <2>1, <2>2, <2>4 DEF AddressesStayLive
<1>4. QED
  BY <1>1, <1>2, <1>3, PTL DEF TSpec
-------------------------------------------------------------------------------
(* The assistant's answers. *)

FrameTypes == [kind : Kinds("anthropic"), n : Nat]
AccTypes == [text : Seq(Nat), tokens_in : Nat, tokens_out : Nat]
Before == {"idle", "describing"}

StreamTypes ==
    /\ phase \in [Requests -> Before \union {"streaming"} \union Outcomes]
    /\ vendor \in [Requests -> Vendors]
    /\ described \in [Requests -> SUBSET Tables] /\ warnings \in [Requests -> SUBSET Tables]
    /\ prompt \in [Requests -> SUBSET Tables]
    /\ sent \in [Requests -> Seq(FrameTypes)]
    /\ running \in [Requests -> Nat] /\ acc \in [Requests -> AccTypes]
    /\ cancel \in BOOLEAN /\ cleared \in [Requests -> BOOLEAN]
    /\ pressed \in [Requests -> Seq(Nat)]

\* The tokens an answer's meter shows are those of the last report.
MeterFollows(frames, meter) ==
    LET usages == {i \in DOMAIN frames : frames[i].kind = "usage"}
    IN  \/ usages = {} /\ meter = 0
        \/ \E i \in usages : meter = frames[i].n /\ \A j \in usages : j <= i
AskedFollows(frames, asked_for) ==
    (\E i \in DOMAIN frames : frames[i].kind \in {"start", "usage"}) => asked_for = Asked
AnswerFollows(frames, a) ==
    /\ a.text = [n \in 1 .. Cardinality(texts(frames)) |-> n]
    /\ MeterFollows(frames, a.tokens_out)
    /\ AskedFollows(frames, a.tokens_in)

\* Nothing has come before the question is sent; then the answer follows what comes.
\* What message_start reported is remembered from the first frame on.
AnswerSoFar(r) ==
    /\ phase[r] \in Before => sent[r] = <<>> /\ acc[r] = [text |-> <<>>, tokens_in |-> 0, tokens_out |-> 0]
    /\ phase[r] \in {"streaming", "answered"} => AnswerFollows(sent[r], acc[r])
    /\ phase[r] = "streaming" /\ vendor[r] = "anthropic" /\ sent[r] # <<>> => running[r] = Asked

\* The flag that is set is that of every running answer it was pressed for.
CancelSeen(r) ==
    /\ phase[r] = "cancelled" => pressed[r] # NotPressed
    /\ pressed[r] # NotPressed /\ ~ cleared[r] =>
          acc[r].text = pressed[r] /\ (phase[r] = "streaming" => cancel)
    /\ cancel /\ phase[r] = "streaming" => pressed[r] # NotPressed
    /\ phase[r] \in Before => pressed[r] = NotPressed

\* There is no prompt before every table was described or counted.
PromptSoFar(r) ==
    /\ phase[r] \in Before => prompt[r] = {}
    /\ phase[r] = "idle" => described[r] = {} /\ warnings[r] = {}
    /\ phase[r] \notin Before /\ (prompt[r] # {} \/ warnings[r] # {}) =>
          Tables \subseteq prompt[r] \union warnings[r] /\ prompt[r] # {}

StreamInv ==
    StreamTypes /\ \A r \in Requests : AnswerSoFar(r) /\ CancelSeen(r) /\ PromptSoFar(r)

LEMMA TextsAreCounted ==
    ASSUME NEW s \in Seq(FrameTypes)
    PROVE  IsFiniteSet(texts(s)) /\ Cardinality(texts(s)) \in Nat
<1>1. Len(s) \in Nat /\ texts(s) \subseteq 1 .. Len(s)
  BY DEF texts
<1>2. IsFiniteSet(1 .. Len(s))
  BY <1>1, FS_Interval
<1>3. QED
  BY <1>1, <1>2, FS_Subset, FS_CardinalityType

LEMMA TextsGrow ==
    ASSUME NEW s \in Seq(FrameTypes), NEW f \in FrameTypes, NEW t, t = Append(s, f)
    PROVE  Cardinality(texts(t)) = Cardinality(texts(s)) + (IF f.kind = "text" THEN 1 ELSE 0)
<1>1. Len(s) \in Nat /\ DOMAIN s = 1 .. Len(s) /\ DOMAIN t = 1 .. Len(s) + 1 /\ t[Len(s) + 1] = f
      /\ \A i \in 1 .. Len(s) : t[i] = s[i]
  OBVIOUS
<1>2. CASE f.kind = "text"
  <2>1. texts(t) = texts(s) \union {Len(s) + 1} /\ Len(s) + 1 \notin texts(s)
    BY <1>1, <1>2 DEF texts
  <2>2. QED
    BY <1>2, <2>1, TextsAreCounted, FS_AddElement
<1>3. CASE f.kind # "text"
  <2>1. texts(t) = texts(s)
    BY <1>1, <1>3 DEF texts
  <2>2. QED
    BY <1>3, <2>1, TextsAreCounted
<1>4. QED
  BY <1>2, <1>3

\* How the meters follow one more frame.
LEMMA MeterStays ==
    ASSUME NEW s \in Seq(FrameTypes), NEW f \in FrameTypes, NEW t, t = Append(s, f), NEW meter,
           MeterFollows(s, meter), f.kind # "usage"
    PROVE  MeterFollows(t, meter)
<1>1. Len(s) \in Nat /\ DOMAIN s = 1 .. Len(s) /\ DOMAIN t = 1 .. Len(s) + 1 /\ t[Len(s) + 1] = f
      /\ \A i \in 1 .. Len(s) : t[i] = s[i]
  OBVIOUS
<1>2. {i \in DOMAIN t : t[i].kind = "usage"} = {i \in DOMAIN s : s[i].kind = "usage"}
  BY <1>1
<1>3. \A i \in {j \in DOMAIN s : s[j].kind = "usage"} : t[i] = s[i]
  BY <1>1
<1>4. QED
  BY <1>2, <1>3 DEF MeterFollows

LEMMA MeterMoves ==
    ASSUME NEW s \in Seq(FrameTypes), NEW f \in FrameTypes, NEW t, t = Append(s, f), f.kind = "usage"
    PROVE  MeterFollows(t, f.n)
<1>1. Len(s) \in Nat /\ DOMAIN t = 1 .. Len(s) + 1 /\ t[Len(s) + 1] = f
  OBVIOUS
<1>2. Len(s) + 1 \in {i \in DOMAIN t : t[i].kind = "usage"}
      /\ \A j \in {i \in DOMAIN t : t[i].kind = "usage"} : j <= Len(s) + 1
  BY <1>1
<1>3. QED
  BY <1>1, <1>2 DEF MeterFollows

LEMMA AskedStays ==
    ASSUME NEW s \in Seq(FrameTypes), NEW f \in FrameTypes, NEW t, t = Append(s, f), NEW n,
           AskedFollows(s, n), f.kind \notin {"start", "usage"}
    PROVE  AskedFollows(t, n)
<1>1. Len(s) \in Nat /\ DOMAIN s = 1 .. Len(s) /\ DOMAIN t = 1 .. Len(s) + 1 /\ t[Len(s) + 1] = f
      /\ \A i \in 1 .. Len(s) : t[i] = s[i]
  OBVIOUS
<1>2. QED
  BY <1>1 DEF AskedFollows

\* What a reader makes of a frame of each kind.
LEMMA EventsOfFrames ==
    ASSUME NEW r \in Requests, vendor[r] \in Vendors, NEW f, NEW e, e = parsed(r, f)
    PROVE  /\ f.kind = "text" => e = event("TextDelta", f, running[r])
           /\ f.kind = "usage" =>
                 e = event("Usage", f, IF vendor[r] = "anthropic" THEN running[r] ELSE Asked)
           /\ f.kind = "start" /\ vendor[r] = "anthropic" => e = event("MessageStart", f, Asked)
           /\ f.kind = "noise" => e = event("filter", f, running[r])
           /\ f.kind = "error" =>
                 e = event(IF vendor[r] = "anthropic" THEN "Error" ELSE "filter", f, running[r])
           /\ f.kind \in {"bad", "lost"} => e = event("Err", f, running[r])
           /\ f.kind \in {"stop", "end"} => e = event("MessageStop", f, running[r])
<1>1. CASE vendor[r] = "anthropic"
  BY <1>1 DEF parsed, anthropic_stream, closing
<1>2. CASE vendor[r] # "anthropic"
  BY <1>2 DEF parsed, openai_stream, closing
<1>3. QED
  BY <1>1, <1>2

\* An event has what it was made of.
LEMMA EventHas ==
    ASSUME NEW name, NEW f, NEW n, NEW e, e = event(name, f, n)
    PROVE  e.event = name /\ e.n = f.n /\ e.tokens_in = n
  BY DEF event

\* What one frame does to an answer.
LEMMA AnswerGrows ==
    ASSUME NEW r \in Requests, vendor[r] \in Vendors, sent[r] \in Seq(FrameTypes), acc[r] \in AccTypes,
           running[r] \in Nat, AnswerFollows(sent[r], acc[r]),
           vendor[r] = "anthropic" /\ sent[r] # <<>> => running[r] = Asked,
           NEW k \in Kinds("anthropic"), may_follow(vendor[r], sent[r], k),
           NEW f, f = frame(k, sent[r]), NEW e, e = parsed(r, f),
           NEW t, t = Append(sent[r], f)
    PROVE  /\ t \in Seq(FrameTypes) /\ t # <<>>
           /\ e.event = "filter" =>
                 AnswerFollows(t, acc[r]) /\ (vendor[r] = "anthropic" => running[r] = Asked)
           /\ e.event \notin {"filter", "Err", "Error"} =>
                 /\ AnswerFollows(t, apply(acc[r], e)) /\ apply(acc[r], e) \in AccTypes
                 /\ e.tokens_in \in Nat
                 /\ vendor[r] = "anthropic" /\ e.event # "MessageStop" => e.tokens_in = Asked
<1>1. Cardinality(texts(sent[r])) \in Nat
  BY TextsAreCounted
<1>2. f.kind = k /\ f \in FrameTypes /\ f.n = Cardinality(texts(sent[r])) + (IF k = "text" THEN 1 ELSE 0)
  BY <1>1 DEF frame, FrameTypes
<1>3. t \in Seq(FrameTypes) /\ t # <<>>
  BY <1>2
<1>4. Cardinality(texts(t)) = Cardinality(texts(sent[r])) + (IF k = "text" THEN 1 ELSE 0)
  BY <1>2, TextsGrow
<1>5. /\ acc[r].text = [n \in 1 .. Cardinality(texts(sent[r])) |-> n]
      /\ MeterFollows(sent[r], acc[r].tokens_out) /\ AskedFollows(sent[r], acc[r].tokens_in)
  BY DEF AnswerFollows
<1>6. k \in {"text", "usage", "noise", "error", "bad", "stop", "end", "lost", "start"}
  BY DEF Kinds
\* The first frame of Anthropic's that is not the last tells what was asked.
<1>7. vendor[r] = "anthropic" /\ k \in {"text", "usage", "noise"} => running[r] = Asked
  BY DEF may_follow, Closings
<1>8. k = "start" => vendor[r] = "anthropic"
  BY DEF may_follow, Kinds
<1>9. Asked \in Nat
  BY DEF Asked
\* A frame that is neither text nor a report changes nothing.
<1>10. k \notin {"text", "usage", "start"} => AnswerFollows(t, acc[r])
  <2> SUFFICES ASSUME k \notin {"text", "usage", "start"} PROVE AnswerFollows(t, acc[r])
    OBVIOUS
  <2>1. Cardinality(texts(t)) = Cardinality(texts(sent[r]))
    BY <1>1, <1>4
  <2>2. f \in FrameTypes /\ f.kind # "usage" /\ f.kind \notin {"start", "usage"}
    BY <1>2
  <2>3. MeterFollows(t, acc[r].tokens_out)
    <3>1. f \in FrameTypes /\ f.kind # "usage" /\ MeterFollows(sent[r], acc[r].tokens_out)
      BY <1>5, <2>2
    <3>2. QED
      BY <3>1, MeterStays
  <2>4. AskedFollows(t, acc[r].tokens_in)
    BY <1>5, <2>2, AskedStays
  <2>5. QED
    BY <1>5, <2>1, <2>3, <2>4 DEF AnswerFollows
<1>11. CASE k = "text"
  <2>1. e.event = "TextDelta" /\ e.n = f.n /\ e.tokens_in = running[r]
    BY <1>2, <1>11, EventsOfFrames, EventHas
  <2>2. PICK a : a = [acc[r] EXCEPT !.text = Append(@, e.n)]
    OBVIOUS
  <2>3. apply(acc[r], e) = a
    BY <2>1, <2>2 DEF apply
  <2>4. a.text = Append(acc[r].text, e.n) /\ a.tokens_in = acc[r].tokens_in
        /\ a.tokens_out = acc[r].tokens_out
    BY <2>2 DEF AccTypes
  <2>5. a \in AccTypes
    <3>1. e.n \in Nat /\ acc[r].text \in Seq(Nat)
      BY <1>1, <1>2, <2>1 DEF AccTypes
    <3>2. Append(acc[r].text, e.n) \in Seq(Nat)
      BY <3>1
    <3>3. PICK text : text = Append(acc[r].text, e.n)
      OBVIOUS
    <3>4. a = [acc[r] EXCEPT !.text = text]
      BY <2>2, <3>3
    <3>5. QED
      BY <3>2, <3>3, <3>4 DEF AccTypes
  <2>6. a.text = [n \in 1 .. Cardinality(texts(t)) |-> n]
    <3>1. PICK m \in Nat : m = Cardinality(texts(sent[r]))
      BY <1>1
    <3>2. e.n = m + 1 /\ Cardinality(texts(t)) = m + 1
      BY <1>2, <1>4, <1>11, <2>1, <3>1
    <3>3. Append([n \in 1 .. m |-> n], m + 1) = [n \in 1 .. m + 1 |-> n]
      OBVIOUS
    <3>4. QED
      BY <1>5, <2>4, <3>1, <3>2, <3>3
  <2>7. MeterFollows(t, a.tokens_out) /\ AskedFollows(t, a.tokens_in)
    BY <1>2, <1>5, <1>11, <2>4, MeterStays, AskedStays
  <2>8. QED
    BY <1>3, <1>7, <1>11, <2>1, <2>3, <2>5, <2>6, <2>7 DEF AnswerFollows
<1>12. CASE k = "usage"
  <2>1. e.event = "Usage" /\ e.n = f.n /\ e.tokens_in = Asked
    BY <1>2, <1>7, <1>12, EventsOfFrames, EventHas
  <2>2. PICK a : a = [acc[r] EXCEPT !.tokens_in = e.tokens_in, !.tokens_out = e.n]
    OBVIOUS
  <2>3. apply(acc[r], e) = a
    BY <2>1, <2>2 DEF apply
  <2>4. a.text = acc[r].text /\ a.tokens_in = Asked /\ a.tokens_out = f.n
    BY <2>1, <2>2 DEF AccTypes
  <2>5. a \in AccTypes
    <3>1. e.n \in Nat /\ e.tokens_in \in Nat
      BY <1>1, <1>2, <1>9, <2>1 DEF FrameTypes
    <3>2. PICK b : b = [acc[r] EXCEPT !.tokens_in = e.tokens_in]
      OBVIOUS
    <3>3. b \in AccTypes
      BY <3>1, <3>2 DEF AccTypes
    <3>4. a = [b EXCEPT !.tokens_out = e.n]
      BY <2>2, <3>2
    <3>5. QED
      BY <3>1, <3>3, <3>4 DEF AccTypes
  <2>6. a.text = [n \in 1 .. Cardinality(texts(t)) |-> n]
    BY <1>1, <1>4, <1>5, <1>12, <2>4
  <2>7. MeterFollows(t, a.tokens_out) /\ AskedFollows(t, a.tokens_in)
    BY <1>2, <1>12, <2>4, MeterMoves DEF AskedFollows
  <2>8. QED
    BY <1>3, <1>9, <1>12, <2>1, <2>3, <2>5, <2>6, <2>7 DEF AnswerFollows
<1>13. CASE k = "start"
  <2>1. e.event = "MessageStart" /\ e.tokens_in = Asked
    BY <1>2, <1>8, <1>13, EventsOfFrames, EventHas
  <2>2. PICK a : a = [acc[r] EXCEPT !.tokens_in = e.tokens_in]
    OBVIOUS
  <2>3. apply(acc[r], e) = a
    BY <2>1, <2>2 DEF apply
  <2>4. a.text = acc[r].text /\ a.tokens_in = Asked /\ a.tokens_out = acc[r].tokens_out
    BY <2>1, <2>2 DEF AccTypes
  <2>5. a \in AccTypes
    BY <1>9, <2>1, <2>2 DEF AccTypes
  <2>6. a.text = [n \in 1 .. Cardinality(texts(t)) |-> n]
    BY <1>1, <1>4, <1>5, <1>13, <2>4
  <2>7. MeterFollows(t, a.tokens_out) /\ AskedFollows(t, a.tokens_in)
    BY <1>2, <1>5, <1>13, <2>4, MeterStays DEF AskedFollows
  <2>8. QED
    BY <1>3, <1>9, <1>13, <2>1, <2>3, <2>5, <2>6, <2>7 DEF AnswerFollows
<1>14. CASE k \in {"stop", "end"}
  <2>1. e.event = "MessageStop" /\ e.tokens_in = running[r]
    BY <1>2, <1>14, EventsOfFrames, EventHas
  <2>2. apply(acc[r], e) = acc[r]
    BY <2>1 DEF apply
  <2>3. QED
    BY <1>3, <1>10, <1>14, <2>1, <2>2
<1>15. CASE k \in {"bad", "lost"}
  <2>1. e.event = "Err"
    BY <1>2, <1>15, EventsOfFrames, EventHas
  <2>2. QED
    BY <1>3, <2>1
<1>16. CASE k \in {"noise", "error"}
  <2>1. e.event = "filter" \/ (e.event = "Error" /\ vendor[r] = "anthropic")
    BY <1>2, <1>16, EventsOfFrames, EventHas
  <2>2. k = "error" /\ vendor[r] = "anthropic" => e.event = "Error"
    BY <1>2, EventsOfFrames, EventHas
  <2>3. QED
    BY <1>3, <1>7, <1>10, <1>16, <2>1, <2>2
<1>17. QED
  BY <1>6, <1>11, <1>12, <1>13, <1>14, <1>15, <1>16

\* Nothing has come of a question that was just sent.
LEMMA NothingHasCome ==
    AnswerFollows(<<>>, [text |-> <<>>, tokens_in |-> 0, tokens_out |-> 0])
<1>1. texts(<<>>) = {}
  BY DEF texts
<1>2. Cardinality(texts(<<>>)) = 0
  BY <1>1, FS_EmptySet
<1>3. <<>> = [n \in 1 .. 0 |-> n]
  OBVIOUS
<1>4. QED
  BY <1>2, <1>3 DEF AnswerFollows, MeterFollows, AskedFollows

\* No answer looks like one that was not pressed.
LEMMA TextsAreNoMark ==
    ASSUME NEW frames \in Seq(FrameTypes), NEW a, AnswerFollows(frames, a)
    PROVE  a.text # NotPressed
<1>1. PICK m \in Nat : m = Cardinality(texts(frames))
  BY TextsAreCounted
<1>2. a.text = [n \in 1 .. m |-> n]
  BY <1>1 DEF AnswerFollows
<1>3. QED
  BY <1>2 DEF NotPressed

\* The question is sent: whoever had pressed Cancel lost the flag.
LEMMA BeginningKeeps ==
    ASSUME StreamInv, NEW r \in Requests, phase[r] \in Before, begin(r),
           UNCHANGED <<vendor, sent, running, acc, pressed>>
    PROVE  /\ phase' \in [Requests -> Before \union {"streaming"} \union Outcomes]
           /\ phase'[r] = "streaming" /\ \A q \in Requests : q # r => phase'[q] = phase[q]
           /\ cancel' \in BOOLEAN /\ cleared' \in [Requests -> BOOLEAN]
           /\ \A q \in Requests : AnswerSoFar(q)' /\ CancelSeen(q)'
<1>1. StreamTypes
  BY DEF StreamInv
<1>2. phase' \in [Requests -> Before \union {"streaming"} \union Outcomes]
      /\ phase'[r] = "streaming" /\ \A q \in Requests : q # r => phase'[q] = phase[q]
  BY <1>1 DEF StreamTypes, begin, begun
<1>3. cancel' = FALSE
  BY DEF begin
<1>4. cleared' = [q \in Requests |-> cleared[q] \/ (q # r /\ pressed[q] # NotPressed)]
  BY DEF begin, begun
<1>5. cleared' \in [Requests -> BOOLEAN]
  BY <1>4
<1>6. \A q \in Requests : q # r /\ pressed[q] # NotPressed => cleared'[q]
  BY <1>4
<1>7. ASSUME NEW q \in Requests PROVE AnswerSoFar(q)'
  <2>1. AnswerSoFar(q)
    BY DEF StreamInv
  <2>2. CASE q = r
    <3>1. sent[r] = <<>> /\ acc[r] = [text |-> <<>>, tokens_in |-> 0, tokens_out |-> 0]
      BY <2>1, <2>2 DEF AnswerSoFar
    <3>2. AnswerFollows(sent[r], acc[r])
      BY <3>1, NothingHasCome
    <3>3. QED
      BY <1>2, <2>2, <3>1, <3>2 DEF AnswerSoFar, Before, AnswerFollows
  <2>3. CASE q # r
    BY <1>2, <2>1, <2>3 DEF AnswerSoFar, AnswerFollows
  <2>4. QED
    BY <2>2, <2>3
<1>8. ASSUME NEW q \in Requests PROVE CancelSeen(q)'
  <2>1. CancelSeen(q)
    BY DEF StreamInv
  <2>2. CASE q = r
    <3>1. pressed'[q] = NotPressed
      BY <2>1, <2>2 DEF CancelSeen
    <3>2. QED
      BY <1>2, <1>3, <2>2, <3>1 DEF CancelSeen, Before
  <2>3. CASE q # r
    <3>1. phase'[q] = phase[q] /\ pressed'[q] = pressed[q] /\ acc'[q] = acc[q]
      BY <1>2, <2>3
    <3>2. pressed[q] # NotPressed => cleared'[q]
      BY <1>6, <2>3
    <3>3. QED
      BY <1>3, <2>1, <3>1, <3>2 DEF CancelSeen
  <2>4. QED
    BY <2>2, <2>3
<1>9. QED
  BY <1>2, <1>3, <1>5, <1>7, <1>8

LEMMA StreamStepKeeps ==
    ASSUME StreamInv, StreamNext
    PROVE  StreamInv'
<1>1. StreamTypes
  BY DEF StreamInv
<1>2. \A q \in Requests : AnswerSoFar(q) /\ CancelSeen(q) /\ PromptSoFar(q)
  BY DEF StreamInv
<1>3. CASE cancel_ai
  <2>1. UNCHANGED <<phase, vendor, described, warnings, prompt, sent, running, acc, cleared>>
        /\ cancel' = TRUE
    BY <1>3 DEF cancel_ai
  <2>2. pressed' = [q \in Requests |->
            IF phase[q] = "streaming" /\ pressed[q] = NotPressed THEN acc[q].text ELSE pressed[q]]
    BY <1>3 DEF cancel_ai
  <2>3. \A q \in Requests : acc[q].text \in Seq(Nat)
    BY <1>1 DEF StreamTypes, AccTypes
  <2>4. pressed' \in [Requests -> Seq(Nat)]
    BY <1>1, <2>2, <2>3 DEF StreamTypes
  <2>5. StreamTypes'
    BY <1>1, <2>1, <2>4 DEF StreamTypes
  <2>6. ASSUME NEW q \in Requests PROVE CancelSeen(q)'
    <3>1. CancelSeen(q) /\ AnswerSoFar(q)
      BY <1>2
    <3>2. CASE phase[q] = "streaming" /\ pressed[q] = NotPressed
      <4>1. pressed'[q] = acc[q].text
        BY <2>2, <3>2
      <4>2. AnswerFollows(sent[q], acc[q]) /\ sent[q] \in Seq(FrameTypes)
        BY <1>1, <3>1, <3>2 DEF AnswerSoFar, StreamTypes
      <4>3. acc[q].text # NotPressed
        BY <4>2, TextsAreNoMark
      <4>4. QED
        BY <2>1, <3>2, <4>1, <4>3 DEF CancelSeen, Before
    <3>3. CASE ~ (phase[q] = "streaming" /\ pressed[q] = NotPressed)
      <4>1. pressed'[q] = pressed[q]
        BY <2>2, <3>3
      <4>2. QED
        BY <2>1, <3>1, <3>3, <4>1 DEF CancelSeen
    <3>4. QED
      BY <3>2, <3>3
  <2>7. \A q \in Requests : AnswerSoFar(q)' /\ PromptSoFar(q)'
    BY <1>2, <2>1 DEF AnswerSoFar, AnswerFollows, PromptSoFar
  <2>8. QED
    BY <2>5, <2>6, <2>7 DEF StreamInv
<1>4. ASSUME NEW r \in Requests, ai_explain(r) PROVE StreamInv'
  <2>1. phase[r] = "idle" /\ begin(r)
        /\ UNCHANGED <<vendor, described, warnings, prompt, sent, running, acc, pressed>>
    BY <1>4 DEF ai_explain
  <2>2. /\ phase' \in [Requests -> Before \union {"streaming"} \union Outcomes]
        /\ phase'[r] = "streaming" /\ \A q \in Requests : q # r => phase'[q] = phase[q]
        /\ cancel' \in BOOLEAN /\ cleared' \in [Requests -> BOOLEAN]
        /\ \A q \in Requests : AnswerSoFar(q)' /\ CancelSeen(q)'
    BY <2>1, BeginningKeeps DEF Before
  <2>3. ASSUME NEW q \in Requests PROVE PromptSoFar(q)'
    BY <1>2, <2>1, <2>2 DEF PromptSoFar, Before
  <2>4. StreamTypes'
    BY <1>1, <2>1, <2>2 DEF StreamTypes
  <2>5. QED
    BY <2>2, <2>3, <2>4 DEF StreamInv
<1>5. ASSUME NEW r \in Requests, NEW b \in BOOLEAN, ai_suggest(r, b) PROVE StreamInv'
  <2>1. phase[r] = "idle" /\ UNCHANGED <<vendor, described, warnings, sent, running, acc, pressed>>
    BY <1>5 DEF ai_suggest
  <2>2. CASE phase' = [phase EXCEPT ![r] = "describing"] /\ UNCHANGED <<prompt, cancel, cleared>>
    <3>1. phase' \in [Requests -> Before \union {"streaming"} \union Outcomes]
          /\ phase'[r] = "describing" /\ \A q \in Requests : q # r => phase'[q] = phase[q]
      BY <1>1, <2>2 DEF StreamTypes, Before
    <3>2. StreamTypes'
      BY <1>1, <2>1, <2>2, <3>1 DEF StreamTypes
    <3>3. ASSUME NEW q \in Requests PROVE AnswerSoFar(q)' /\ CancelSeen(q)' /\ PromptSoFar(q)'
      <4>1. AnswerSoFar(q) /\ CancelSeen(q) /\ PromptSoFar(q)
        BY <1>2
      <4>2. CASE q = r
        BY <2>1, <2>2, <3>1, <4>1, <4>2 DEF AnswerSoFar, CancelSeen, PromptSoFar, Before
      <4>3. CASE q # r
        BY <2>1, <2>2, <3>1, <4>1, <4>3 DEF AnswerSoFar, AnswerFollows, CancelSeen, PromptSoFar
      <4>4. QED
        BY <4>2, <4>3
    <3>4. QED
      BY <3>2, <3>3 DEF StreamInv
  <2>3. CASE begin(r) /\ prompt' = [prompt EXCEPT ![r] = suggested({})]
    <3>1. /\ phase' \in [Requests -> Before \union {"streaming"} \union Outcomes]
          /\ phase'[r] = "streaming" /\ \A q \in Requests : q # r => phase'[q] = phase[q]
          /\ cancel' \in BOOLEAN /\ cleared' \in [Requests -> BOOLEAN]
          /\ \A q \in Requests : AnswerSoFar(q)' /\ CancelSeen(q)'
      BY <2>1, <2>3, BeginningKeeps DEF Before
    <3>2. prompt' = [prompt EXCEPT ![r] = Tables]
      BY <2>3 DEF suggested
    <3>3. prompt' \in [Requests -> SUBSET Tables] /\ prompt'[r] = Tables
          /\ \A q \in Requests : q # r => prompt'[q] = prompt[q]
      BY <1>1, <3>2 DEF StreamTypes
    <3>4. ASSUME NEW q \in Requests PROVE PromptSoFar(q)'
      <4>1. CASE q = r
        <5>1. warnings'[r] = {}
          BY <1>2, <2>1 DEF PromptSoFar
        <5>2. QED
          BY <3>1, <3>3, <4>1, <5>1 DEF PromptSoFar, Before
      <4>2. CASE q # r
        BY <1>2, <2>1, <3>1, <3>3, <4>2 DEF PromptSoFar
      <4>3. QED
        BY <4>1, <4>2
    <3>5. StreamTypes'
      BY <1>1, <2>1, <3>1, <3>3 DEF StreamTypes
    <3>6. QED
      BY <3>1, <3>4, <3>5 DEF StreamInv
  <2>4. QED
    BY <1>5, <2>2, <2>3 DEF ai_suggest
<1>6. ASSUME NEW r \in Requests, NEW t \in Tables, describe(r, t) PROVE StreamInv'
  <2>1. PICK rest : rest = Tables \ (described[r] \union warnings[r])
    OBVIOUS
  <2>2. phase[r] = "describing" /\ t \in rest /\ UNCHANGED <<vendor, sent, running, acc, pressed>>
    BY <1>6, <2>1 DEF describe
  <2>3. \/ described' = [described EXCEPT ![r] = @ \union {t}] /\ UNCHANGED warnings
        \/ warnings' = [warnings EXCEPT ![r] = @ \union {t}] /\ UNCHANGED described
    BY <1>6 DEF describe
  <2>4. /\ described' \in [Requests -> SUBSET Tables] /\ warnings' \in [Requests -> SUBSET Tables]
        /\ \A q \in Requests : q # r => described'[q] = described[q] /\ warnings'[q] = warnings[q]
        /\ described'[r] \union warnings'[r] = described[r] \union warnings[r] \union {t}
    <3>1. described \in [Requests -> SUBSET Tables] /\ warnings \in [Requests -> SUBSET Tables]
      BY <1>1 DEF StreamTypes
    <3>2. CASE described' = [described EXCEPT ![r] = @ \union {t}] /\ UNCHANGED warnings
      BY <3>1, <3>2
    <3>3. CASE warnings' = [warnings EXCEPT ![r] = @ \union {t}] /\ UNCHANGED described
      BY <3>1, <3>3
    <3>4. QED
      BY <2>3, <3>2, <3>3
  <2>5. CASE rest = {t}
    <3>1. begin(r) /\ prompt' = [prompt EXCEPT ![r] = suggested(described'[r])]
      BY <1>6, <2>1, <2>5 DEF describe
    <3>2. /\ phase' \in [Requests -> Before \union {"streaming"} \union Outcomes]
          /\ phase'[r] = "streaming" /\ \A q \in Requests : q # r => phase'[q] = phase[q]
          /\ cancel' \in BOOLEAN /\ cleared' \in [Requests -> BOOLEAN]
          /\ \A q \in Requests : AnswerSoFar(q)' /\ CancelSeen(q)'
      BY <2>2, <3>1, BeginningKeeps DEF Before
    <3>3. prompt'[r] = suggested(described'[r]) /\ suggested(described'[r]) \in SUBSET Tables
          /\ \A q \in Requests : q # r => prompt'[q] = prompt[q]
      BY <1>1, <2>4, <3>1 DEF StreamTypes, suggested
    <3>4. prompt' \in [Requests -> SUBSET Tables]
      BY <1>1, <3>1, <3>3 DEF StreamTypes
    <3>5. Tables \subseteq prompt'[r] \union warnings'[r] /\ prompt'[r] # {}
      BY <2>1, <2>2, <2>4, <2>5, <3>3 DEF suggested
    <3>6. ASSUME NEW q \in Requests PROVE PromptSoFar(q)'
      <4>1. CASE q = r
        BY <3>2, <3>5, <4>1 DEF PromptSoFar, Before
      <4>2. CASE q # r
        BY <1>2, <2>4, <3>2, <3>3, <4>2 DEF PromptSoFar
      <4>3. QED
        BY <4>1, <4>2
    <3>7. StreamTypes'
      BY <1>1, <2>2, <2>4, <3>2, <3>4 DEF StreamTypes
    <3>8. QED
      BY <3>2, <3>6, <3>7 DEF StreamInv
  <2>6. CASE rest # {t}
    <3>1. UNCHANGED <<phase, cancel, cleared, prompt>>
      BY <1>6, <2>1, <2>6 DEF describe
    <3>2. ASSUME NEW q \in Requests PROVE AnswerSoFar(q)' /\ CancelSeen(q)'
      BY <1>2, <2>2, <3>1 DEF AnswerSoFar, AnswerFollows, CancelSeen
    <3>3. ASSUME NEW q \in Requests PROVE PromptSoFar(q)'
      <4>1. CASE q = r
        BY <1>2, <2>2, <3>1, <4>1 DEF PromptSoFar, Before
      <4>2. CASE q # r
        BY <1>2, <2>4, <3>1, <4>2 DEF PromptSoFar
      <4>3. QED
        BY <4>1, <4>2
    <3>4. StreamTypes'
      BY <1>1, <2>2, <2>4, <3>1 DEF StreamTypes
    <3>5. QED
      BY <3>2, <3>3, <3>4 DEF StreamInv
  <2>7. QED
    BY <2>5, <2>6
<1>7. ASSUME NEW r \in Requests, NEW k \in Kinds("anthropic"), drive_stream(r, k) PROVE StreamInv'
  <2>1. PICK f, e : f = frame(k, sent[r]) /\ e = parsed(r, f)
    OBVIOUS
  <2>2. /\ phase[r] = "streaming" /\ may_follow(vendor[r], sent[r], k)
        /\ sent' = [sent EXCEPT ![r] = Append(@, f)]
        /\ IF e.event = "filter" THEN UNCHANGED <<phase, acc, running>> ELSE taken(r, e)
        /\ UNCHANGED <<vendor, described, warnings, prompt, cancel, pressed, cleared>>
    BY <1>7, <2>1 DEF drive_stream, served
  <2>3. PICK s : s = Append(sent[r], f)
    OBVIOUS
  <2>4. AnswerSoFar(r) /\ CancelSeen(r) /\ PromptSoFar(r)
    BY <1>2
  <2>5. /\ vendor[r] \in Vendors /\ sent[r] \in Seq(FrameTypes) /\ acc[r] \in AccTypes
        /\ running[r] \in Nat /\ AnswerFollows(sent[r], acc[r])
        /\ vendor[r] = "anthropic" /\ sent[r] # <<>> => running[r] = Asked
    BY <1>1, <2>2, <2>4 DEF StreamTypes, AnswerSoFar
  <2>6. /\ s \in Seq(FrameTypes) /\ s # <<>>
        /\ e.event = "filter" =>
              AnswerFollows(s, acc[r]) /\ (vendor[r] = "anthropic" => running[r] = Asked)
        /\ e.event \notin {"filter", "Err", "Error"} =>
              /\ AnswerFollows(s, apply(acc[r], e)) /\ apply(acc[r], e) \in AccTypes
              /\ e.tokens_in \in Nat
              /\ vendor[r] = "anthropic" /\ e.event # "MessageStop" => e.tokens_in = Asked
    BY <2>1, <2>2, <2>3, <2>5, AnswerGrows
  <2>7. sent' \in [Requests -> Seq(FrameTypes)] /\ sent'[r] = s
        /\ \A q \in Requests : q # r => sent'[q] = sent[q]
    BY <1>1, <2>2, <2>3, <2>6 DEF StreamTypes
  \* What remains to be said of r.
  <2>8. ASSUME /\ phase' \in [Requests -> Before \union {"streaming"} \union Outcomes]
               /\ acc' \in [Requests -> AccTypes] /\ running' \in [Requests -> Nat]
               /\ \A q \in Requests : q # r =>
                     phase'[q] = phase[q] /\ acc'[q] = acc[q] /\ running'[q] = running[q]
               /\ AnswerSoFar(r)' /\ CancelSeen(r)' /\ phase'[r] \notin Before
        PROVE  StreamInv'
    <3>1. StreamTypes'
      BY <1>1, <2>2, <2>7, <2>8 DEF StreamTypes
    <3>2. ASSUME NEW q \in Requests, q # r PROVE AnswerSoFar(q)' /\ CancelSeen(q)' /\ PromptSoFar(q)'
      <4>1. AnswerSoFar(q) /\ CancelSeen(q) /\ PromptSoFar(q)
        BY <1>2
      <4>2. AnswerSoFar(q)'
        BY <2>2, <2>7, <2>8, <3>2, <4>1 DEF AnswerSoFar, AnswerFollows
      <4>3. CancelSeen(q)' /\ PromptSoFar(q)'
        BY <2>2, <2>8, <3>2, <4>1 DEF CancelSeen, PromptSoFar
      <4>4. QED
        BY <4>2, <4>3
    <3>3. PromptSoFar(r)'
      BY <2>2, <2>4, <2>8 DEF PromptSoFar, Before
    <3>4. QED
      BY <2>8, <3>1, <3>2, <3>3 DEF StreamInv
  \* One that fails or is cancelled says nothing of what came.
  <2>9. ASSUME NEW outcome \in {"failed", "cancelled"}, done(r, outcome),
               outcome = "cancelled" => pressed[r] # NotPressed
        PROVE  StreamInv'
    <3>1. phase' = [phase EXCEPT ![r] = outcome] /\ UNCHANGED <<acc, running>>
      BY <2>9 DEF done
    <3>2. phase' \in [Requests -> Before \union {"streaming"} \union Outcomes] /\ phase'[r] = outcome
          /\ \A q \in Requests : q # r => phase'[q] = phase[q]
      BY <1>1, <3>1 DEF StreamTypes, Outcomes
    <3>3. AnswerSoFar(r)' /\ phase'[r] \notin Before
      BY <3>2 DEF AnswerSoFar, Before
    <3>4. CancelSeen(r)'
      BY <2>2, <2>4, <2>9, <3>1, <3>2 DEF CancelSeen, Before
    <3>5. QED
      BY <1>1, <2>8, <3>1, <3>2, <3>3, <3>4 DEF StreamTypes
  <2>10. CASE e.event = "filter"
    <3>1. UNCHANGED <<phase, acc, running>>
      BY <2>2, <2>10
    <3>2. AnswerFollows(s, acc[r]) /\ (vendor[r] = "anthropic" => running[r] = Asked)
      BY <2>6, <2>10
    <3>3. AnswerFollows(sent'[r], acc'[r])
      BY <2>7, <3>1, <3>2
    <3>4. AnswerSoFar(r)'
      BY <2>2, <3>1, <3>2, <3>3 DEF AnswerSoFar, Before, AnswerFollows
    <3>5. CancelSeen(r)'
      BY <2>2, <2>4, <3>1 DEF CancelSeen
    <3>6. phase'[r] \notin Before
      BY <2>2, <3>1 DEF Before
    <3>7. QED
      BY <1>1, <2>8, <3>1, <3>4, <3>5, <3>6 DEF StreamTypes
  <2>11. CASE e.event # "filter" /\ cancel
    <3>1. done(r, "cancelled")
      BY <2>2, <2>11 DEF taken
    <3>2. pressed[r] # NotPressed
      BY <2>2, <2>4, <2>11 DEF CancelSeen
    <3>3. QED
      BY <2>9, <3>1, <3>2
  <2>12. CASE e.event \in {"Err", "Error"} /\ ~ cancel
    <3>1. done(r, "failed")
      BY <2>2, <2>12 DEF taken
    <3>2. QED
      BY <2>9, <3>1
  <2>13. CASE e.event \notin {"filter", "Err", "Error"} /\ ~ cancel
    <3>1. PICK a, p : a = apply(acc[r], e)
                      /\ p = IF e.event = "MessageStop" THEN "answered" ELSE phase[r]
      OBVIOUS
    <3>2. acc' = [acc EXCEPT ![r] = a] /\ running' = [running EXCEPT ![r] = e.tokens_in]
          /\ phase' = [phase EXCEPT ![r] = p]
      BY <2>2, <2>13, <3>1 DEF taken
    <3>3. a \in AccTypes /\ AnswerFollows(s, a) /\ e.tokens_in \in Nat
          /\ (vendor[r] = "anthropic" /\ e.event # "MessageStop" => e.tokens_in = Asked)
      BY <2>6, <2>13, <3>1
    <3>4. p \in {"streaming", "answered"} /\ (p = "streaming" => e.event # "MessageStop")
      BY <2>2, <3>1
    <3>5. phase' \in [Requests -> Before \union {"streaming"} \union Outcomes] /\ phase'[r] = p
          /\ \A q \in Requests : q # r => phase'[q] = phase[q]
      BY <1>1, <3>2, <3>4 DEF StreamTypes, Outcomes
    <3>6. acc' \in [Requests -> AccTypes] /\ acc'[r] = a
          /\ \A q \in Requests : q # r => acc'[q] = acc[q]
      BY <1>1, <3>2, <3>3 DEF StreamTypes
    <3>7. running' \in [Requests -> Nat] /\ running'[r] = e.tokens_in
          /\ \A q \in Requests : q # r => running'[q] = running[q]
      BY <1>1, <3>2, <3>3 DEF StreamTypes
    <3>8. AnswerFollows(sent'[r], acc'[r])
      BY <2>7, <3>3, <3>6
    <3>9. AnswerSoFar(r)'
      <4>1. phase'[r] = "streaming" /\ vendor[r] = "anthropic" => running'[r] = Asked
        BY <3>3, <3>4, <3>5, <3>7
      <4>2. phase'[r] \notin Before
        BY <3>4, <3>5 DEF Before
      <4>3. QED
        BY <2>2, <3>8, <4>1, <4>2 DEF AnswerSoFar, AnswerFollows
    \* Nobody had pressed for it, or another question cleared the flag.
    <3>10. CancelSeen(r)'
      <4>1. pressed[r] = NotPressed \/ cleared[r]
        BY <2>2, <2>4, <2>13 DEF CancelSeen
      <4>2. phase'[r] \notin Before \union {"cancelled"}
        BY <3>4, <3>5 DEF Before
      <4>3. ~ cancel'
        BY <2>2, <2>13
      <4>4. QED
        BY <2>2, <4>1, <4>2, <4>3 DEF CancelSeen
    <3>11. phase'[r] \notin Before
      BY <3>4, <3>5 DEF Before
    <3>12. QED
      BY <2>8, <3>5, <3>6, <3>7, <3>9, <3>10, <3>11
  <2>14. QED
    BY <2>10, <2>11, <2>12, <2>13
<1>8. QED
  BY <1>3, <1>4, <1>5, <1>6, <1>7 DEF StreamNext

LEMMA StreamSafe == StreamSpec => []StreamInv
<1>1. StreamInit => StreamInv
  <2> SUFFICES ASSUME StreamInit PROVE StreamInv
    OBVIOUS
  <2>1. <<>> \in Seq(Nat) /\ <<>> \in Seq(FrameTypes) /\ NotPressed \in Seq(Nat)
    BY DEF NotPressed
  <2>2. acc \in [Requests -> AccTypes]
    BY <2>1 DEF StreamInit, AccTypes
  <2>3. pressed \in [Requests -> Seq(Nat)] /\ sent \in [Requests -> Seq(FrameTypes)]
    BY <2>1 DEF StreamInit
  <2>4. StreamTypes
    BY <2>2, <2>3 DEF StreamInit, StreamTypes, Before
  <2>5. ASSUME NEW r \in Requests PROVE AnswerSoFar(r) /\ CancelSeen(r) /\ PromptSoFar(r)
    BY DEF StreamInit, AnswerSoFar, CancelSeen, PromptSoFar, Before
  <2>6. QED
    BY <2>4, <2>5 DEF StreamInv
<1>2. ASSUME StreamInv, [StreamNext]_StreamVars PROVE StreamInv'
  <2>1. CASE StreamNext
    BY <1>2, <2>1, StreamStepKeeps
  <2>2. CASE UNCHANGED StreamVars
    <3>1. StreamTypes'
      BY <1>2, <2>2 DEF StreamInv, StreamTypes, StreamVars
    <3>2. ASSUME NEW r \in Requests PROVE AnswerSoFar(r)' /\ CancelSeen(r)' /\ PromptSoFar(r)'
      BY <1>2, <2>2 DEF StreamInv, StreamVars, AnswerSoFar, AnswerFollows, CancelSeen, PromptSoFar
    <3>3. QED
      BY <3>1, <3>2 DEF StreamInv
  <2>3. QED
    BY <1>2, <2>1, <2>2
<1>3. QED
  BY <1>1, <1>2, PTL DEF StreamSpec

(***************************************************************************)
(* An answer that is reported as complete is what the service sent, and    *)
(* its meter what the service reported last, for any number of questions   *)
(* at once, either vendor, and any frames it sends (StreamAcc::apply).     *)
(***************************************************************************)
THEOREM CompleteAnswersAreWhole == StreamSpec => []AnswerIsWhatWasSent
<1>1. ASSUME StreamInv, NEW r \in Requests, phase[r] = "answered"
      PROVE  /\ acc[r].text = sent_text(r)
             /\ reports(r, {"start", "usage"}) # {} =>
                   /\ acc[r].tokens_in = Asked
                   /\ LET usage == reports(r, {"usage"}) IN
                         acc[r].tokens_out = IF usage = {} THEN 0 ELSE sent[r][last(usage)].n
  <2>1. AnswerFollows(sent[r], acc[r])
    BY <1>1 DEF StreamInv, AnswerSoFar
  <2>2. acc[r].text = sent_text(r)
    BY <2>1 DEF AnswerFollows, sent_text
  <2>3. reports(r, {"start", "usage"}) # {} => acc[r].tokens_in = Asked
    BY <2>1 DEF AnswerFollows, AskedFollows, reports
  <2>4. PICK usage : usage = reports(r, {"usage"})
    OBVIOUS
  <2>5. usage = {i \in DOMAIN sent[r] : sent[r][i].kind = "usage"}
    BY <2>4 DEF reports
  <2>6. MeterFollows(sent[r], acc[r].tokens_out)
    BY <2>1 DEF AnswerFollows
  <2>7. \/ usage = {} /\ acc[r].tokens_out = 0
        \/ \E i \in usage : acc[r].tokens_out = sent[r][i].n /\ \A j \in usage : j <= i
    BY <2>5, <2>6 DEF MeterFollows
  <2>8. ASSUME NEW i \in usage, \A j \in usage : j <= i PROVE last(usage) = i
    <3>1. sent[r] \in Seq(FrameTypes)
      BY <1>1 DEF StreamInv, StreamTypes
    <3>2. usage \subseteq Nat
      BY <2>5, <3>1
    <3>3. last(usage) \in usage /\ \A j \in usage : j <= last(usage)
      BY <2>8 DEF last
    <3>4. i \in usage /\ i <= last(usage) /\ last(usage) <= i
      BY <2>8, <3>3
    <3>5. i \in Nat /\ last(usage) \in Nat
      BY <2>8, <3>2, <3>3
    <3>6. QED
      BY <3>4, <3>5
  <2>9. acc[r].tokens_out = IF usage = {} THEN 0 ELSE sent[r][last(usage)].n
    BY <2>7, <2>8
  <2>10. QED
    BY <2>2, <2>3, <2>4, <2>9
<1>2. StreamInv => AnswerIsWhatWasSent
  BY <1>1 DEF AnswerIsWhatWasSent
<1>3. QED
  BY <1>2, StreamSafe, PTL

(***************************************************************************)
(* Cancel stops what runs when it is pressed and nothing later, unless     *)
(* another question cleared the flag meanwhile, for any number of them     *)
(* (AiState::cancel, drive_stream).                                        *)
(***************************************************************************)
THEOREM CancelStopsWhatRuns == StreamSpec => []CancelIsForThisAnswer
<1>1. StreamInv => CancelIsForThisAnswer
  BY DEF StreamInv, CancelSeen, CancelIsForThisAnswer
<1>2. QED
  BY <1>1, StreamSafe, PTL

(***************************************************************************)
(* No table is left out of a prompt without a warning, for any tables and  *)
(* whichever of them cannot be described (ai_suggest).                     *)
(***************************************************************************)
THEOREM NoTableIsLeftOutInSilence == StreamSpec => []PromptNamesOrWarns
<1>1. ASSUME StreamInv, NEW r \in Requests, prompt[r] # {} \/ (warnings[r] # {} /\ phase[r] # "describing")
      PROVE  Tables \subseteq prompt[r] \union warnings[r] /\ prompt[r] # {}
  BY <1>1 DEF StreamInv, PromptSoFar, Before
<1>2. StreamInv => PromptNamesOrWarns
  BY <1>1 DEF PromptNamesOrWarns
<1>3. QED
  BY <1>2, StreamSafe, PTL
-------------------------------------------------------------------------------
(* The agent's handles. *)

\* There are finitely many names, an alias that is missing is none of them, and no id is
\* an alias the operator had chosen before.
HandleAssumption ==
    /\ IsFiniteSet(Handles) /\ NoAlias \notin Handles
    /\ Ids \intersect Aliases = {}

Rows == [id : Ids, alias : Handles \union {NoAlias}, open : BOOLEAN, marked : BOOLEAN]

\* No two rows share a name.
Differ(x, y) == x.id # y.id /\ (x.alias # NoAlias => x.alias # y.id /\ x.alias # y.alias)
Apart(rows) == \A i, j \in DOMAIN rows : i # j => Differ(rows[i], rows[j])
ListInv == list \in Seq(Rows) /\ Apart(list)

CallInv ==
    /\ call \in [tool : Naming \union {"none"}, at : {"idle", "resolve", "act", "list"},
                 handles : Seq(Handles), ids : Seq(Ids), position : Nat]
    /\ call.at = "resolve" => call.handles # <<>>
    /\ sorting \in [order : Seq(Handles), next : Nat \ {0}, since : Nat]
    /\ edits \in Nat /\ sorting.since <= edits

LEMMA HandlesAreNames ==
    ASSUME NEW x \in Rows
    PROVE  handle_of(x) \in Handles
  BY DEF handle_of, Rows, Handles

LEMMA HandlesDiffer ==
    ASSUME NEW x \in Rows, NEW y \in Rows, Differ(x, y), Differ(y, x)
    PROVE  handle_of(x) # handle_of(y)
  BY DEF handle_of, Rows, Differ

\* A handle finds one row.
LEMMA HandleFinds ==
    ASSUME NEW rows \in Seq(Rows), Apart(rows), NEW i \in DOMAIN rows
    PROVE  /\ rows_answering(rows, handle_of(rows[i])) = {i}
           /\ resolve_agent_handle(rows, handle_of(rows[i])) = rows[i].id
<1>1. ASSUME NEW j \in DOMAIN rows, j # i PROVE handle_of(rows[i]) # handle_of(rows[j])
  <2>1. rows[i] \in Rows /\ rows[j] \in Rows
    BY <1>1
  <2>2. Differ(rows[i], rows[j]) /\ Differ(rows[j], rows[i])
    BY <1>1 DEF Apart
  <2>3. QED
    BY <2>1, <2>2, HandlesDiffer
<1>2. rows_answering(rows, handle_of(rows[i])) = {i}
  BY <1>1 DEF rows_answering, answers_to
<1>3. i \in Nat
  OBVIOUS
<1>4. \A h : h = handle_of(rows[i]) =>
          (CHOOSE k \in rows_answering(rows, h) : \A j \in rows_answering(rows, h) : k <= j) = i
  BY <1>2, <1>3
<1>5. QED
  BY <1>2, <1>4 DEF resolve_agent_handle

\* Rows that leave, come and move.
LEMMA Removed ==
    ASSUME NEW S, NEW s \in Seq(S), NEW i \in 1 .. Len(s), NEW t, t = RemoveAt(s, i)
    PROVE  /\ t \in Seq(S) /\ Len(t) = Len(s) - 1
           /\ \A j \in 1 .. Len(s) - 1 : t[j] = s[IF j < i THEN j ELSE j + 1]
<1>1. PICK a, b : a = SubSeq(s, 1, i - 1) /\ b = SubSeq(s, i + 1, Len(s))
  OBVIOUS
<1>2. a \in Seq(S) /\ Len(a) = i - 1 /\ \A j \in 1 .. i - 1 : a[j] = s[j]
  BY <1>1
<1>3. b \in Seq(S) /\ Len(b) = Len(s) - i /\ \A j \in 1 .. Len(s) - i : b[j] = s[j + i]
  BY <1>1
<1>4. t = a \o b
  BY <1>1 DEF RemoveAt
<1>5. t \in Seq(S) /\ Len(t) = Len(s) - 1
  <2>1. a \in Seq(S) /\ b \in Seq(S) /\ Len(a) + Len(b) = Len(s) - 1
    BY <1>2, <1>3
  <2>2. t \in Seq(S) /\ Len(t) = Len(a) + Len(b)
    BY <1>4, <2>1
  <2>3. QED
    BY <2>1, <2>2
<1>6. ASSUME NEW j \in 1 .. Len(s) - 1 PROVE t[j] = s[IF j < i THEN j ELSE j + 1]
  <2>1. CASE j < i
    BY <1>2, <1>3, <1>4, <2>1
  <2>2. CASE ~ (j < i)
    <3>1. t[j] = b[j - (i - 1)]
      BY <1>2, <1>3, <1>4, <2>2
    <3>2. b[j - (i - 1)] = s[j + 1]
      BY <1>3, <2>2
    <3>3. QED
      BY <2>2, <3>1, <3>2
  <2>3. QED
    BY <2>1, <2>2
<1>7. QED
  BY <1>5, <1>6

LEMMA Inserted ==
    ASSUME NEW S, NEW s \in Seq(S), NEW i \in 1 .. Len(s) + 1, NEW e \in S, NEW t, t = InsertAt(s, i, e)
    PROVE  /\ t \in Seq(S) /\ Len(t) = Len(s) + 1 /\ t[i] = e
           /\ \A j \in 1 .. i - 1 : t[j] = s[j]
           /\ \A j \in i .. Len(s) : t[j + 1] = s[j]
<1>1. PICK a, b : a = SubSeq(s, 1, i - 1) /\ b = SubSeq(s, i, Len(s))
  OBVIOUS
<1>2. a \in Seq(S) /\ Len(a) = i - 1 /\ \A j \in 1 .. i - 1 : a[j] = s[j]
  BY <1>1
<1>3. b \in Seq(S) /\ Len(b) = Len(s) + 1 - i /\ \A j \in 1 .. Len(s) + 1 - i : b[j] = s[j + i - 1]
  BY <1>1
<1>4. PICK c : c = a \o <<e>>
  OBVIOUS
<1>5. c \in Seq(S) /\ Len(c) = i /\ c[i] = e /\ \A j \in 1 .. i - 1 : c[j] = s[j]
  BY <1>2, <1>4
<1>6. t = c \o b
  BY <1>1, <1>4 DEF InsertAt
<1>7. t \in Seq(S) /\ Len(t) = Len(s) + 1 /\ t[i] = e
  BY <1>3, <1>5, <1>6
<1>8. ASSUME NEW j \in 1 .. i - 1 PROVE t[j] = s[j]
  BY <1>3, <1>5, <1>6, <1>8
<1>9. ASSUME NEW j \in i .. Len(s) PROVE t[j + 1] = s[j]
  <2>1. t[j + 1] = b[j + 1 - i]
    BY <1>3, <1>5, <1>6, <1>9
  <2>2. b[j + 1 - i] = s[j]
    BY <1>3, <1>9
  <2>3. QED
    BY <2>1, <2>2
<1>10. QED
  BY <1>7, <1>8, <1>9

\* Where the row at j was before the one at "from" was moved to "index".
came_from(from, index, j) ==
    IF j = index + 1 THEN from
    ELSE IF j <= index THEN IF j < from THEN j ELSE j + 1
    ELSE IF j - 1 < from THEN j - 1 ELSE j

LEMMA MovedRows ==
    ASSUME NEW S, NEW s \in Seq(S), NEW from \in 1 .. Len(s), NEW index \in 0 .. Len(s) - 1,
           NEW t, t = moved(s, from, index)
    PROVE  /\ t \in Seq(S) /\ Len(t) = Len(s)
           /\ \A j \in 1 .. Len(s) : t[j] = s[came_from(from, index, j)]
<1>1. PICK u : u = RemoveAt(s, from)
  OBVIOUS
<1>2. /\ u \in Seq(S) /\ Len(u) = Len(s) - 1
      /\ \A j \in 1 .. Len(s) - 1 : u[j] = s[IF j < from THEN j ELSE j + 1]
  BY <1>1, Removed
<1>3. PICK place, x : place = index + 1 /\ x = s[from]
  OBVIOUS
<1>4. t = InsertAt(u, place, x) /\ x \in S /\ place \in 1 .. Len(u) + 1
  BY <1>1, <1>2, <1>3 DEF moved
<1>5. /\ t \in Seq(S) /\ Len(t) = Len(u) + 1 /\ t[index + 1] = s[from]
      /\ \A j \in 1 .. Len(u) + 1 :
            (j < index + 1 => t[j] = u[j]) /\ (j > index + 1 => t[j] = u[j - 1])
  <2>1. /\ t \in Seq(S) /\ Len(t) = Len(u) + 1 /\ t[place] = x
        /\ \A j \in 1 .. place - 1 : t[j] = u[j]
        /\ \A j \in place .. Len(u) : t[j + 1] = u[j]
    <3>1. u \in Seq(S) /\ x \in S /\ place \in 1 .. Len(u) + 1 /\ t = InsertAt(u, place, x)
      BY <1>2, <1>4
    <3>2. t \in Seq(S) /\ Len(t) = Len(u) + 1 /\ t[place] = x
      BY <3>1, Inserted
    <3>3. \A j \in 1 .. place - 1 : t[j] = u[j]
      BY <3>1, Inserted
    <3>4. \A j \in place .. Len(u) : t[j + 1] = u[j]
      BY <3>1, Inserted
    <3>5. QED
      BY <3>2, <3>3, <3>4
  <2>2. ASSUME NEW j \in 1 .. Len(u) + 1, j > place PROVE t[j] = u[j - 1]
    <3>1. j - 1 \in place .. Len(u) /\ (j - 1) + 1 = j
      BY <1>2, <1>4, <2>2
    <3>2. QED
      BY <2>1, <3>1
  <2>3. QED
    BY <1>2, <1>3, <1>4, <2>1, <2>2
<1>6. ASSUME NEW j \in 1 .. Len(s) PROVE t[j] = s[came_from(from, index, j)]
  <2>1. CASE j = index + 1
    BY <1>5, <2>1 DEF came_from
  <2>2. CASE j <= index
    <3>1. t[j] = u[j]
      BY <1>2, <1>5, <2>2
    <3>2. u[j] = s[IF j < from THEN j ELSE j + 1]
      BY <1>2, <2>2
    <3>3. QED
      BY <2>2, <3>1, <3>2 DEF came_from
  <2>3. CASE j > index + 1
    <3>1. t[j] = u[j - 1]
      BY <1>2, <1>5, <2>3
    <3>2. u[j - 1] = s[IF j - 1 < from THEN j - 1 ELSE j]
      BY <1>2, <2>3
    <3>3. QED
      BY <2>3, <3>1, <3>2 DEF came_from
  <2>4. QED
    BY <2>1, <2>2, <2>3
<1>7. QED
  BY <1>2, <1>5, <1>6

LEMMA PlacesDiffer ==
    ASSUME NEW n \in Nat, NEW from \in 1 .. n, NEW index \in 0 .. n - 1,
           NEW i \in 1 .. n, NEW j \in 1 .. n
    PROVE  /\ came_from(from, index, i) \in 1 .. n
           /\ i # j => came_from(from, index, i) # came_from(from, index, j)
  BY DEF came_from

\* What keeps rows apart.
LEMMA MovedStayApart ==
    ASSUME NEW s \in Seq(Rows), Apart(s), NEW from \in 1 .. Len(s), NEW index \in 0 .. Len(s) - 1,
           NEW t, t = moved(s, from, index)
    PROVE  t \in Seq(Rows) /\ Apart(t)
<1>1. t \in Seq(Rows) /\ Len(t) = Len(s) /\ \A j \in 1 .. Len(s) : t[j] = s[came_from(from, index, j)]
  BY MovedRows
<1>2. ASSUME NEW i \in DOMAIN t, NEW j \in DOMAIN t, i # j PROVE Differ(t[i], t[j])
  <2>1. i \in 1 .. Len(s) /\ j \in 1 .. Len(s) /\ Len(s) \in Nat
    BY <1>1
  <2>2. PICK k, l : k = came_from(from, index, i) /\ l = came_from(from, index, j)
    OBVIOUS
  <2>3. k \in 1 .. Len(s) /\ l \in 1 .. Len(s) /\ k # l
    BY <1>2, <2>1, <2>2, PlacesDiffer
  <2>4. t[i] = s[k] /\ t[j] = s[l]
    BY <1>1, <2>1, <2>2
  <2>5. Differ(s[k], s[l])
    BY <2>3 DEF Apart
  <2>6. QED
    BY <2>4, <2>5
<1>3. QED
  BY <1>1, <1>2 DEF Apart

LEMMA RemovedStayApart ==
    ASSUME NEW s \in Seq(Rows), Apart(s), NEW i \in 1 .. Len(s), NEW t, t = RemoveAt(s, i)
    PROVE  t \in Seq(Rows) /\ Apart(t)
<1>1. /\ t \in Seq(Rows) /\ Len(t) = Len(s) - 1
      /\ \A j \in 1 .. Len(s) - 1 : t[j] = s[IF j < i THEN j ELSE j + 1]
  BY Removed
<1>2. ASSUME NEW k \in DOMAIN t, NEW j \in DOMAIN t, k # j PROVE Differ(t[k], t[j])
  <2>1. PICK m, n : m = (IF k < i THEN k ELSE k + 1) /\ n = (IF j < i THEN j ELSE j + 1)
    OBVIOUS
  <2>2. k \in 1 .. Len(s) - 1 /\ j \in 1 .. Len(s) - 1
    BY <1>1
  <2>3. m \in 1 .. Len(s) /\ n \in 1 .. Len(s) /\ m # n
    BY <1>2, <2>1, <2>2
  <2>4. t[k] = s[m] /\ t[j] = s[n]
    BY <1>1, <2>1, <2>2
  <2>5. QED
    BY <2>3, <2>4 DEF Apart
<1>3. QED
  BY <1>1, <1>2 DEF Apart

\* A change of a row that touches neither its id nor its alias.
LEMMA ChangedStayApart ==
    ASSUME NEW s \in Seq(Rows), Apart(s), NEW i \in 1 .. Len(s), NEW x \in Rows,
           x.id = s[i].id, x.alias = s[i].alias, NEW t, t = [s EXCEPT ![i] = x]
    PROVE  t \in Seq(Rows) /\ Apart(t)
<1>1. t \in Seq(Rows) /\ DOMAIN t = DOMAIN s /\ t[i] = x /\ \A j \in DOMAIN s : j # i => t[j] = s[j]
  OBVIOUS
<1>2. \A j \in DOMAIN s : t[j].id = s[j].id /\ t[j].alias = s[j].alias
  BY <1>1
<1>3. QED
  BY <1>1, <1>2 DEF Apart, Differ

LEMMA AliasedStayApart ==
    ASSUME NEW s \in Seq(Rows), Apart(s), NEW i \in 1 .. Len(s), NEW alias \in Handles \union {NoAlias},
           alias # NoAlias => handle_is_free(s, alias, s[i].id),
           NEW t, t = [s EXCEPT ![i].alias = alias], HandleAssumption
    PROVE  t \in Seq(Rows) /\ Apart(t)
<1>1. PICK x : x = [s[i] EXCEPT !.alias = alias]
  OBVIOUS
<1>2. x \in Rows /\ x.id = s[i].id /\ x.alias = alias
  <2>1. PICK y \in Rows : y = s[i]
    OBVIOUS
  <2>2. x = [y EXCEPT !.alias = alias]
    BY <1>1, <2>1
  <2>3. x \in Rows /\ x.id = y.id /\ x.alias = alias
    BY <2>2 DEF Rows
  <2>4. QED
    BY <2>1, <2>3
<1>3. t = [s EXCEPT ![i] = x]
  BY <1>1
<1>4. t \in Seq(Rows) /\ DOMAIN t = DOMAIN s /\ t[i] = x /\ \A j \in DOMAIN s : j # i => t[j] = s[j]
  BY <1>2, <1>3
<1>5. ASSUME NEW j \in DOMAIN s, j # i PROVE Differ(x, s[j]) /\ Differ(s[j], x)
  <2>1. Differ(s[i], s[j]) /\ Differ(s[j], s[i])
    BY <1>5 DEF Apart
  <2>2. alias # NoAlias => alias # s[j].id /\ alias # s[j].alias
    BY <1>5, <2>1 DEF handle_is_free, Differ
  <2>3. QED
    BY <1>2, <2>1, <2>2 DEF Differ
<1>6. QED
  BY <1>4, <1>5 DEF Apart

LEMMA AddedStayApart ==
    ASSUME NEW s \in Seq(Rows), Apart(s), NEW id \in Ids, id \notin ids_of(s), handle_is_free(s, id, id),
           NEW t, t = Append(s, Row(id))
    PROVE  t \in Seq(Rows) /\ Apart(t)
<1>1. PICK x : x = Row(id)
  OBVIOUS
<1>2. x \in Rows /\ x.id = id /\ x.alias = NoAlias
  BY <1>1 DEF Row, Rows
<1>3. /\ t \in Seq(Rows) /\ Len(s) \in Nat /\ DOMAIN s = 1 .. Len(s) /\ DOMAIN t = 1 .. Len(s) + 1
      /\ t[Len(s) + 1] = x /\ \A j \in DOMAIN s : t[j] = s[j]
  BY <1>1, <1>2
<1>4. ASSUME NEW j \in DOMAIN s PROVE Differ(x, s[j]) /\ Differ(s[j], x)
  <2>1. s[j].id # id
    BY DEF ids_of
  <2>2. id # s[j].alias
    BY <2>1 DEF handle_is_free
  <2>3. QED
    BY <1>2, <2>1, <2>2 DEF Differ
<1>5. QED
  BY <1>3, <1>4 DEF Apart

\* While nobody else is at the list of an agent that sorts: every place before the next is
\* as it wants it, and the call under way is the next move.
InOrder(m) == handle_of(list[m]) = sorting.order[m]
SortsAlone == sorting.order # <<>> /\ sorting.since = edits
TheNextMove ==
    /\ call.tool = "move" /\ sorting.next <= Len(list) /\ call.position = sorting.next - 1
    /\ call.at = "resolve" => call.handles = <<sorting.order[sorting.next]>> /\ call.ids = <<>>
    /\ call.at = "act" => \E i \in DOMAIN list :
          /\ call.ids = <<list[i].id>>
          /\ handle_of(list[i]) = sorting.order[sorting.next]
WhatIsSorted ==
    /\ Len(sorting.order) = Len(list)
    /\ \A m, n \in DOMAIN list : m # n => sorting.order[m] # sorting.order[n]
    /\ \A m \in DOMAIN list : \E i \in DOMAIN list : handle_of(list[i]) = sorting.order[m]
SortInv ==
    SortsAlone =>
        /\ WhatIsSorted
        /\ \A m \in DOMAIN list :
              m < sorting.next \/ (call.at = "list" /\ m = sorting.next) => InOrder(m)
        /\ call.at # "idle" => TheNextMove

ToolInv == ListInv /\ CallInv /\ SortInv

LEMMA NoToolIsACall ==
    NoTool \in [tool : Naming \union {"none"}, at : {"idle", "resolve", "act", "list"},
                handles : Seq(Handles), ids : Seq(Ids), position : Nat] /\ NoTool.at = "idle"
  BY DEF NoTool

\* A call that is answered leaves the list and the agent's plan as they are.
LEMMA AnsweringKeeps ==
    ASSUME ToolInv, NEW error, NEW names, answered(error, names), UNCHANGED <<list, edits, sorting>>,
           call.at # "list"
    PROVE  ToolInv'
<1>1. call' = NoTool
  BY DEF answered
<1>2. CallInv'
  BY <1>1, NoToolIsACall DEF ToolInv, CallInv
<1>3. ListInv'
  BY DEF ToolInv, ListInv, Apart
<1>4. SortInv'
  <2> SUFFICES ASSUME SortsAlone'
               PROVE  WhatIsSorted' /\ \A m \in DOMAIN list : m < sorting.next => InOrder(m)'
    BY <1>1, NoToolIsACall DEF SortInv
  <2>1. SortsAlone
    BY DEF SortsAlone
  <2>2. QED
    BY <2>1 DEF ToolInv, SortInv, WhatIsSorted, InOrder
<1>5. QED
  BY <1>2, <1>3, <1>4 DEF ToolInv

\* A step that no agent who sorts alone can be part of.
LEMMA OthersKeep ==
    ASSUME ListInv', CallInv', ~ SortsAlone'
    PROVE  ToolInv'
  BY DEF ToolInv, SortInv

\* The move that is next puts its row in its place.
LEMMA MovingSorts ==
    ASSUME ToolInv, SortsAlone, NEW from \in DOMAIN list, handle_of(list[from]) = sorting.order[sorting.next],
           sorting.next <= Len(list), list' = moved(list, from, sorting.next - 1), UNCHANGED sorting
    PROVE  WhatIsSorted' /\ \A m \in DOMAIN list' : m <= sorting.next => InOrder(m)'
<1>1. list \in Seq(Rows) /\ sorting.next \in Nat \ {0} /\ sorting.order \in Seq(Handles)
  BY DEF ToolInv, ListInv, CallInv
<1>2. WhatIsSorted /\ \A m \in DOMAIN list : m < sorting.next => InOrder(m)
  BY DEF ToolInv, SortInv
<1>3. PICK next, index, length :
         next = sorting.next /\ index = sorting.next - 1 /\ length = Len(list)
  OBVIOUS
<1>4. length \in Nat /\ next \in 1 .. length /\ from \in 1 .. length /\ index \in 0 .. length - 1
      /\ index + 1 = next /\ DOMAIN list = 1 .. length
  BY <1>1, <1>3
<1>5. list' = moved(list, from, index)
  BY <1>3
<1>6. /\ list' \in Seq(Rows) /\ Len(list') = Len(list)
      /\ \A j \in 1 .. Len(list) : list'[j] = list[came_from(from, index, j)]
  <2>1. PICK rows : rows = list'
    OBVIOUS
  <2>2. /\ rows \in Seq(Rows) /\ Len(rows) = Len(list)
        /\ \A j \in 1 .. Len(list) : rows[j] = list[came_from(from, index, j)]
    BY <1>1, <1>3, <1>4, <1>5, <2>1, MovedRows
  <2>3. QED
    BY <2>1, <2>2
<1>7. DOMAIN list' = DOMAIN list
  BY <1>1, <1>6
\* What is before the next place stays there.
<1>8. from >= next
  <2> SUFFICES ASSUME from < next PROVE FALSE
    BY <1>4
  <2>1. InOrder(from)
    BY <1>2, <1>3
  <2>2. sorting.order[from] = sorting.order[next]
    BY <1>3, <2>1 DEF InOrder
  <2>3. from # next
    BY <1>4
  <2>4. QED
    BY <1>2, <1>4, <2>2, <2>3 DEF WhatIsSorted
<1>9. ASSUME NEW m \in DOMAIN list', m <= next PROVE InOrder(m)'
  <2>1. m \in 1 .. length
    BY <1>4, <1>7
  <2>2. CASE m = next
    <3>1. came_from(from, index, m) = from
      BY <1>4, <2>2 DEF came_from
    <3>2. list'[m] = list[from]
      BY <1>3, <1>6, <2>1, <3>1
    <3>3. QED
      BY <1>3, <2>2, <3>2 DEF InOrder, handle_of
  <2>3. CASE m < next
    <3>1. came_from(from, index, m) = m
      BY <1>4, <1>8, <2>1, <2>3 DEF came_from
    <3>2. list'[m] = list[m]
      BY <1>3, <1>6, <2>1, <3>1
    <3>3. InOrder(m)
      BY <1>2, <1>3, <1>7, <2>3
    <3>4. QED
      BY <3>2, <3>3 DEF InOrder, handle_of
  <2>4. QED
    BY <1>4, <1>9, <2>1, <2>2, <2>3
\* Every row is still somewhere.
<1>10. ASSUME NEW i \in 1 .. length PROVE \E j \in 1 .. length : came_from(from, index, j) = i
  <2>1. CASE i = from
    BY <1>4, <2>1 DEF came_from
  <2>2. CASE i < from
    <3>1. CASE i <= index
      BY <1>4, <2>2, <3>1 DEF came_from
    <3>2. CASE i > index
      <4>1. PICK j \in 1 .. length : j = i + 1
        BY <1>4, <2>2
      <4>2. came_from(from, index, j) = i
        BY <1>4, <2>2, <3>2, <4>1 DEF came_from
      <4>3. QED
        BY <4>2
    <3>3. QED
      BY <1>4, <3>1, <3>2
  <2>3. CASE i > from
    BY <1>4, <1>8, <2>3 DEF came_from
  <2>4. QED
    BY <1>4, <2>1, <2>2, <2>3
<1>11. WhatIsSorted'
  <2>1. Len(sorting.order) = Len(list')
    BY <1>2, <1>6 DEF WhatIsSorted
  <2>2. \A m, n \in DOMAIN list' : m # n => sorting.order[m] # sorting.order[n]
    BY <1>2, <1>7 DEF WhatIsSorted
  <2>3. ASSUME NEW m \in DOMAIN list' PROVE \E j \in DOMAIN list' : handle_of(list'[j]) = sorting.order[m]
    <3>1. PICK i \in DOMAIN list : handle_of(list[i]) = sorting.order[m]
      BY <1>2, <1>7 DEF WhatIsSorted
    <3>2. PICK j \in 1 .. length : came_from(from, index, j) = i
      BY <1>4, <1>10
    <3>3. list'[j] = list[i] /\ j \in DOMAIN list'
      BY <1>3, <1>4, <1>6, <1>7, <3>2
    <3>4. QED
      BY <3>1, <3>3
  <2>4. \A m \in DOMAIN list' : \E j \in DOMAIN list' : handle_of(list'[j]) = sorting'.order[m]
    BY <2>3
  <2>5. QED
    BY <2>1, <2>2, <2>4 DEF WhatIsSorted, handle_of
<1>12. QED
  BY <1>3, <1>9, <1>11

\* A row that is found by its id.
LEMMA TheRowIsThere ==
    ASSUME ListInv, there(call.ids[1])
    PROVE  the_row \in DOMAIN list /\ list[the_row].id = call.ids[1]
<1>1. \E i \in DOMAIN list : list[i].id = call.ids[1]
  BY DEF there, ids_of
<1>2. QED
  BY <1>1 DEF the_row

LEMMA CallTypesStay ==
    ASSUME CallInv, UNCHANGED <<sorting, edits>>, NEW at \in {"act", "list"}, call' = [call EXCEPT !.at = at]
    PROVE  CallInv' /\ call'.at = at /\ call'.tool = call.tool
  BY DEF CallInv

LEMMA MarkingKeeps ==
    ASSUME ToolInv, set_connection_mark
    PROVE  ToolInv'
<1>1. ListInv /\ CallInv /\ SortInv
  BY DEF ToolInv
<1>2. call.tool = "mark" /\ call.at = "act" /\ there(call.ids[1])
  BY DEF set_connection_mark, acts
<1>3. PICK i : i = the_row
  OBVIOUS
<1>4. i \in DOMAIN list /\ list \in Seq(Rows) /\ Apart(list)
  BY <1>1, <1>2, <1>3, TheRowIsThere DEF ListInv
<1>5. PICK x : x = [list[i] EXCEPT !.marked = ~ @]
  OBVIOUS
<1>6. x \in Rows /\ x.id = list[i].id /\ x.alias = list[i].alias
  <2>1. PICK y \in Rows : y = list[i]
    BY <1>4
  <2>2. (~ y.marked) \in BOOLEAN
    OBVIOUS
  <2>3. x = [y EXCEPT !.marked = ~ y.marked]
    BY <1>5, <2>1
  <2>4. x \in Rows
    BY <2>2, <2>3, Zenon DEF Rows
  <2>5. x.id = y.id /\ x.alias = y.alias
    BY <2>3 DEF Rows
  <2>6. QED
    BY <2>1, <2>4, <2>5
<1>7. list' = [list EXCEPT ![i] = x]
  BY <1>3, <1>5 DEF set_connection_mark
<1>8. ListInv'
  <2>1. PICK t : t = list'
    OBVIOUS
  <2>2. t \in Seq(Rows) /\ Apart(t)
    <3>1. t = [list EXCEPT ![i] = x] /\ i \in 1 .. Len(list)
      BY <1>4, <1>7, <2>1
    <3>2. QED
      BY <1>4, <1>6, <3>1, ChangedStayApart
  <2>3. QED
    BY <2>1, <2>2 DEF ListInv, Apart
<1>9. CallInv'
  BY <1>1, CallTypesStay DEF set_connection_mark
<1>10. ~ SortsAlone'
  BY <1>1, <1>2 DEF SortInv, TheNextMove, SortsAlone, set_connection_mark
<1>11. QED
  BY <1>8, <1>9, <1>10, OthersKeep

LEMMA MovingKeeps ==
    ASSUME ToolInv, move_connection
    PROVE  ToolInv'
<1>1. ListInv /\ CallInv /\ SortInv /\ list \in Seq(Rows) /\ Apart(list)
  BY DEF ToolInv, ListInv
<1>2. call.tool = "move" /\ call.at = "act" /\ there(call.ids[1]) /\ UNCHANGED <<edits, sorting>>
  BY DEF move_connection, acts
<1>3. CASE call.position >= Len(list)
  <2>1. answered("no such position", {}) /\ UNCHANGED list
    BY <1>3 DEF move_connection
  <2>2. QED
    BY <1>2, <2>1, AnsweringKeeps
<1>4. CASE ~ (call.position >= Len(list))
  <2>1. list' = moved(list, the_row, call.position) /\ call' = [call EXCEPT !.at = "list"]
    BY <1>4 DEF move_connection
  <2>2. PICK from, index : from = the_row /\ index = call.position
    OBVIOUS
  <2>3. from \in DOMAIN list /\ list[from].id = call.ids[1]
    BY <1>1, <1>2, <2>2, TheRowIsThere
  <2>4. index \in 0 .. Len(list) - 1 /\ from \in 1 .. Len(list)
    BY <1>1, <1>4, <2>2, <2>3 DEF CallInv
  <2>5. ListInv'
    <3>1. PICK t : t = list'
      OBVIOUS
    <3>2. t = moved(list, from, index)
      BY <2>1, <2>2, <3>1
    <3>3. t \in Seq(Rows) /\ Apart(t)
      BY <1>1, <2>4, <3>2, MovedStayApart
    <3>4. QED
      BY <3>1, <3>3 DEF ListInv, Apart
  <2>6. CallInv' /\ call'.at = "list" /\ call'.tool = "move"
    BY <1>1, <1>2, <2>1, CallTypesStay
  <2>7. SortInv'
    <3> SUFFICES ASSUME SortsAlone'
                 PROVE  /\ WhatIsSorted'
                        /\ \A m \in DOMAIN list' : m <= sorting.next => InOrder(m)'
                        /\ TheNextMove'
      <4>1. sorting'.next \in Nat /\ \A m \in DOMAIN list' : m \in Nat
        BY <1>1, <1>2, <2>5 DEF CallInv, ListInv
      <4>2. \A m \in DOMAIN list' :
               m < sorting'.next \/ (call'.at = "list" /\ m = sorting'.next) => m <= sorting'.next
        BY <4>1
      <4>3. QED
        BY <1>2, <4>2 DEF SortInv
    <3>1. SortsAlone
      BY <1>2 DEF SortsAlone
    <3>2. TheNextMove
      BY <1>1, <1>2, <3>1 DEF SortInv
    <3>3. index = sorting.next - 1 /\ sorting.next <= Len(list)
      BY <2>2, <3>2 DEF TheNextMove
    <3>4. PICK i \in DOMAIN list :
             call.ids = <<list[i].id>> /\ handle_of(list[i]) = sorting.order[sorting.next]
      BY <1>2, <3>2 DEF TheNextMove
    <3>5. list[from].id = list[i].id
      BY <2>3, <3>4
    <3>6. from = i
      BY <1>1, <2>3, <3>4, <3>5 DEF Apart, Differ
    <3>7. handle_of(list[from]) = sorting.order[sorting.next]
      BY <3>4, <3>6
    <3>8. list' = moved(list, from, sorting.next - 1)
      BY <2>1, <2>2, <3>3
    <3>9. WhatIsSorted' /\ \A m \in DOMAIN list' : m <= sorting.next => InOrder(m)'
      BY <1>2, <2>3, <3>1, <3>3, <3>7, <3>8, MovingSorts
    <3>10. Len(list') = Len(list)
      <4>1. Len(sorting.order) = Len(list)
        BY <1>1, <3>1 DEF SortInv, WhatIsSorted
      <4>2. Len(sorting'.order) = Len(list')
        BY <3>9 DEF WhatIsSorted
      <4>3. QED
        BY <1>2, <4>1, <4>2
    <3>11. call'.position = call.position
      BY <1>1, <2>1 DEF CallInv
    <3>12. TheNextMove'
      BY <1>2, <2>6, <3>2, <3>10, <3>11 DEF TheNextMove
    <3>13. QED
      BY <3>9, <3>12
  <2>8. QED
    BY <2>5, <2>6, <2>7 DEF ToolInv
<1>5. QED
  BY <1>3, <1>4

LEMMA ResolvingKeeps ==
    ASSUME ToolInv, resolve_handle
    PROVE  ToolInv'
<1>1. ListInv /\ CallInv /\ SortInv /\ list \in Seq(Rows) /\ Apart(list)
  BY DEF ToolInv, ListInv
<1>2. PICK handle, left : handle = Head(call.handles) /\ left = Tail(call.handles)
  OBVIOUS
<1>3. call.at = "resolve" /\ UNCHANGED <<list, edits, sorting>>
  BY DEF resolve_handle
<1>4. call.handles \in Seq(Handles) /\ call.handles # <<>> /\ call.ids \in Seq(Ids)
  BY <1>1, <1>3 DEF CallInv
<1>5. handle \in Handles /\ left \in Seq(Handles)
  BY <1>2, <1>4
<1>6. CASE rows_answering(list, handle) = {}
  <2>1. answered("not found", {handle})
    BY <1>2, <1>6 DEF resolve_handle
  <2>2. QED
    BY <1>3, <2>1, AnsweringKeeps
<1>7. CASE rows_answering(list, handle) # {}
  <2>1. PICK i \in DOMAIN list : handle = handle_of(list[i])
    BY <1>7 DEF rows_answering, answers_to
  <2>2. resolve_agent_handle(list, handle) = list[i].id
    BY <1>1, <2>1, HandleFinds
  <2>3. list[i].id \in Ids
    <3>1. list[i] \in Rows
      BY <1>1
    <3>2. QED
      BY <3>1 DEF Rows
  <2>4. PICK ids, at : ids = Append(call.ids, list[i].id)
                       /\ at = IF left = <<>> THEN "act" ELSE "resolve"
    OBVIOUS
  <2>5. call' = [call EXCEPT !.handles = left, !.ids = ids, !.at = at]
    BY <1>2, <1>7, <2>2, <2>4 DEF resolve_handle
  <2>6. ids \in Seq(Ids)
    <3>1. Append(call.ids, list[i].id) \in Seq(Ids)
      BY <1>4, <2>3
    <3>2. QED
      BY <2>4, <3>1
  <2>7. /\ call' \in [tool : Naming \union {"none"}, at : {"idle", "resolve", "act", "list"},
                      handles : Seq(Handles), ids : Seq(Ids), position : Nat]
        /\ call'.handles = left /\ call'.ids = ids /\ call'.at = at
        /\ call'.tool = call.tool /\ call'.position = call.position
    <3>1. PICK c : c = [call EXCEPT !.handles = left]
      OBVIOUS
    <3>2. PICK d : d = [c EXCEPT !.ids = ids]
      OBVIOUS
    <3>3. call' = [d EXCEPT !.at = at]
      BY <2>5, <3>1, <3>2
    <3>4. /\ c \in [tool : Naming \union {"none"}, at : {"idle", "resolve", "act", "list"},
                    handles : Seq(Handles), ids : Seq(Ids), position : Nat]
          /\ c.handles = left /\ c.tool = call.tool /\ c.position = call.position
      BY <1>1, <1>5, <3>1 DEF CallInv
    <3>5. /\ d \in [tool : Naming \union {"none"}, at : {"idle", "resolve", "act", "list"},
                    handles : Seq(Handles), ids : Seq(Ids), position : Nat]
          /\ d.handles = left /\ d.ids = ids /\ d.tool = call.tool /\ d.position = call.position
      BY <2>6, <3>2, <3>4
    <3>6. at \in {"act", "resolve"}
      BY <2>4
    <3>7. QED
      BY <3>3, <3>5, <3>6
  <2>8. CallInv'
    BY <1>1, <1>3, <2>4, <2>7 DEF CallInv
  <2>9. ListInv'
    BY <1>1, <1>3 DEF ListInv, Apart
  <2>10. SortInv'
    <3> SUFFICES ASSUME SortsAlone'
                 PROVE  /\ WhatIsSorted' /\ \A m \in DOMAIN list : m < sorting.next => InOrder(m)'
                        /\ TheNextMove'
      BY <1>3, <2>4, <2>7 DEF SortInv
    <3>1. SortsAlone
      BY <1>3 DEF SortsAlone
    <3>2. TheNextMove /\ WhatIsSorted /\ \A m \in DOMAIN list : m < sorting.next => InOrder(m)
      BY <1>1, <1>3, <3>1 DEF SortInv
    <3>3. call.handles = <<sorting.order[sorting.next]>> /\ call.ids = <<>>
      BY <1>3, <3>2 DEF TheNextMove
    <3>4. left = <<>> /\ handle = sorting.order[sorting.next]
      BY <1>2, <3>3
    <3>5. at = "act" /\ ids = <<list[i].id>>
      BY <2>4, <3>3, <3>4
    <3>6. TheNextMove'
      <4>1. call'.at = "act" /\ call'.ids = <<list'[i].id>> /\ i \in DOMAIN list'
            /\ handle_of(list'[i]) = sorting'.order[sorting'.next]
        BY <1>3, <2>1, <2>7, <3>4, <3>5
      <4>2. call'.tool = "move" /\ sorting'.next <= Len(list') /\ call'.position = sorting'.next - 1
        BY <1>3, <2>7, <3>2 DEF TheNextMove
      <4>3. QED
        BY <4>1, <4>2 DEF TheNextMove, handle_of
    <3>7. QED
      BY <1>3, <3>2, <3>6 DEF WhatIsSorted, InOrder, handle_of
  <2>11. QED
    BY <2>8, <2>9, <2>10 DEF ToolInv
<1>8. QED
  BY <1>6, <1>7

LEMMA ListingKeeps ==
    ASSUME ToolInv, connection_list
    PROVE  ToolInv'
<1>1. ListInv /\ CallInv /\ SortInv
  BY DEF ToolInv
<1>2. call.at = "list" /\ call' = NoTool /\ UNCHANGED <<list, edits>>
  BY DEF connection_list, answered
<1>3. PICK next : next = IF sorting.order = <<>> THEN 1 ELSE sorting.next + 1
  OBVIOUS
<1>4. next \in Nat \ {0} /\ sorting' = [sorting EXCEPT !.next = next]
  BY <1>1, <1>3 DEF CallInv, connection_list
<1>5. /\ sorting' \in [order : Seq(Handles), next : Nat \ {0}, since : Nat]
      /\ sorting'.next = next /\ sorting'.order = sorting.order /\ sorting'.since = sorting.since
  BY <1>1, <1>4 DEF CallInv
<1>6. CallInv'
  BY <1>1, <1>2, <1>5, NoToolIsACall DEF CallInv
<1>7. ListInv'
  BY <1>1, <1>2 DEF ListInv, Apart
<1>8. SortInv'
  <2> SUFFICES ASSUME SortsAlone'
               PROVE  WhatIsSorted' /\ \A m \in DOMAIN list : m < sorting'.next => InOrder(m)'
    BY <1>2, NoToolIsACall DEF SortInv
  <2>1. SortsAlone
    BY <1>2, <1>5 DEF SortsAlone
  <2>2. sorting'.next = sorting.next + 1
    BY <1>3, <1>5, <2>1 DEF SortsAlone
  <2>3. \A m \in DOMAIN list : m \in Nat /\ sorting.next \in Nat
    BY <1>1 DEF ListInv, CallInv
  <2>4. \A m \in DOMAIN list : m < sorting'.next => InOrder(m)
    BY <1>1, <1>2, <2>1, <2>2, <2>3 DEF SortInv
  <2>5. WhatIsSorted
    BY <1>1, <2>1 DEF SortInv
  <2>6. QED
    BY <1>2, <1>5, <2>4, <2>5 DEF WhatIsSorted, InOrder, handle_of
<1>9. QED
  BY <1>6, <1>7, <1>8 DEF ToolInv

LEMMA CallingKeeps ==
    ASSUME ToolInv, tool_called
    PROVE  ToolInv'
<1>1. ListInv /\ CallInv /\ SortInv
  BY DEF ToolInv
<1>2. sorting.order = <<>> /\ UNCHANGED <<list, told, edits, sorting>>
  BY DEF tool_called
<1>3. PICK tool \in Naming :
         \E handles \in SeqOf(Handles, IF tool = "export" THEN 2 ELSE 1) :
            \E position \in IF tool = "move" THEN 0 .. Cardinality(Ids) ELSE {0} :
               /\ handles # <<>>
               /\ call' = [tool |-> tool, at |-> "resolve", handles |-> handles, ids |-> <<>>,
                           position |-> position]
  BY Zenon DEF tool_called
<1>4. PICK handles \in SeqOf(Handles, IF tool = "export" THEN 2 ELSE 1) :
         \E position \in IF tool = "move" THEN 0 .. Cardinality(Ids) ELSE {0} :
            /\ handles # <<>>
            /\ call' = [tool |-> tool, at |-> "resolve", handles |-> handles, ids |-> <<>>,
                        position |-> position]
  BY <1>3, Zenon
<1>5. PICK position \in IF tool = "move" THEN 0 .. Cardinality(Ids) ELSE {0} :
         /\ handles # <<>>
         /\ call' = [tool |-> tool, at |-> "resolve", handles |-> handles, ids |-> <<>>,
                     position |-> position]
  BY <1>4, Zenon
<1>6. handles \in Seq(Handles)
  <2>1. PICK m \in 0 .. (IF tool = "export" THEN 2 ELSE 1) : handles \in [1 .. m -> Handles]
    BY DEF SeqOf
  <2>2. m \in Nat
    OBVIOUS
  <2>3. QED
    BY <2>1, <2>2
<1>7. position \in Nat
  OBVIOUS
<1>8. <<>> \in Seq(Ids)
  OBVIOUS
<1>9. CallInv'
  BY <1>1, <1>2, <1>5, <1>6, <1>7, <1>8 DEF CallInv
<1>10. QED
  BY <1>1, <1>2, <1>9, OthersKeep DEF ListInv, Apart, SortsAlone

LEMMA AddingKeeps ==
    ASSUME ToolInv, add_connection
    PROVE  ToolInv'
<1>1. ListInv /\ CallInv /\ SortInv /\ list \in Seq(Rows) /\ Apart(list)
  BY DEF ToolInv, ListInv
<1>2. sorting.order = <<>> /\ UNCHANGED <<call, edits, sorting>>
  BY DEF add_connection
<1>3. PICK id \in Ids :
         \/ id \notin ids_of(list) /\ handle_is_free(list, id, id) /\ list' = Append(list, Row(id))
         \/ UNCHANGED list
  BY DEF add_connection, there
<1>4. ListInv'
  <2>1. CASE id \notin ids_of(list) /\ handle_is_free(list, id, id) /\ list' = Append(list, Row(id))
    <3>1. PICK t : t = Append(list, Row(id))
      OBVIOUS
    <3>2. t \in Seq(Rows) /\ Apart(t)
      BY <1>1, <2>1, <3>1, AddedStayApart
    <3>3. QED
      BY <2>1, <3>1, <3>2 DEF ListInv, Apart
  <2>2. CASE UNCHANGED list
    BY <1>1, <2>2 DEF ListInv, Apart
  <2>3. QED
    BY <1>3, <2>1, <2>2
<1>5. CallInv'
  BY <1>1, <1>2 DEF CallInv
<1>6. QED
  BY <1>2, <1>4, <1>5, OthersKeep DEF SortsAlone

\* A permutation of all names of the list.
LEMMA OrderOfNames ==
    ASSUME NEW S, IsFiniteSet(S), NEW order \in SetToAllKPermutations(S)
    PROVE  /\ order \in Seq(S)
           /\ \A m, n \in 1 .. Len(order) : m # n => order[m] # order[n]
<1>1. PICK s \in SUBSET S : order \in SetToSeqs(s)
  BY DEF SetToAllKPermutations
<1>2. Cardinality(s) \in Nat
  BY FS_Subset, FS_CardinalityType
<1>3. PICK n \in Nat : n = Cardinality(s)
  BY <1>2
<1>4. order \in [1 .. n -> s] /\ \A i, j \in 1 .. n : i # j => order[i] # order[j]
  BY <1>1, <1>3 DEF SetToSeqs
<1>5. order \in [1 .. n -> S]
  BY <1>4
<1>6. order \in Seq(S) /\ Len(order) = n
  BY <1>3, <1>5
<1>7. QED
  BY <1>4, <1>6

LEMMA BeginningToSortKeeps ==
    ASSUME HandleAssumption, ToolInv, begin_sorting
    PROVE  ToolInv'
<1>1. ListInv /\ CallInv /\ SortInv /\ list \in Seq(Rows)
  BY DEF ToolInv, ListInv
<1>2. call.at = "idle" /\ UNCHANGED <<list, call, told, edits>>
  BY DEF begin_sorting
<1>3. PICK names : names = list_of(list_agent_connections(list))
  OBVIOUS
<1>4. PICK order \in SetToAllKPermutations(names) :
         Len(order) = Len(list) /\ sorting' = [order |-> order, next |-> 1, since |-> edits]
  BY <1>3 DEF begin_sorting
<1>5. names = {handle_of(list[i]) : i \in DOMAIN list}
  BY <1>3 DEF list_of, list_agent_connections
<1>6. names \subseteq Handles
  <2>1. \A i \in DOMAIN list : list[i] \in Rows
    BY <1>1
  <2>2. QED
    BY <1>5, <2>1, HandlesAreNames
<1>7. IsFiniteSet(names)
  BY <1>6, FS_Subset DEF HandleAssumption
<1>8. order \in Seq(names) /\ \A m, n \in 1 .. Len(order) : m # n => order[m] # order[n]
  BY <1>7, OrderOfNames
<1>9. order \in Seq(Handles)
  BY <1>6, <1>8
<1>10. DOMAIN list = 1 .. Len(order) /\ \A m \in DOMAIN list : m \in Nat /\ m >= 1 /\ order[m] \in names
  BY <1>1, <1>4, <1>8
<1>11. CallInv'
  BY <1>1, <1>2, <1>4, <1>9 DEF CallInv
<1>12. ListInv'
  BY <1>1, <1>2 DEF ListInv, Apart
<1>13. SortInv'
  <2>1. sorting'.order = order /\ sorting'.next = 1 /\ call'.at = "idle" /\ list' = list
    BY <1>2, <1>4
  <2>2. \A m \in DOMAIN list' : ~ (m < sorting'.next)
    BY <1>10, <2>1
  <2>3. \A m \in DOMAIN list' : \E i \in DOMAIN list' : handle_of(list'[i]) = sorting'.order[m]
    BY <1>5, <1>10, <2>1
  <2>4. Len(sorting'.order) = Len(list')
        /\ \A m, n \in DOMAIN list' : m # n => sorting'.order[m] # sorting'.order[n]
    BY <1>4, <1>8, <1>10, <2>1
  <2>5. WhatIsSorted'
    BY <2>3, <2>4 DEF WhatIsSorted, handle_of
  <2>6. QED
    BY <2>1, <2>2, <2>5 DEF SortInv
<1>14. QED
  BY <1>11, <1>12, <1>13 DEF ToolInv

LEMMA SortingOnKeeps ==
    ASSUME ToolInv, sort_on
    PROVE  ToolInv'
<1>1. ListInv /\ CallInv /\ SortInv
  BY DEF ToolInv
<1>2. /\ call.at = "idle" /\ sorting.next <= Len(sorting.order) /\ UNCHANGED <<list, edits, sorting>>
      /\ call' = [tool |-> "move", at |-> "resolve", handles |-> <<sorting.order[sorting.next]>>,
                  ids |-> <<>>, position |-> sorting.next - 1]
  BY DEF sort_on
<1>3. sorting.order[sorting.next] \in Handles /\ sorting.next - 1 \in Nat
  BY <1>1, <1>2 DEF CallInv
<1>4. <<sorting.order[sorting.next]>> \in Seq(Handles) /\ <<sorting.order[sorting.next]>> # <<>>
      /\ <<>> \in Seq(Ids)
  BY <1>3
<1>5. CallInv'
  BY <1>1, <1>2, <1>3, <1>4 DEF CallInv, Naming
<1>6. ListInv'
  BY <1>1, <1>2 DEF ListInv, Apart
<1>7. SortInv'
  <2> SUFFICES ASSUME SortsAlone'
               PROVE  /\ WhatIsSorted' /\ \A m \in DOMAIN list : m < sorting.next => InOrder(m)'
                      /\ TheNextMove'
    BY <1>2 DEF SortInv
  <2>1. WhatIsSorted /\ \A m \in DOMAIN list : m < sorting.next => InOrder(m)
    BY <1>1, <1>2 DEF SortInv, SortsAlone
  <2>2. TheNextMove'
    BY <1>2, <2>1 DEF TheNextMove, WhatIsSorted
  <2>3. QED
    BY <1>2, <2>1, <2>2 DEF WhatIsSorted, InOrder, handle_of
<1>8. QED
  BY <1>5, <1>6, <1>7 DEF ToolInv

LEMMA StoppingKeeps ==
    ASSUME ToolInv, stop_sorting
    PROVE  ToolInv'
<1>1. ListInv /\ CallInv /\ UNCHANGED <<list, call, edits>>
      /\ sorting' = [order |-> <<>>, next |-> 1, since |-> 0]
  BY DEF ToolInv, stop_sorting
<1>2. <<>> \in Seq(Handles)
  OBVIOUS
<1>3. CallInv'
  BY <1>1, <1>2 DEF CallInv
<1>4. QED
  BY <1>1, <1>3, OthersKeep DEF ListInv, Apart, SortsAlone

LEMMA OperatorKeeps ==
    ASSUME HandleAssumption, ToolInv, operator
    PROVE  ToolInv'
<1>1. ListInv /\ CallInv /\ list \in Seq(Rows) /\ Apart(list) /\ DOMAIN list = 1 .. Len(list)
      /\ Len(list) \in Nat
  BY DEF ToolInv, ListInv
<1>2. ASSUME NEW rows \in Seq(Rows), Apart(rows), edit(rows) PROVE ToolInv'
  <2>1. list' = rows /\ edits' = edits + 1 /\ UNCHANGED <<call, sorting>>
    BY <1>2 DEF edit
  <2>2. ListInv'
    BY <1>2, <2>1 DEF ListInv, Apart
  <2>3. CallInv' /\ ~ SortsAlone'
    BY <1>1, <2>1 DEF CallInv, SortsAlone
  <2>4. QED
    BY <2>2, <2>3, OthersKeep
<1>3. CASE operator_aliases
  <2>1. PICK i \in DOMAIN list, alias \in Handles \union {NoAlias} :
           /\ alias # NoAlias => handle_is_free(list, alias, list[i].id)
           /\ edit([list EXCEPT ![i].alias = alias])
    BY <1>3 DEF operator_aliases
  <2>2. PICK t : t = [list EXCEPT ![i].alias = alias]
    OBVIOUS
  <2>3. i \in 1 .. Len(list)
    BY <1>1
  <2>4. t \in Seq(Rows) /\ Apart(t)
    BY <1>1, <2>1, <2>2, <2>3, AliasedStayApart
  <2>5. QED
    BY <1>2, <2>1, <2>2, <2>4
<1>4. CASE operator_opens
  <2>1. PICK i \in DOMAIN list : edit([list EXCEPT ![i].open = ~ @])
    BY <1>4 DEF operator_opens
  <2>2. PICK y \in Rows : y = list[i]
    BY <1>1
  <2>3. PICK x : x = [y EXCEPT !.open = ~ y.open]
    OBVIOUS
  <2>4. (~ y.open) \in BOOLEAN
    OBVIOUS
  <2>5. x \in Rows
    BY <2>3, <2>4, Zenon DEF Rows
  <2>6. x.id = list[i].id /\ x.alias = list[i].alias
    BY <2>2, <2>3 DEF Rows
  <2>7. PICK t : t = [list EXCEPT ![i] = x]
    OBVIOUS
  <2>8. i \in 1 .. Len(list)
    BY <1>1
  <2>9. t \in Seq(Rows) /\ Apart(t)
    BY <1>1, <2>5, <2>6, <2>7, <2>8, ChangedStayApart
  <2>10. [list EXCEPT ![i].open = ~ @] = t
    BY <2>2, <2>3, <2>7, Zenon
  <2>11. QED
    BY <1>2, <2>1, <2>9, <2>10, Zenon
<1>5. CASE operator_moves
  <2>1. PICK i, j \in DOMAIN list : edit(moved(list, i, j - 1))
    BY <1>5 DEF operator_moves
  <2>2. PICK index : index = j - 1
    OBVIOUS
  <2>3. index \in 0 .. Len(list) - 1 /\ i \in 1 .. Len(list)
    BY <1>1, <2>2
  <2>4. PICK t : t = moved(list, i, index)
    OBVIOUS
  <2>5. t \in Seq(Rows) /\ Apart(t)
    BY <1>1, <2>3, <2>4, MovedStayApart
  <2>6. QED
    BY <1>2, <2>1, <2>2, <2>4, <2>5
<1>6. CASE operator_deletes
  <2>1. PICK i \in DOMAIN list : edit(RemoveAt(list, i))
    BY <1>6 DEF operator_deletes
  <2>2. PICK t : t = RemoveAt(list, i)
    OBVIOUS
  <2>3. i \in 1 .. Len(list)
    BY <1>1
  <2>4. t \in Seq(Rows) /\ Apart(t)
    BY <1>1, <2>2, <2>3, RemovedStayApart
  <2>5. QED
    BY <1>2, <2>1, <2>2, <2>4
<1>7. QED
  BY <1>3, <1>4, <1>5, <1>6 DEF operator

LEMMA ToolSafe ==
    ASSUME HandleAssumption
    PROVE  ToolSpec => []ToolInv
<1>1. ToolInit => ToolInv
  <2> SUFFICES ASSUME ToolInit PROVE ToolInv
    OBVIOUS
  <2>1. call = NoTool /\ edits = 0 /\ sorting = [order |-> <<>>, next |-> 1, since |-> 0]
    BY DEF ToolInit
  <2>2. <<>> \in Seq(Handles)
    OBVIOUS
  <2>3. CallInv
    BY <2>1, <2>2, NoToolIsACall DEF CallInv
  <2>4. SortInv
    BY <2>1 DEF SortInv, SortsAlone
  <2>5. PICK order \in SetToAllKPermutations(Ids), aliased \in Ids, alias \in Aliases \union {NoAlias} :
           list = [i \in DOMAIN order |-> [Row(order[i]) EXCEPT
                      !.alias = IF order[i] = aliased THEN alias ELSE NoAlias]]
    BY DEF ToolInit
  <2>6. IsFiniteSet(Ids)
    BY FS_Subset DEF HandleAssumption, Handles
  <2>7. order \in Seq(Ids) /\ \A m, n \in 1 .. Len(order) : m # n => order[m] # order[n]
    BY <2>6, OrderOfNames
  <2>8. DOMAIN order = 1 .. Len(order) /\ Len(order) \in Nat
    BY <2>7
  <2>9. ASSUME NEW i \in DOMAIN order
        PROVE  /\ list[i] \in Rows /\ list[i].id = order[i]
               /\ list[i].alias = IF order[i] = aliased THEN alias ELSE NoAlias
    <3>1. PICK named : named = IF order[i] = aliased THEN alias ELSE NoAlias
      OBVIOUS
    <3>2. named \in Handles \union {NoAlias} /\ order[i] \in Ids
      BY <2>7, <3>1 DEF Handles
    <3>3. PICK x : x = Row(order[i])
      OBVIOUS
    <3>4. x \in Rows /\ x.id = order[i]
      BY <3>2, <3>3 DEF Row, Rows
    <3>5. list[i] = [x EXCEPT !.alias = named]
      BY <2>5, <3>1, <3>3
    <3>6. list[i] \in Rows /\ list[i].id = order[i] /\ list[i].alias = named
      BY <3>2, <3>4, <3>5 DEF Rows
    <3>7. QED
      BY <3>1, <3>6
  <2>10. DOMAIN list = DOMAIN order
    BY <2>5
  <2>11. list \in Seq(Rows)
    <3>1. PICK n \in Nat : n = Len(order)
      BY <2>8
    <3>2. list = [i \in 1 .. n |-> list[i]]
      BY <2>5, <2>8, <3>1
    <3>3. list \in [1 .. n -> Rows]
      BY <2>8, <2>9, <3>1, <3>2
    <3>4. QED
      BY <3>3
  <2>12. ASSUME NEW i \in DOMAIN list, NEW j \in DOMAIN list, i # j PROVE Differ(list[i], list[j])
    <3>1. order[i] # order[j] /\ order[i] \in Ids /\ order[j] \in Ids
      BY <2>7, <2>8, <2>10, <2>12
    <3>2. list[i].id = order[i] /\ list[j].id = order[j]
      BY <2>9, <2>10
    <3>3. list[i].alias # NoAlias =>
             order[i] = aliased /\ list[i].alias = alias /\ alias \in Aliases /\ list[j].alias = NoAlias
      BY <2>9, <2>10, <3>1
    <3>4. list[i].alias # NoAlias => list[i].alias # order[j]
      BY <3>1, <3>3 DEF HandleAssumption
    <3>5. QED
      BY <3>1, <3>2, <3>3, <3>4 DEF Differ
  <2>13. QED
    BY <2>3, <2>4, <2>11, <2>12 DEF ToolInv, ListInv, Apart
<1>2. ASSUME ToolInv, [ToolNext]_ToolVars PROVE ToolInv'
  <2>1. CASE UNCHANGED <<list, call, edits, sorting>>
    BY <1>2, <2>1 DEF ToolInv, ListInv, Apart, CallInv, SortInv, SortsAlone, WhatIsSorted, InOrder,
                      TheNextMove, handle_of
  <2>2. CASE gone \/ search_schema \/ run_write \/ export_connections
    <3>1. UNCHANGED <<list, edits, sorting>> /\ call.at = "act"
      BY <2>2 DEF gone, search_schema, run_write, export_connections, acts
    <3>2. \E error, names : answered(error, names)
      BY <2>2 DEF gone, search_schema, run_write, export_connections
    <3>3. QED
      BY <1>2, <3>1, <3>2, AnsweringKeeps
  <2>3. CASE ToolNext
    BY <1>2, <2>1, <2>2, <2>3, CallingKeeps, ResolvingKeeps, MarkingKeeps, MovingKeeps, ListingKeeps,
       AddingKeeps, BeginningToSortKeeps, SortingOnKeeps, StoppingKeeps, OperatorKeeps
    DEF ToolNext, list_connections
  <2>4. QED
    BY <1>2, <2>1, <2>3 DEF ToolVars
<1>3. QED
  BY <1>1, <1>2, PTL DEF ToolSpec

(***************************************************************************)
(* Every handle the list hands out leads to the row it was listed for, for *)
(* any number of connections and aliases, whatever the operator renames,   *)
(* moves and deletes meanwhile (handle_is_free, resolve_agent_handle).     *)
(***************************************************************************)
THEOREM HandlesAreOneNameSpace ==
    ASSUME HandleAssumption
    PROVE  ToolSpec => []HandlesFindTheirEntry
<1>1. ASSUME ToolInv, NEW i \in DOMAIN list
      PROVE  resolve_agent_handle(list, list_agent_connections(list)[i]) = list[i].id
  <2>1. list_agent_connections(list)[i] = handle_of(list[i])
    BY DEF list_agent_connections
  <2>2. resolve_agent_handle(list, handle_of(list[i])) = list[i].id
    BY <1>1, HandleFinds DEF ToolInv, ListInv
  <2>3. QED
    BY <2>1, <2>2
<1>2. ToolInv => HandlesFindTheirEntry
  BY <1>1 DEF HandlesFindTheirEntry
<1>3. QED
  BY <1>2, ToolSafe, PTL

(***************************************************************************)
(* An agent that moves one connection at a time to the front sorts the     *)
(* list, whatever its length and the order asked for, while the operator   *)
(* leaves it alone (move_connection, move_to).                             *)
(***************************************************************************)
THEOREM MovingFromTheFrontSorts ==
    ASSUME HandleAssumption
    PROVE  ToolSpec => []SortByMoves
<1>1. ASSUME ToolInv, SortsAlone, call.at = "idle", sorting.next > Len(sorting.order)
      PROVE  list_agent_connections(list) = sorting.order
  <2>1. list \in Seq(Rows) /\ sorting.order \in Seq(Handles) /\ sorting.next \in Nat
    BY <1>1 DEF ToolInv, ListInv, CallInv
  <2>2. Len(sorting.order) = Len(list) /\ \A m \in DOMAIN list : m < sorting.next => InOrder(m)
    BY <1>1 DEF ToolInv, SortInv, WhatIsSorted
  <2>3. \A m \in DOMAIN list : handle_of(list[m]) = sorting.order[m]
    BY <1>1, <2>1, <2>2 DEF InOrder
  <2>4. PICK n \in Nat : n = Len(list) /\ DOMAIN list = 1 .. n /\ DOMAIN sorting.order = 1 .. n
    BY <2>1, <2>2
  <2>5. sorting.order = [m \in 1 .. n |-> sorting.order[m]]
    BY <2>1, <2>4
  <2>6. list_agent_connections(list) = [m \in 1 .. n |-> handle_of(list[m])]
    BY <2>4 DEF list_agent_connections
  <2>7. QED
    BY <2>3, <2>4, <2>5, <2>6
<1>2. ToolInv => SortByMoves
  BY <1>1 DEF SortByMoves, SortsAlone
<1>3. QED
  BY <1>2, ToolSafe, PTL
=============================================================================
