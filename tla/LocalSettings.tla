----------------------------- MODULE LocalSettings -----------------------------
(***************************************************************************)
(* ui-settings.toml: the language, which the window and every agent's      *)
(* server may set, beside the theme and the warning threshold, which the   *)
(* user edits there; and the window that follows it (ui_settings.rs,       *)
(* McpService::set_ui_locale, ui_state.rs).  update-attempt.toml: what the *)
(* next start is told about an update (update_attempt.rs).                 *)
(***************************************************************************)
EXTENDS Naturals, FiniteSets

CONSTANTS
    Servers,        \* the processes that set the language: the window and agents
    Locales,        \* SUPPORTED_LOCALES
    Themes,         \* what the rest of the file says; one of them is its default
    DefaultTheme,
    None,           \* no language chosen
    Versions,       \* versions of the program
    MaxChanges      \* bound: settings changed, updates recorded

VARIABLES
    settings,       \* the file: locale and theme, or "unreadable" to this build
    staged,         \* a leftover of a save is in the way
    loaded,         \* of each server: what it read and is about to write, or None
    announced,      \* the watcher's locale: what the window shows
    changes,        \* changes so far
    theme_of,       \* history: the theme the user last wrote, the default if this build cannot read it
    attempt,        \* update-attempt.toml: from and to, or None
    version,        \* the version that is installed
    launched,       \* the window has started and asked take_stalled_update
    asked,          \* history: a start has asked since the last attempt was recorded
    wrong           \* history: an update was reported at a later start than that

SettingsVars == <<settings, staged, loaded, announced, changes, theme_of, attempt, version, launched,
                  asked, wrong>>
FileVars == <<settings, staged, loaded, announced, theme_of>>
UpdateVars == <<attempt, version, launched, asked, wrong>>

file(l, t) == [locale |-> l, theme |-> t]
defaults == file(None, DefaultTheme)
Readable == [locale : Locales \cup {None}, theme : Themes]
unreadable == file("unreadable", "unreadable")

SettingsInit ==
    /\ settings \in {file(l, t) : l \in Locales \cup {None}, t \in Themes}
    /\ staged = FALSE
    /\ loaded = [s \in Servers |-> None]
    /\ announced = settings.locale
    /\ changes = 0
    /\ theme_of = settings.theme
    /\ attempt = None /\ version \in Versions /\ launched = FALSE
    /\ asked = TRUE /\ wrong = FALSE

\* load_or_default: any problem reads as the defaults.
load_or_default == IF settings = unreadable THEN defaults ELSE settings
-------------------------------------------------------------------------------
\* set_ui_locale reads the file; a near miss of a code was refused before that.
load(s) ==
    /\ loaded[s] = None /\ changes < MaxChanges
    /\ loaded' = [loaded EXCEPT ![s] = load_or_default]
    /\ changes' = changes + 1
    /\ UNCHANGED <<settings, staged, announced, theme_of, UpdateVars>>

\* ... and writes it back whole, with the locale in it.
with_locale(f, l) == [f EXCEPT !.locale = l]

set_ui_locale(s, l) ==
    /\ loaded[s] # None
    /\ loaded' = [loaded EXCEPT ![s] = None]
    /\ \/ ~ staged /\ settings' = with_locale(loaded[s], l) /\ UNCHANGED staged
       \/ UNCHANGED settings /\ staged' \in {staged, TRUE}
    /\ UNCHANGED <<announced, changes, theme_of, UpdateVars>>

\* The user edits the file, or a newer build writes it, while nobody is between
\* reading and writing it.  He also takes away a leftover.
user_edits(f) ==
    /\ \A s \in Servers : loaded[s] = None
    /\ changes < MaxChanges /\ changes' = changes + 1
    /\ settings' = f
    /\ theme_of' = (IF f = unreadable THEN DefaultTheme ELSE f.theme)
    /\ UNCHANGED <<staged, loaded, announced, UpdateVars>>
clean == staged /\ staged' = FALSE /\ UNCHANGED <<settings, loaded, announced, changes, theme_of, UpdateVars>>

\* locale_change compares the values: a language is announced when it differs, no
\* language included.
locale_change(previous, current) == current

\* One turn of watch_ui_locale.
watch_ui_locale ==
    /\ announced' = locale_change(announced, load_or_default.locale)
    /\ UNCHANGED <<settings, staged, loaded, changes, theme_of, UpdateVars>>
-------------------------------------------------------------------------------
(***************************************************************************)
(* Updates: the attempt is written down, then the installer runs, which    *)
(* may do nothing; either way the program starts again.                    *)
(***************************************************************************)
record_update_attempt(to) ==
    /\ launched /\ changes < MaxChanges /\ changes' = changes + 1
    /\ attempt' = [from |-> version, to |-> to]
    /\ version' \in {version, to}
    /\ launched' = FALSE
    /\ asked' = FALSE
    /\ UNCHANGED <<wrong, FileVars>>

\* The user installs a version himself.
install(v) ==
    /\ changes < MaxChanges /\ changes' = changes + 1
    /\ version' = v /\ launched' = FALSE
    /\ UNCHANGED <<attempt, asked, wrong, FileVars>>

\* take removes the attempt whatever it says, and reports it if the version that
\* runs is still the one it was to replace.
taken_if_stalled(a) == IF a # None /\ a.from = version THEN None ELSE a
take_attempt(a) == None

take_stalled_update ==
    /\ ~ launched /\ launched' = TRUE
    /\ attempt' = take_attempt(attempt)
    /\ asked' = TRUE
    /\ wrong' = (wrong \/ (attempt # None /\ attempt.from = version /\ asked))
    /\ UNCHANGED <<version, changes, FileVars>>

restart == launched /\ launched' = FALSE /\ UNCHANGED <<attempt, version, asked, wrong, changes, FileVars>>

SettingsNext ==
    \/ clean \/ watch_ui_locale
    \/ \E f \in Readable \cup {unreadable} : user_edits(f)
    \/ \E s \in Servers : load(s) \/ \E l \in Locales : set_ui_locale(s, l)
    \/ \E v \in Versions : record_update_attempt(v) \/ install(v)
    \/ take_stalled_update \/ restart

SettingsSpec == SettingsInit /\ [][SettingsNext]_SettingsVars /\ WF_SettingsVars(watch_ui_locale)
-------------------------------------------------------------------------------
(***************************************************************************)
(* Setting the language never changes the theme, whichever processes set   *)
(* it at the same time and whichever writes fail (set_ui_locale loads,     *)
(* changes one field and saves).                                           *)
(***************************************************************************)
LocaleKeepsTheRest == load_or_default.theme = theme_of

(***************************************************************************)
(* An update that did not land is reported at the first start after it     *)
(* was tried or not at all, also when the user goes back to the version it *)
(* was tried from (take removes the file before it looks at it).           *)
(***************************************************************************)
StalledIsReportedAtOnce == ~ wrong

(***************************************************************************)
(* The window follows the file: it comes to show the language the file     *)
(* names, or the system's once it names none (watch_ui_locale).            *)
(***************************************************************************)
WindowFollowsTheFile == []<>(announced = load_or_default.locale)
=============================================================================
