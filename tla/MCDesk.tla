-------------------------------- MODULE MCDesk --------------------------------
(***************************************************************************)
(* The components of the desktop application that share no state, checked  *)
(* in one run: part says which of them a behaviour is about, s1, s2, ...   *)
(* are that component's variables, and its name in a property stands for   *)
(* the module it instantiates.                                             *)
(***************************************************************************)
EXTENDS Integers, Sequences, FiniteSets, TLC

CONSTANTS
    Nil, Unused,    \* model values: nothing; the value of a variable not in use
    a, b, v1, v2      \* ids and secrets of saved connections

\* No id and no secret is special, and only one part has them.
Alike == Permutations({a, b}) \cup Permutations({v1, v2})

VARIABLES part, s1, s2, s3, s4, s5, s6, s7, s8, s9, s10, s11

all == <<s1, s2, s3, s4, s5, s6, s7, s8, s9, s10, s11>>
\* The variables from s<n> on are not in use.
Rest(n) ==
    /\ IF n <= 2 THEN s2 = Unused ELSE TRUE
    /\ IF n <= 3 THEN s3 = Unused ELSE TRUE
    /\ IF n <= 4 THEN s4 = Unused ELSE TRUE
    /\ IF n <= 5 THEN s5 = Unused ELSE TRUE
    /\ IF n <= 6 THEN s6 = Unused ELSE TRUE
    /\ IF n <= 7 THEN s7 = Unused ELSE TRUE
    /\ IF n <= 8 THEN s8 = Unused ELSE TRUE
    /\ IF n <= 9 THEN s9 = Unused ELSE TRUE
    /\ IF n <= 10 THEN s10 = Unused ELSE TRUE
    /\ IF n <= 11 THEN s11 = Unused ELSE TRUE
RestStays(n) ==
    /\ IF n <= 2 THEN UNCHANGED s2 ELSE TRUE
    /\ IF n <= 3 THEN UNCHANGED s3 ELSE TRUE
    /\ IF n <= 4 THEN UNCHANGED s4 ELSE TRUE
    /\ IF n <= 5 THEN UNCHANGED s5 ELSE TRUE
    /\ IF n <= 6 THEN UNCHANGED s6 ELSE TRUE
    /\ IF n <= 7 THEN UNCHANGED s7 ELSE TRUE
    /\ IF n <= 8 THEN UNCHANGED s8 ELSE TRUE
    /\ IF n <= 9 THEN UNCHANGED s9 ELSE TRUE
    /\ IF n <= 10 THEN UNCHANGED s10 ELSE TRUE
    /\ IF n <= 11 THEN UNCHANGED s11 ELSE TRUE

Ai == INSTANCE AiProviders WITH
    disk <- s1, tmp <- s2, keys <- s3, admin <- s4, slot <- s5, running <- s6, env <- s7,
    excused <- s8, Ids <- {"p", "q"}, Kinds <- {"openai"}, Models <- {"m"}, Keys <- {"k", "l"},
    None <- Nil, EnvKeys <- {Nil}, AiFaults <- {"get", "set", "delete", "save", "kill"}

Stream == INSTANCE AiStream WITH
    phase <- s1, vendor <- s2, described <- s3, warnings <- s4, prompt <- s5, sent <- s6,
    running <- s7, acc <- s8, cancel <- s9, pressed <- s10, cleared <- s11,
    Requests <- {"q", "r"}, Tables <- {"t"}, MaxFrames <- 2

Notes == INSTANCE LocalNotes WITH
    disk <- s1, tmp <- s2, open <- s3, held <- s4, promised <- s5,
    Windows <- {"w1", "w2"}, Places <- {"p", "q"}, Texts <- {"a"}, Blank <- "blank"

Form == INSTANCE ConnectionForm WITH
    entry <- s1, held <- s2, slots <- s3, form <- s4, touched <- s5, moved <- s6,
    unpurged <- s7, opened <- s8,
    Kinds <- {"file", "dsn", "redis", "mongodb", "token", "firestore"},
    Queries <- {"", "tls off"}, MaxTouches <- 2, MaxForms <- 1

Bastions ==
    {<<>>} \cup {<<[port |-> 2222, ways |-> w]>> :
        w \in {{"key_path", "fingerprint"}, {"key_path", "passphrase", "known_hosts"},
               {"password", "fingerprint"}, {"password", "key_path", "fingerprint"},
               {"password", "passphrase", "known_hosts"},
               {"key_path", "fingerprint", "known_hosts"}}}
an_url(valid, host, port, database, tls) ==
    [valid |-> valid, host |-> host, port |-> port, database |-> database, rest |-> "rest",
     tls |-> tls]
Listed(ids, kinds) ==
    {[id |-> id, kind |-> kind, cluster |-> FALSE, ssh |-> ssh] :
        id \in ids, kind \in kinds, ssh \in Bastions}
Keychains(urls) ==
    {[secret |-> secret, ssh |-> ssh] :
        secret \in {<<>>} \cup {<<u>> : u \in urls}, ssh \in BOOLEAN}
boot(process, file, selector, keychain) ==
    [process |-> process, file |-> file, selector |-> selector, keychain |-> keychain]

\* Some of the variables of a backend, one of them blank or none, with every
\* choice of those of the bastion; then files of one and of two connections
\* with nothing set but the selector.
Environments ==
    LET backends == SUBSET {"neon_url", "mysql_url", "mongodb_uri", "turso_path"}
                    \cup SUBSET {"d1_account_id", "d1_database_id", "d1_token", "turso_path"}
                    \cup SUBSET {"supabase_url", "firestore_project_id",
                                 "firestore_service_account"}
        bastions == {{}} \cup {{"host"} \cup s :
                                s \in SUBSET {"user", "key_path", "password", "port",
                                              "fingerprint", "known_hosts"}}
    IN  {[v \in b1 \cup b2 |-> IF v = blank THEN " " ELSE IF v = "port" THEN port ELSE "value"] :
            b1 \in backends, b2 \in bastions, blank \in {"none", "neon_url", "d1_token", "user"},
            port \in {"number", "typo"}}
TriedBoots ==
    {boot(p, <<>>, <<>>, [secret |-> <<>>, ssh |-> FALSE]) : p \in Environments}
    \cup {boot(<<>>, f, selector, k) :
             f \in {<<e>> : e \in Listed({"x"}, {"postgres", "mongodb", "memorydb", "turso"})}
                   \cup {<<e, o>> : e \in Listed({"x"}, {"neon", "memorydb"}),
                                    o \in Listed({"x", "y"}, {"redis", "turso"})},
             selector \in {<<>>, <<" ">>, <<"x">>, <<"y">>},
             k \in Keychains({an_url(TRUE, "db", 0, "shop", tls) : tls \in BOOLEAN})}
TriedOpens ==
    {[entry |-> e, keychain |-> k, database |-> d] :
        e \in Listed({"x"}, {"postgres", "mysql", "aurora-dsql", "memorydb", "mongodb", "emulator"}),
        k \in Keychains({an_url(valid, host, port, database, tls) :
                            valid \in BOOLEAN, host \in {"db", ""}, port \in {0, 7000},
                            database \in {"", "shop"}, tls \in BOOLEAN}),
        d \in {<<>>, <<" ">>, <<"shop">>, <<"other">>}}

Dials == INSTANCE Routes WITH
    given <- s1, told <- s2, Boots <- TriedBoots, Opens <- TriedOpens

ASSUME RouteCasesAssumption ==
    LET listed(e) == /\ e \in [id : STRING, kind : STRING, cluster : BOOLEAN,
                               ssh : Seq([port : Int, ways : SUBSET STRING])]
                     /\ e.id \notin {"env", "in-memory"} /\ Len(e.ssh) <= 1
        in_keyring(k) == /\ k \in [secret : Seq([valid : BOOLEAN, host : STRING, port : Int,
                                                 database : STRING, rest : STRING, tls : BOOLEAN]),
                                   ssh : BOOLEAN]
                         /\ Len(k.secret) <= 1
    IN  /\ \A c \in TriedBoots : /\ \A i \in DOMAIN c.file : listed(c.file[i])
                                 /\ in_keyring(c.keychain) /\ Len(c.selector) <= 1
        /\ \A o \in TriedOpens : listed(o.entry) /\ in_keyring(o.keychain) /\ Len(o.database) <= 1

Tools == INSTANCE AgentTools WITH
    list <- s1, call <- s2, told <- s3, edits <- s4, sorting <- s5,
    Ids <- {"a", "b"}, Aliases <- {"x"}, NoAlias <- "none", MaxEdits <- 2

Files == INSTANCE AgentFiles WITH
    bundles <- s1, slots <- s2, exporter <- s3, shot <- s4,
    Exporters <- {"p", "q", "r"}, MaxNameAttempts <- 2,
    Edges <- {1, 2, 5, 7}, MaxEdges <- {0, 2, 3}

\* Two windows on one profile; an agent that gives up waiting for the first
\* command gives a second one.
Windows == INSTANCE UiCommandChannel WITH
    caller <- s1, window <- s2, path <- s3, tmp <- s4, taken <- s5, carried <- s6,
    Nobody <- Nil, Calls <- {"c1", "c2"}, After <- [c \in {"c1", "c2"} |-> {"c1"} \ {c}],
    Windows <- {"w1", "w2"}, Sessions <- 1, Faults <- {"write"}

\* Two saved connections with two secrets, every call that can fail half way,
\* and bundles of one connection.
File == INSTANCE ConnectionFile WITH
    Ids <- {a, b}, Aliases <- {}, NoAlias <- Nil, Marks <- {Nil}, NoMark <- Nil

bundle(id, value) ==
    LET slots == File!minted(id, {"kind"})
    IN  [entries |-> <<[id |-> id, kind |-> "served", alias |-> Nil, mark |-> Nil,
                        refs |-> slots]>>,
         secrets |-> [r \in File!Refs |-> IF r \in slots THEN value ELSE Nil]]
OwnBundles == {bundle(id, value) : id \in {a, b}, value \in {v1, v2}}

Saved == INSTANCE ConnectionAdmin WITH
    disk <- s1, tmp <- s2, keyring <- s3, tx <- s4,
    Ids <- {a, b}, Aliases <- {}, NoAlias <- Nil, Marks <- {Nil}, NoMark <- Nil,
    Procs <- {"desktop"}, Values <- {v1, v2}, NoSecret <- Nil, NoRef <- Nil, NoId <- Nil,
    Untouched <- Unused, DraftKinds <- [p \in {"desktop"} |-> {"served"}],
    Calls <- [p \in {"desktop"} |->
                 {"add", "update", "delete", "move_to", "duplicate", "import_bundle"}],
    Bundles <- OwnBundles, Faults <- {"get", "put", "tmp", "rename"}, Crashes <- FALSE

\* The abstract store; an empty one stands for it in the other parts.
Store == INSTANCE ConnectionStore WITH
    list <- IF part = "saved" THEN Saved!saved_list ELSE <<>>,
    Secret <- {v1, v2},
    Bundled <- {Saved!with_secrets(given.entries[1], LAMBDA r : given.secrets[r]) :
                   given \in OwnBundles}
-------------------------------------------------------------------------------
Init ==
    \/ part = "ai" /\ Ai!AiInit /\ Rest(9)
    \/ part = "stream" /\ Stream!StreamInit /\ s2["q"] = "anthropic"
    \/ part = "notes" /\ Notes!NotesInit /\ Rest(6)
    \/ part = "form" /\ Form!FormInit /\ Rest(9)
    \/ part = "routes" /\ Dials!RouteInit /\ Rest(3)
    \/ part = "tools" /\ Tools!ToolInit /\ Rest(6)
    \/ part = "exports" /\ Files!FileInit /\ Rest(5)
    \/ part = "picture" /\ Files!FileInit /\ Rest(5)
    \/ part = "windows" /\ Windows!Init /\ Rest(7)
    \/ part = "saved" /\ Saved!Init /\ Rest(5)

Next ==
    /\ \/ part = "ai" /\ Ai!AiNext /\ RestStays(9)
       \/ part = "stream" /\ Stream!StreamNext
       \/ part = "notes" /\ Notes!NotesNext /\ RestStays(6)
       \/ part = "form" /\ Form!FormNext /\ RestStays(9)
       \/ part = "routes" /\ Dials!RouteNext /\ RestStays(3)
       \/ part = "tools" /\ Tools!ToolNext /\ RestStays(6)
       \/ /\ part = "exports" /\ RestStays(5)
          /\ \E e \in {"p", "q", "r"} : Files!export_named(e)
       \/ part = "picture" /\ s4 = Files!NoShot /\ Files!capture_window /\ RestStays(5)
       \/ part = "windows" /\ Windows!Next /\ RestStays(7)
       \/ part = "saved" /\ Saved!Next /\ RestStays(5)
    /\ UNCHANGED part

Spec == Init /\ [][Next]_<<part, all>>
-------------------------------------------------------------------------------
(***************************************************************************)
(* A window that is told its command was carried out carried it out, also  *)
(* where two windows watch one profile (UiCommandChannel!SuccessIsMine).   *)
(***************************************************************************)
SuccessIsMine == part = "windows" => Windows!SuccessIsMine

(***************************************************************************)
(* What is saved can be used again, whichever step of a save fails: every  *)
(* AI provider has its key and the assistant talks to the active one, and  *)
(* a note or query whose save failed is not held as if it had been saved   *)
(* (AiProviders, LocalNotes).                                              *)
(***************************************************************************)
SavedThingsAreUsable ==
    /\ part = "ai" => Ai!EveryProviderHasItsKey /\ Ai!SlotFollowsActive
    /\ part = "notes" => Notes!FailedSaveLeavesNoTrace

(***************************************************************************)
(* A connection leads where it was saved to lead: the keychain holds what  *)
(* the saved entry says, a save of the form changes what the user touched, *)
(* and what is dialled is what was saved, behind its tunnel and under its  *)
(* own label (ConnectionForm, Routes).                                     *)
(***************************************************************************)
ConnectionsLeadWhereSaved ==
    /\ [](part = "form" => Form!SecretsMatchTheEntry)
    /\ [](part = "routes" =>
             /\ Dials!LabelNamesTheBackend /\ Dials!TunnelIsNeverDropped
             /\ Dials!DialledIsWhatWasSaved)
    /\ [][part = "form" => Form!OnlyWhatWasTouchedChanges]_<<part, all>>

(***************************************************************************)
(* An agent is answered about the connection it named and the list ends up *)
(* in the order it moved it to; a bundle it exports can be opened with the *)
(* passphrase that was kept, and a picture shows the whole window          *)
(* (AgentTools, AgentFiles).                                               *)
(***************************************************************************)
AgentGetsWhatItAskedFor ==
    /\ part = "tools" => Tools!HandlesFindTheirEntry /\ Tools!SortByMoves
    /\ part = "exports" => Files!BundleOpens
    /\ part = "picture" => Files!PictureIsOfTheApp

(***************************************************************************)
(* The assistant's answer is what the service sent, a cancel stops the     *)
(* answer it was meant for, and the prompt names every table or the panel  *)
(* warns (AiStream).                                                       *)
(***************************************************************************)
AnswersAreWholeOrStopped ==
    part = "stream" =>
        Stream!AnswerIsWhatWasSent /\ Stream!CancelIsForThisAnswer /\ Stream!PromptNamesOrWarns

(***************************************************************************)
(* Every call takes effect at once, when its file replaces the old one, or *)
(* not at all: file and keychain together implement ConnectionStore        *)
(* (sync, the writes, save_atomic and the two best-effort endings).        *)
(***************************************************************************)
CallsAreAtomic == Store!Spec

\* No failed call leaves a secret behind that no connection points at, and one
\* that fails leaves every secret as it found it (the rollbacks of the
\* mutators, admin.rs).
NoOrphanIsLeft == part = "saved" => Saved!NoOrphanSecret
FailureRestoresSecrets == [][part = "saved" => Saved!restores_secrets("desktop")]_<<part, all>>
===============================================================================
