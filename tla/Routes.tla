-------------------------------- MODULE Routes --------------------------------
(***************************************************************************)
(* From what is configured to what is dialled: dbboard-connect's           *)
(* config.rs, ssh.rs, scope.rs and backend.rs, the loader's checks in      *)
(* store.rs, and the build of an adapter in McpService.                    *)
(*                                                                         *)
(* At boot the environment, the saved connections and the keychain decide  *)
(* on a backend and on the label its statements are kept under.  A saved   *)
(* connection that is opened becomes a backend, is pointed at a database,  *)
(* and is dialled, through its bastion where it has one.                   *)
(***************************************************************************)
EXTENDS Integers, FiniteSets, SequencesExt

CONSTANTS Boots,   \* what may be configured at boot: an environment, a file, a keychain
          Opens    \* the connections that are opened, and the database asked for

VARIABLES given, told   \* what a resolution starts from, and what comes of it

RouteVars == <<given, told>>

\* What there may be one of or none.
None == <<>>
Some(x) == <<x>>
Error(why) == [error |-> why]
failed(answer) == DOMAIN answer = {"error"}

\* BackendConfig: the url of a kind that has none is nothing, and so is one of
\* the environment, which is only set or not.
Backend(kind, source, url, ssh, cluster) ==
    [kind |-> kind, source |-> source, url |-> url, ssh |-> ssh, cluster |-> cluster]

---------------------------------------------------------------------------
(* The bastion, of the environment or of a saved connection: where, how to *)
(* log in, and how to know it.                                             *)

one_of(set, x, y) == (x \in set) # (y \in set)

\* ResolvedSsh.  A passphrase beside a password is not looked at.
ResolvedSsh(set, port) ==
    [port |-> port,
     auth |-> IF "password" \in set THEN {"password"} ELSE set \intersect {"key_path", "passphrase"},
     host_key |-> CHOOSE k \in set : k \in {"fingerprint", "known_hosts"}]
unambiguous(set) ==
    one_of(set, "key_path", "password") /\ one_of(set, "fingerprint", "known_hosts")

---------------------------------------------------------------------------
(* The environment. *)

Blank == " "
non_empty(text) == IF text = Some(Blank) THEN None ELSE text

\* EnvSnapshot::from_process: a variable that is blank is not set.
from_process(process) == {v \in DOMAIN process : process[v] # Blank}

trio == {"d1_account_id", "d1_database_id", "d1_token"}
UrlVars == {"aurora_dsql_url", "neon_url", "supabase_url", "pg_url", "mysql_url"}

\* The variables that make a backend of the environment, its kind and its
\* label, in the order they are asked for.  A Firestore project without a
\* service account is the local emulator's.
Step(vars, kind) == [vars |-> vars, kind |-> kind]
ENV_ORDER ==
    <<Step({"aurora_dsql_url"}, "aurora-dsql"), Step({"neon_url"}, "neon"),
      Step({"supabase_url"}, "supabase"), Step({"pg_url"}, "postgres"),
      Step({"mysql_url"}, "mysql"), Step(trio, "d1"),
      Step({"firestore_project_id"}, "firestore"), Step({"mongodb_uri"}, "mongodb")>>
first_of(order, env) == SelectInSeq(order, LAMBDA s : s.vars \subseteq env)

firestore_from_env(env) == IF "firestore_service_account" \in env THEN "firestore" ELSE "emulator"

resolve_from_env_only(env) ==
    LET i == first_of(ENV_ORDER, env)
        kind == IF i = 0 THEN "turso"
                ELSE IF ENV_ORDER[i].kind = "firestore" THEN firestore_from_env(env)
                ELSE ENV_ORDER[i].kind
    IN  Backend(kind, IF i = 0 /\ "turso_path" \notin env THEN "in-memory" ELSE "env",
                None, None, FALSE)

\* A port that is no number counts as not set.
OtherPort == 2222
ssh_port(process) ==
    IF "port" \in DOMAIN process /\ process["port"] = "number" THEN OtherPort ELSE 22

resolved_ssh_from_env(process) ==
    LET set == from_process(process)
    IN  IF "host" \notin set THEN [ssh |-> None]
        ELSE IF "user" \in set /\ unambiguous(set)
        THEN [ssh |-> Some(ResolvedSsh(set, ssh_port(process)))]
        ELSE Error("ssh invalid")

Tunnelled == {"postgres", "mysql", "neon", "supabase", "aurora-dsql", "redis", "memorydb"}

\* A bastion in front of a backend that cannot have one is an error.
attach_env_ssh(backend, process) ==
    LET bastion == resolved_ssh_from_env(process)
    IN  IF failed(bastion) THEN bastion
        ELSE IF bastion.ssh = None THEN backend
        ELSE IF backend.kind \in Tunnelled THEN [backend EXCEPT !.ssh = bastion.ssh]
        ELSE Error("ssh unsupported")

---------------------------------------------------------------------------
(* The saved connections. *)

supports_ssh_tunnel(kind) == kind \in Tunnelled

\* SshTunnelToml::validate.
validate(ssh) == unambiguous(ssh.ways) /\ ("passphrase" \in ssh.ways => "key_path" \in ssh.ways)

\* ConnectionFile::parse, of a file of this version: no id twice, and a bastion
\* only where it can be used, with one way in and one of knowing it.
parses(file) ==
    /\ \A i, j \in DOMAIN file : file[i].id = file[j].id => i = j
    /\ \A i \in DOMAIN file : \A ssh \in ToSet(file[i].ssh) :
         supports_ssh_tunnel(file[i].kind) /\ validate(ssh)

\* What the keychain is asked for: the url, the token or the key of the kind,
\* and the passphrase or the password of the bastion.
Keyless == {"turso", "emulator"}
asks_ssh_secret(entry) ==
    \E ssh \in ToSet(entry.ssh) : ssh.ways \intersect {"passphrase", "password"} # {}

\* ResolvedSsh::from_toml.
entry_ssh(entry) ==
    IF entry.ssh = None THEN None
    ELSE Some(ResolvedSsh(entry.ssh[1].ways, entry.ssh[1].port))

\* The kinds whose secret is the url they are dialled at.
UrlKinds == {"postgres", "neon", "supabase", "mysql", "aurora-dsql", "redis", "memorydb"}

\* MemoryDB takes TLS only, and is a cluster whatever the entry says.
redis_backend(entry, url) ==
    IF entry.kind = "memorydb" /\ ~url.tls THEN Error("tls required")
    ELSE Backend("redis", entry.id, Some(url), entry_ssh(entry),
                 entry.cluster \/ entry.kind = "memorydb")

\* A kind that cannot be tunnelled is not asked for its bastion.
entry_to_backend(entry, keychain) ==
    LET tunnelled == entry.kind \in Tunnelled
    IN  IF (entry.kind \notin Keyless /\ keychain.secret = None)
              \/ (tunnelled /\ asks_ssh_secret(entry) /\ ~keychain.ssh)
        THEN Error("secret")
        ELSE IF entry.kind \in {"redis", "memorydb"} THEN redis_backend(entry, keychain.secret[1])
        ELSE Backend(entry.kind, entry.id, IF entry.kind \in UrlKinds THEN keychain.secret ELSE None,
                     IF tunnelled THEN entry_ssh(entry) ELSE None, FALSE)

resolve_backend(b) ==
    LET env == from_process(b.process)
        from_env == \/ UrlVars \intersect env # {} \/ trio \subseteq env
                    \/ {"firestore_project_id", "mongodb_uri", "turso_path"} \intersect env # {}
        selector == non_empty(b.selector)
        named == SelectInSeq(b.file, LAMBDA e : Some(e.id) = selector)
    IN  IF from_env THEN attach_env_ssh(resolve_from_env_only(env), b.process)
        ELSE IF selector # None
        THEN IF named = 0 THEN Error("no such connection")
             ELSE entry_to_backend(b.file[named], b.keychain)
        ELSE IF Len(b.file) = 1 THEN entry_to_backend(b.file[1], b.keychain)
        ELSE Backend("turso", "in-memory", None, None, FALSE)

\* label_for, which reads the same settings by itself.
LABEL_ORDER ==
    <<Step({"aurora_dsql_url"}, "aurora-dsql"), Step({"neon_url"}, "neon"),
      Step({"supabase_url"}, "supabase"), Step({"pg_url"}, "postgres"),
      Step({"mysql_url"}, "mysql"), Step(trio, "d1"),
      Step({"firestore_project_id"}, "firestore"), Step({"mongodb_uri"}, "mongodb"),
      Step({"turso_path"}, "turso")>>

label_for(b) ==
    LET i == first_of(LABEL_ORDER, from_process(b.process))
        selector == non_empty(b.selector)
        ids == {e.id : e \in ToSet(b.file)}
    IN  IF i # 0 THEN <<"env", LABEL_ORDER[i].kind>>
        ELSE IF selector # None
        THEN IF selector[1] \in ids THEN selector ELSE <<"in-memory">>
        ELSE IF Len(b.file) = 1 THEN <<b.file[1].id>> ELSE <<"in-memory">>

---------------------------------------------------------------------------
(* The database, and the URL as far as routing changes it: rest stands for *)
(* what it leaves alone.  A text that is no URL has no parts.              *)

PostgresFamily == {"postgres", "neon", "supabase"}
Scoped == PostgresFamily \union {"mysql"}

with_database(url, database) ==
    IF ~url.valid THEN Error("not valid") ELSE [url EXCEPT !.database = database]

with_url(backend, url) == IF failed(url) THEN url ELSE [backend EXCEPT !.url = Some(url)]

scoped_to_database(backend, database) ==
    IF database = Blank THEN Error("a database name is required")
    ELSE IF backend.kind \in Scoped
    THEN with_url(backend, with_database(backend.url[1], database))
    ELSE Error("holds a single database")

\* parse_dsn tells nothing of a URL without a host, not even its database.
configured_database(backend) ==
    IF backend.kind \in Scoped /\ backend.url[1].valid /\ backend.url[1].host # ""
       /\ backend.url[1].database # ""
    THEN Some(backend.url[1].database) ELSE None

with_listing_default(backend) ==
    IF backend.kind \in PostgresFamily /\ configured_database(backend) = None
    THEN scoped_to_database(backend, "maintenance") ELSE backend

---------------------------------------------------------------------------
(* Dialling. *)

NoPort == 0
LOCAL_PORT == 55001
default_port(kind) == IF kind = "mysql" THEN 3306 ELSE 5432

forward_target(url, port) ==
    IF ~url.valid \/ url.host = "" THEN Error("no host to tunnel to")
    ELSE [host |-> url.host, port |-> IF url.port = NoPort THEN port ELSE url.port]

rewrite_to_loopback(url, port) == [url EXCEPT !.host = "loopback", !.port = port]

\* What the driver is given, the bastion that is held open and where it leads.
Dial(url, ssh, forward) == [url |-> url, ssh |-> ssh, forward |-> forward]

\* open_tunnel: the bastion lets us in, or not.
open_tunnel(backend, lets_in) ==
    LET url == backend.url[1]
        target == forward_target(url, default_port(backend.kind))
    IN  IF backend.ssh = None THEN Dial(url, None, None)
        ELSE IF failed(target) THEN target
        ELSE IF ~lets_in THEN Error("ssh tunnel")
        ELSE Dial(rewrite_to_loopback(url, LOCAL_PORT), backend.ssh, Some(target))

\* A Redis URL stays: the nodes are forwarded one by one as they are reached.
open_session(backend, lets_in) ==
    IF backend.ssh # None /\ ~lets_in THEN Error("ssh tunnel")
    ELSE Dial(backend.url[1], backend.ssh, None)

\* connect_adapter: the adapter that is handed out has been pinged.
connect_adapter(backend, lets_in, answers) ==
    LET dial == IF backend.kind = "redis" THEN open_session(backend, lets_in)
                ELSE IF backend.kind \in UrlKinds THEN open_tunnel(backend, lets_in)
                ELSE Dial(None, None, None)
    IN  IF failed(dial) THEN dial
        ELSE IF ~answers \/ (backend.url # None /\ ~backend.url[1].valid) THEN Error("connection")
        ELSE dial

\* McpService::adapter_for_target with nothing in its cache, from the entry to the
\* adapter it keeps and to the database it remembers beside it: read before the
\* listing default is in.
adapter_for_target(o, lets_in, answers) ==
    LET backend == entry_to_backend(o.entry, o.keychain)
        database == non_empty(o.database)
        scoped == IF failed(backend) \/ database = None THEN backend
                  ELSE scoped_to_database(backend, database[1])
        listing == IF failed(scoped) THEN scoped ELSE with_listing_default(scoped)
        dial == IF failed(listing) THEN listing ELSE connect_adapter(listing, lets_in, answers)
    IN  IF failed(dial) THEN dial
        ELSE [dial |-> dial, configured |-> configured_database(scoped), cluster |-> listing.cluster]

---------------------------------------------------------------------------
Nothing == [nothing |-> TRUE]
RouteInit == given = Nothing /\ told = Nothing

\* backend_config_from_env_and_store and resolved_connection_label, each on its
\* own; a file that is refused is not gone on with.
boots(b) ==
    /\ given' = b
    /\ told' = IF parses(b.file) THEN [backend |-> resolve_backend(b), label |-> label_for(b)]
               ELSE Error("file")

opens(o) ==
    /\ given' = o
    /\ \E lets_in, answers \in BOOLEAN :
         told' = IF parses(<<o.entry>>) THEN adapter_for_target(o, lets_in, answers)
                 ELSE Error("file")

RouteNext == given = Nothing /\ ((\E b \in Boots : boots(b)) \/ (\E o \in Opens : opens(o)))
RouteSpec == RouteInit /\ [][RouteNext]_RouteVars

---------------------------------------------------------------------------
(* What the operator relies on. *)

booted == "label" \in DOMAIN told /\ ~failed(told.backend)
opened == "dial" \in DOMAIN told

\* The label under which statements are kept in the history names the backend
\* that is opened, whatever is set, and where nothing in the environment comes
\* first that is the connection asked for (config.rs: resolve_backend and
\* label_for read the same settings, each for itself; "the resolver refuses to
\* silently fall back to a different backend").
LabelNamesTheBackend ==
    booted =>
        LET backend == told.backend
            kind == IF backend.kind = "emulator" THEN "firestore" ELSE backend.kind
        IN  /\ told.label = IF backend.source = "env" THEN <<"env", kind>> ELSE <<backend.source>>
            /\ backend.source # "env" /\ non_empty(given.selector) # None =>
                 given.selector = Some(backend.source)

\* A bastion that is configured is in front of the backend that is opened, or
\* nothing is opened; there is one way in and one of knowing it, and both are
\* among those that were set (config.rs: "rather than being silently dropped").
behind(ssh, set) ==
    /\ \/ ssh.auth = {"password"} /\ "key_path" \notin set
       \/ "key_path" \in ssh.auth /\ "password" \notin set
    /\ ssh.auth \subseteq set /\ ssh.host_key \in set
    /\ ~({"fingerprint", "known_hosts"} \subseteq set)

TunnelIsNeverDropped ==
    /\ booted =>
         LET backend == told.backend
             set == from_process(given.process)
             saved == {e \in ToSet(given.file) : e.id = backend.source /\ e.ssh # None}
         IN  IF (backend.source = "env" /\ "host" \in set) \/ saved # {}
             THEN /\ backend.ssh # None
                  /\ backend.source = "env" => "user" \in set /\ behind(backend.ssh[1], set)
                  /\ \A e \in saved : behind(backend.ssh[1], e.ssh[1].ways)
             ELSE backend.ssh = None
    /\ opened =>
         IF given.entry.ssh = None THEN told.dial.ssh = None
         ELSE told.dial.ssh # None /\ behind(told.dial.ssh[1], given.entry.ssh[1].ways)

\* What is dialled is the server that was saved, through the bastion where
\* there is one, and the database asked for; without one asked for, the one
\* saved, if the URL names its host; and nothing else of the URL changes
\* (backend.rs open_tunnel, ssh.rs, scope.rs: "would show the wrong tables").
DialledIsWhatWasSaved ==
    (opened /\ given.entry.kind \in Scoped \union {"aurora-dsql"}) =>
        LET saved == given.keychain.secret[1]
            dial == told.dial
            usual == IF given.entry.kind = "mysql" THEN 3306 ELSE 5432
            asked == non_empty(given.database)
            wanted == IF asked # None THEN asked[1] ELSE saved.database
        IN  /\ IF dial.ssh = None THEN dial.url.host = saved.host /\ dial.url.port = saved.port
               ELSE /\ dial.url.host = "loopback" /\ dial.url.port = LOCAL_PORT
                    /\ dial.forward = Some([host |-> saved.host,
                                            port |-> IF saved.port = NoPort THEN usual ELSE saved.port])
            /\ dial.url.rest = saved.rest
            /\ saved.host # "" =>
                 /\ dial.url.database = wanted \/ (wanted = "" /\ dial.url.database = "maintenance")
                 /\ given.entry.kind \in Scoped =>
                      told.configured = IF wanted = "" THEN None ELSE Some(wanted)
=============================================================================
