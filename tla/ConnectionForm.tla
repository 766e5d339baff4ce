---------------------------- MODULE ConnectionForm ----------------------------
(***************************************************************************)
(* The form over a saved connection (desktop connections/{fields,input,    *)
(* graft,ssh,mod}.rs, draft.ts and dsn.ts, dbboard-config admin.rs and     *)
(* dsn.rs).                                                                *)
(*                                                                         *)
(* The form is filled from the admin's own copy of connections.toml, which *)
(* only a change made through this admin reads again; secrets are left     *)
(* out, and a blank box means "keep the stored one".  A connection string, *)
(* itself a secret, is shown in parts and put together again on the way    *)
(* back, its password grafted on where it is stored.                       *)
(*                                                                         *)
(* One value stands for boxes that are filled, checked and stored alike:   *)
(* "plain" for the settings beside a secret, "host" for a string's host,   *)
(* port, user and database, "where" for the bastion and its host key.  A   *)
(* command is one step here; the steps of its save are ConnectionAdmin's.  *)
(***************************************************************************)
EXTENDS Integers, FiniteSets

CONSTANTS Kinds,       \* the shapes of connection: "file", "dsn", "redis", "mongodb", "token", "firestore"
          Queries,     \* the queries a connection string may carry
          MaxTouches,  \* changes made to a form, but for the boxes that must be filled
          MaxForms     \* the forms opened, one after another

VARIABLES entry,     \* the saved entry, or NoEntry
          held,      \* the admin's copy of it
          slots,     \* its slots of the keychain: own, passphrase, password
          form,      \* the form, or Closed
          touched,   \* the fields the user changed in it
          moved,     \* the saved entry is not what the form was filled from
          unpurged,  \* the slots a purge could not delete
          opened     \* how many forms were opened

FormVars == <<entry, held, slots, form, touched, moved, unpurged, opened>>

\* A file (Turso), a connection string (the SQL servers), a whole URL beside a
\* plain setting (Redis, and MongoDB without a tunnel), a token beside plain
\* settings (D1, remote Turso, Aurora IAM), Firestore.
usesDsnFields(kind) == kind = "dsn"
supportsSshTunnel(kind) == kind \in {"dsn", "redis"}

NoEntry == [kind |-> "none"]
Closed == [mode |-> "closed"]
NoSsh == [where |-> "", key_path |-> "", auth |-> "", encrypted |-> FALSE]

\* A secret that is not a connection string is a password alone.
whole(text) == [host |-> "", query |-> "", password |-> text]
Nothing == whole("")
Garbage == whole("garbage")
parses(secret) == secret.host # ""
Slots == {"own", "passphrase", "password"}

\* entry_keyring_refs: the slots an entry refers to.
refs_of(e) ==
    IF e = NoEntry THEN {}
    ELSE (IF e.keyed THEN {"own"} ELSE {})
          \union (IF e.ssh.encrypted THEN {"passphrase"} ELSE {})
          \union (IF e.ssh.auth = "password" THEN {"password"} ELSE {})

Tunnels == [where : {"bastion"}, key_path : {"id"}, auth : {"key"}, encrypted : BOOLEAN]
           \union [where : {"bastion"}, key_path : {""}, auth : {"password"}, encrypted : {FALSE}]
Stored(kind) ==
    [kind : {kind}, name : {"shop"}, plain : {"here"}, alias : {"s"}, color : {"red"},
     tag : {"prod"}, write : {FALSE}, ssh : IF supportsSshTunnel(kind) THEN Tunnels \union {NoSsh} ELSE {NoSsh},
     keyed : CASE kind = "file" -> {FALSE} [] kind = "firestore" -> BOOLEAN [] OTHER -> {TRUE}]
OwnSecrets(kind) ==
    IF usesDsnFields(kind)
    THEN [host : {"db"}, query : Queries, password : {"", "stored"}] \union {Garbage}
    ELSE {whole("stored")}

\* The keychain once e has replaced the entry, with value[slot] in the slots it
\* refers to; the slots only the old one referred to are purged, but for those
\* a failure leaves behind.
resaved(e, value, left) ==
    [slot \in Slots |->
        IF slot \in refs_of(e) THEN value[slot]
        ELSE IF slot \in refs_of(entry) \ left THEN Nothing ELSE slots[slot]]

---------------------------------------------------------------------------
(* Opening the form. *)

emptyForm ==
    [mode |-> "add", kind |-> "file", name |-> "", plain |-> "", alias |-> "", color |-> "",
     tag |-> "", write |-> FALSE, use_url |-> FALSE, url |-> Nothing, db_host |-> "",
     db_ssl |-> "require", db_password |-> "", secret |-> "", use_emulator |-> FALSE,
     ssh_enabled |-> FALSE, where |-> "", auth |-> "key", key_path |-> "", encrypted |-> FALSE,
     ssh_passphrase |-> "", ssh_password |-> "", had_passphrase |-> FALSE, had_password |-> FALSE,
     changes |-> 0]

\* sslModeFromQuery: whatever does not switch TLS off reads as required.
sslModeFromQuery(query) == IF query = "tls off" THEN "disable" ELSE "require"
sslQuery(mode) == IF mode = "disable" THEN "tls off" ELSE ""
withSslMode(url, mode) == IF parses(url) THEN [url EXCEPT !.query = sslQuery(mode)] ELSE url

\* dsn_prefill and parse_dsn: nothing to show of a string that cannot be read.
dsn_prefill(readable) == usesDsnFields(held.kind) /\ readable /\ parses(slots.own)

applySshPrefill(base, ssh) ==
    IF ssh = NoSsh THEN base
    ELSE [base EXCEPT !.ssh_enabled = TRUE, !.where = ssh.where, !.auth = ssh.auth,
                      !.key_path = ssh.key_path, !.encrypted = ssh.encrypted,
                      !.had_passphrase = ssh.encrypted, !.had_password = ssh.auth = "password"]

applyDsnPrefill(base, shown) ==
    IF ~shown THEN base
    ELSE [base EXCEPT !.use_url = FALSE, !.db_host = slots.own.host,
                      !.db_ssl = sslModeFromQuery(slots.own.query)]

\* The part of an entry that is no secret.
EditFieldsDto(e) == [kind |-> e.kind, plain |-> e.plain,
                     use_emulator |-> e.kind = "firestore" /\ ~e.keyed]
connection_edit_fields(e) == [dto |-> EditFieldsDto(e), alias |-> e.alias, color |-> e.color,
                              tag |-> e.tag, write |-> e.write, ssh |-> e.ssh]

formForEdit(name, fields, shown) ==
    applyDsnPrefill(applySshPrefill(
        [emptyForm EXCEPT !.mode = "edit", !.kind = fields.dto.kind, !.name = name,
                          !.plain = fields.dto.plain, !.alias = fields.alias,
                          !.color = fields.color, !.tag = fields.tag, !.write = fields.write,
                          !.use_url = usesDsnFields(fields.dto.kind),
                          !.use_emulator = fields.dto.use_emulator],
        fields.ssh), shown)

\* Filled from the admin's copy, whatever is saved by now; the secret is read
\* from the keychain at this moment.
startEdit ==
    /\ form = Closed /\ held # NoEntry /\ opened < MaxForms
    /\ \E readable \in BOOLEAN :
          form' = formForEdit(held.name, connection_edit_fields(held), dsn_prefill(readable))
    /\ touched' = {} /\ moved' = (held # entry) /\ opened' = opened + 1
    /\ UNCHANGED <<entry, held, slots, unpurged>>

\* A new connection under this entry's id, free so far, its kind chosen first.
startAdd ==
    /\ form = Closed /\ entry = NoEntry /\ opened < MaxForms
    /\ \E kind \in Kinds : form' = [emptyForm EXCEPT !.kind = kind]
    /\ touched' = {} /\ moved' = FALSE /\ opened' = opened + 1
    /\ UNCHANGED <<entry, held, slots, unpurged>>

\* The fields the form shows, and what a user can make of one.
Toggles == {"write", "use_url", "use_emulator", "ssh_enabled", "encrypted"}
Typed == {"alias", "color", "tag"}
SshFields(f) ==
    {"ssh_enabled"} \union
    (IF ~f.ssh_enabled THEN {}
     ELSE {"where", "auth"} \union
          (IF f.auth = "password" THEN {"ssh_password"}
           ELSE {"key_path"} \union (IF f.mode = "edit" THEN {"encrypted"} ELSE {})
                \union (IF f.mode = "add" \/ f.encrypted THEN {"ssh_passphrase"} ELSE {})))
DsnFields(f) ==
    {"use_url"} \union (IF f.use_url THEN {"url"} ELSE {"db_host", "db_password"})
                \union (IF f.use_url /\ f.url = Nothing THEN {} ELSE {"db_ssl"})
Fields(f) ==
    {"name", "write"} \union Typed
        \union (IF usesDsnFields(f.kind) THEN DsnFields(f) ELSE {"plain"})
        \union (IF f.kind \in {"redis", "mongodb", "token"} \/ (f.kind = "firestore" /\ ~f.use_emulator)
                THEN {"secret"} ELSE {})
        \union (IF f.kind = "firestore" THEN {"use_emulator"} ELSE {})
        \union (IF supportsSshTunnel(f.kind) THEN SshFields(f) ELSE {})

optionalFields(kind) == IF kind \in {"redis", "mongodb"} THEN {"plain"} ELSE {}
Urls == [host : {"new"}, query : Queries, password : {"new"}] \union {Garbage}
sslValue(f) == IF f.use_url THEN sslModeFromQuery(f.url.query) ELSE f.db_ssl
other(field) ==
    CASE field \in Toggles -> {~form[field]}
      [] field \in Typed \union optionalFields(form.kind) -> {"", "new"} \ {form[field]}
      [] field = "db_ssl" -> {"require", "disable"} \ {sslValue(form)}
      [] field = "auth" -> {"key", "password"} \ {form.auth}
      [] field = "url" -> Urls
      [] OTHER -> {"new"}

---------------------------------------------------------------------------
(* What the form itself refuses. *)

\* requiredFields and validate, validateDsn, validateSsh, markNeedsTag.
requiredFields(f) ==
    {"name"} \union (IF usesDsnFields(f.kind) THEN {} ELSE {"plain"} \ optionalFields(f.kind))
        \union (IF f.mode = "add" /\ f.kind \in {"redis", "mongodb", "token"} THEN {"secret"} ELSE {})
validate(f) ==
    {field \in requiredFields(f) : f[field] = ""}
        \union {field \in {"url"} : usesDsnFields(f.kind) /\ f.mode = "add" /\ f.use_url /\ f.url = Nothing}
validateDsn(f) == {field \in {"db_host"} : usesDsnFields(f.kind) /\ ~f.use_url /\ f.db_host = ""}
validateSsh(f) ==
    IF ~(supportsSshTunnel(f.kind) /\ f.ssh_enabled) THEN {}
    ELSE {field \in {"where"} : f.where = ""}
         \union (IF f.auth = "key"
                 THEN {field \in {"key_path"} : f.key_path = ""}
                      \union {field \in {"ssh_passphrase"} :
                                 /\ f.mode = "edit" /\ f.encrypted
                                 /\ f.ssh_passphrase = "" /\ ~f.had_passphrase}
                 ELSE {field \in {"ssh_password"} :
                          f.ssh_password = "" /\ (f.mode = "add" \/ ~f.had_password)})
markNeedsTag(f) == {field \in {"tag"} : f.color # "" /\ f.tag = ""}
invalid(f) == validate(f) \union validateDsn(f) \union validateSsh(f) \union markNeedsTag(f)

\* The TLS choice is part of the URL where one is typed.
setField(f, field, value) ==
    IF field = "db_ssl" /\ f.use_url THEN [f EXCEPT !.url = withSslMode(@, value)]
    ELSE [f EXCEPT ![field] = value]

set_field ==
    /\ form # Closed
    /\ \E field \in Fields(form) \ touched : \E value \in other(field) :
          LET counted == IF field \in invalid(form) THEN 0 ELSE 1
          IN  /\ form.changes + counted <= MaxTouches
              /\ form' = [setField(form, field, value) EXCEPT !.changes = @ + counted]
              /\ touched' = touched \union {field}
    /\ UNCHANGED <<entry, held, slots, moved, unpurged, opened>>

cancel ==
    /\ form # Closed
    /\ form' = Closed /\ touched' = {} /\ moved' = FALSE
    /\ UNCHANGED <<entry, held, slots, unpurged, opened>>

---------------------------------------------------------------------------
(* What the form sends. *)

\* A box: keep what is stored, or the value to store instead.
Keep == whole("keep")
Drop == whole("drop")
secret_field(box) == IF box = Nothing THEN Keep ELSE box

composeDsn(f) == [host |-> f.db_host, query |-> sslQuery(f.db_ssl), password |-> f.db_password]
dsnFor(f) == IF f.use_url THEN f.url ELSE composeDsn(f)

\* The credential of a new connection: a blank one is Firestore's emulator.
to_add_draft(f) ==
    CASE f.kind = "file" -> Keep
      [] usesDsnFields(f.kind) -> dsnFor(f)
      [] f.kind = "firestore" /\ (f.use_emulator \/ f.secret = "") -> Drop
      [] OTHER -> whole(f.secret)

\* Of an edited one: blank keeps, and the emulator beats what is typed.
to_edit_draft(f, dsn) ==
    CASE f.kind = "file" -> Keep
      [] usesDsnFields(f.kind) -> secret_field(dsn)
      [] f.kind = "firestore" /\ f.use_emulator -> Drop
      [] OTHER -> secret_field(whole(f.secret))

\* The secrets of the tunnel: the passphrase of a new key says whether it is
\* encrypted, the box beside an edited one does.
SshSecret(f, slot) == secret_field(whole(IF slot = "passphrase" THEN f.ssh_passphrase ELSE f.ssh_password))
to_ssh_draft(f) == [encrypted |-> f.ssh_passphrase # ""]
to_ssh_edit_field(f) == [encrypted |-> f.encrypted]

keepStoredPassword(f) ==
    f.mode = "edit" /\ usesDsnFields(f.kind) /\ ~f.use_url /\ f.db_password = ""

\* with_password, and graft_url over it.  Mutant: the string as the form has it.
as_composed(url, source) == url
with_password(url, source) ==
    IF source.password = "" THEN url ELSE [url EXCEPT !.password = source.password]
graft_url(f, url, source) ==
    IF keepStoredPassword(f) /\ url # Nothing THEN with_password(url, source) ELSE url

\* dsn_with_stored_password: the copy names the slot and what it holds can be read.
graftable(f) ==
    keepStoredPassword(f) => held # NoEntry /\ usesDsnFields(held.kind) /\ parses(slots.own)

---------------------------------------------------------------------------
(* Saving. *)

tunnelled(f) == supportsSshTunnel(f.kind) /\ f.ssh_enabled
ssh_toml(f, encrypted) ==
    [where |-> f.where, key_path |-> IF f.auth = "key" THEN f.key_path ELSE "", auth |-> f.auth,
     encrypted |-> f.auth = "key" /\ encrypted]

\* buildSshInput and build_ssh_for_add: the tunnel of a new connection.
build_ssh_for_add(f) == IF tunnelled(f) THEN ssh_toml(f, to_ssh_draft(f).encrypted) ELSE NoSsh

\* apply_update_ssh: that of an edited one, or Refused: a secret to keep has to
\* be one the entry refers to.
Refused == [NoSsh EXCEPT !.where = "refused"]
apply_update_ssh(f, existing) ==
    LET ssh == ssh_toml(f, to_ssh_edit_field(f).encrypted)
        needed == refs_of([keyed |-> FALSE, ssh |-> ssh])
        kept == {slot \in needed : SshSecret(f, slot) = Keep}
    IN  IF ~tunnelled(f) THEN NoSsh
        ELSE IF kept \subseteq refs_of([keyed |-> FALSE, ssh |-> existing]) THEN ssh ELSE Refused

\* Whether the entry refers to a credential afterwards.
apply_firestore_edit(credential, existing) ==
    IF credential = Keep THEN existing ELSE credential # Drop
apply_update_kind(f, credential, existing) ==
    CASE f.kind = "file" -> FALSE
      [] f.kind = "firestore" -> apply_firestore_edit(credential, existing)
      [] OTHER -> TRUE

apply_secret_write(stored, draft) == IF draft = Keep THEN stored ELSE draft

drafted(f, keyed, ssh) ==
    [kind |-> f.kind, name |-> f.name, plain |-> f.plain, alias |-> f.alias, color |-> f.color,
     tag |-> f.tag, write |-> f.write, ssh |-> ssh, keyed |-> keyed]
written(f, credential) ==
    [slot \in Slots |-> apply_secret_write(slots[slot],
                           IF slot = "own" THEN credential ELSE SshSecret(f, slot))]

\* The entry is saved and what only the old one referred to is purged, if the
\* keychain lets it.
commit(e, credential) ==
    /\ \E left \in SUBSET (refs_of(entry) \ refs_of(e)) :
          /\ slots' = resaved(e, written(form, credential), left)
          /\ unpurged' = unpurged \union left
    /\ entry' = e /\ held' = e
    /\ form' = Closed /\ touched' = {} /\ moved' = FALSE
    /\ UNCHANGED opened

\* Anything can fail, or an alias be taken: the form stays open over an entry
\* left as it was.  The copy is read again unless the file cannot be.
refuse ==
    /\ held' \in {held, entry}
    /\ UNCHANGED <<entry, form, touched, moved, unpurged, opened>>

\* add_connection and ConnectionAdmin's add, which deletes what it wrote when
\* it fails and refuses an id that is taken.
add_connection ==
    LET credential == to_add_draft(form)
        e == drafted(form, apply_update_kind(form, credential, FALSE), build_ssh_for_add(form))
        undone == [slot \in Slots |-> IF slot \in refs_of(e) THEN Nothing ELSE slots[slot]]
    IN  \/ entry = NoEntry /\ commit(e, credential)
        \/ refuse /\ slots' \in {slots} \union (IF entry = NoEntry THEN {undone} ELSE {})

\* update_connection and ConnectionAdmin's update: the password is grafted on
\* first, over the copy; then the file is read again.
update_connection ==
    LET credential == to_edit_draft(form, graft_url(form, dsnFor(form), slots.own))
        ssh == apply_update_ssh(form, entry.ssh)
    IN  \/ /\ graftable(form) /\ entry # NoEntry
           /\ entry.kind = form.kind /\ ssh # Refused
           /\ commit(drafted(form, apply_update_kind(form, credential, entry.keyed), ssh), credential)
        \/ refuse /\ UNCHANGED slots

saveForm ==
    /\ form # Closed /\ invalid(form) = {}
    /\ IF form.mode = "add" THEN add_connection ELSE update_connection

\* Another command of this window changes some other connection, which reads
\* the file again.
sync ==
    /\ held # entry /\ held' = entry
    /\ form # Closed \/ opened < MaxForms
    /\ UNCHANGED <<entry, slots, form, touched, moved, unpurged, opened>>

\* Another program saves this connection: its tunnel, its credential or its
\* mark; or deletes it, or adds it.
Elsewhere == [host |-> "elsewhere", query |-> "", password |-> "theirs"]
others_save ==
    /\ form # Closed \/ opened < MaxForms
    /\ ~moved /\ moved' = TRUE
    /\ \/ /\ entry # NoEntry /\ supportsSshTunnel(entry.kind)
          /\ \E ssh \in Tunnels \union {NoSsh} : entry' = [entry EXCEPT !.ssh = ssh]
          /\ slots' = resaved(entry', [slot \in Slots |-> IF slot = "own" THEN slots.own ELSE whole("theirs")], {})
       \/ /\ entry # NoEntry /\ entry.keyed
          /\ \E own \in IF usesDsnFields(entry.kind) THEN {Elsewhere, Garbage} ELSE {whole("theirs")} :
                slots' = [slots EXCEPT !.own = own]
          /\ UNCHANGED entry
       \/ /\ entry # NoEntry
          /\ entry' = [entry EXCEPT !.tag = "theirs"]
          /\ UNCHANGED slots
       \/ /\ entry # NoEntry
          /\ entry' = NoEntry
          /\ slots' = resaved(NoEntry, slots, {})
       \/ /\ entry = NoEntry
          /\ \E kind \in Kinds : \E e \in Stored(kind) : entry' = e
          /\ slots' = resaved(entry', [slot \in Slots |-> whole("theirs")], {})
    /\ UNCHANGED <<held, form, touched, unpurged, opened>>

FormInit ==
    /\ \/ entry = NoEntry /\ slots = [slot \in Slots |-> Nothing]
       \/ \E kind \in Kinds : \E e \in Stored(kind), own \in OwnSecrets(kind) :
             /\ entry = e
             /\ slots = [slot \in Slots |->
                            IF slot \notin refs_of(e) THEN Nothing
                            ELSE IF slot = "own" THEN own ELSE whole("stored")]
    /\ held = entry /\ unpurged = {}
    /\ form = Closed /\ touched = {} /\ moved = FALSE /\ opened = 0

FormNext == startEdit \/ startAdd \/ set_field \/ cancel \/ saveForm \/ sync \/ others_save

FormSpec == FormInit /\ [][FormNext]_FormVars

---------------------------------------------------------------------------
(* Properties. *)

\* Every secret the entry refers to is stored, and none it does not refer to
\* is left behind but by a purge that failed, whoever saved what while the form
\* was open: a "keep" of a passphrase or password another program removed is
\* refused, and a slot left behind is never taken for one that is stored.
SecretsMatchTheEntry ==
    \A slot \in Slots :
        /\ slot \in refs_of(entry) => slots[slot] # Nothing
        /\ slots[slot] # Nothing => slot \in refs_of(entry) \union unpurged

\* What an entry and its secrets come to, part by part.
parts(e, s) ==
    [name |-> e.name, plain |-> e.plain, alias |-> e.alias, color |-> e.color, tag |-> e.tag,
     write |-> e.write, keyed |-> e.keyed, host |-> s.own.host, query |-> s.own.query, key |-> s.own.password,
     where |-> e.ssh.where, key_path |-> e.ssh.key_path, auth |-> e.ssh.auth,
     encrypted |-> e.ssh.encrypted, passphrase |-> s.passphrase, password |-> s.password]
\* Those of them a reader of the entry finds: no slot it does not refer to.
reached(e, s) == parts(e, [slot \in Slots |-> IF slot \in refs_of(e) THEN s[slot] ELSE Nothing])
Tunnel == {"where", "key_path", "auth", "encrypted", "passphrase", "password"}
affects(field) ==
    CASE field \in {"name", "plain", "alias", "color", "tag", "write", "where", "key_path"} -> {field}
      [] field \in {"use_url", "url"} -> {"host", "query", "key"}
      [] field = "db_host" -> {"host"}
      [] field = "db_ssl" -> {"query"}
      [] field = "db_password" -> {"key"}
      [] field \in {"secret", "use_emulator"} -> {"key", "keyed", "host"}
      [] field = "ssh_enabled" -> Tunnel
      [] field = "auth" -> Tunnel \ {"where"}
      [] field = "encrypted" -> {"encrypted", "passphrase"}
      [] field = "ssh_passphrase" -> {"passphrase"}
      [] OTHER -> {"password"}

\* A save changes what the user changed and nothing else, as long as the entry
\* is the one the form was filled from: every field left alone, the secrets
\* behind its blank boxes included, is afterwards what it was, and a password
\* typed is the one stored.
OnlyWhatWasTouchedChanges ==
    form # Closed /\ form.mode = "edit" /\ form' = Closed /\ ~moved
            /\ <<entry', slots'>> # <<entry, slots>> =>
        LET before == reached(entry, slots)
            after == reached(entry', slots')
        IN  /\ \A part \in DOMAIN before :
                  after[part] # before[part] => \E field \in touched : part \in affects(field)
            /\ "db_password" \in touched /\ ~form.use_url => slots'.own.password = "new"
            /\ ~form.use_emulator /\ "secret" \in touched => slots'.own.password = "new"

=============================================================================
