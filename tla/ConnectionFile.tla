---------------------------- MODULE ConnectionFile ----------------------------
(***************************************************************************)
(* What dbboard keeps in connections.toml, and the pure helpers            *)
(* crates/dbboard-config/src/admin.rs and admin/repair.rs build every      *)
(* change from.  A file is the sequence of its [[connections]] tables; an  *)
(* entry carries no secret, only references into the OS keychain.          *)
(*                                                                         *)
(* Data is kept to what the two stores can disagree about.  A reference    *)
(* "dbboard.<id>.<field>" is the pair <<id, field>>; the twelve kinds are  *)
(* the three shapes their secrets take; the display name, colour, tag and  *)
(* every plain field of a kind are one value, the entry's "mark".          *)
(***************************************************************************)
EXTENDS Naturals, SequencesExt

CONSTANTS
    Ids,        \* connection ids
    Aliases,    \* handles an mcp_alias may take that are no connection's id
    NoAlias,    \* the alias of an entry that has none
    Marks,      \* the non-secret half of an entry
    NoMark      \* the mark of a fresh copy

ASSUME HandleAssumption == NoAlias \notin Ids \cup Aliases
ASSUME MarkAssumption == NoMark \in Marks

\* The keyring fields.  Every kind has at most one secret of its own, here
\* "kind" whatever its name is ("url", "token", "secret_key",
\* "service_account"); a tunnel has at most one of the other two.
SshFields == {"ssh_passphrase", "ssh_password"}
Fields == {"kind"} \cup SshFields

\* A keyring reference and the two halves split_ref reads back from it.
Refs == Ids \X Fields
keyring_ref(id, field) == <<id, field>>
ref_owner(ref) == ref[1]
ref_field(ref) == ref[2]

\* "local": no secret at all (Turso).  "keyed": always one secret, no tunnel
\* (D1, Turso Cloud, MongoDB, Aurora DSQL by IAM).  "served": always one
\* secret and a port an SSH tunnel can forward (Postgres, MySQL and their
\* relatives, Redis).  "cloud": one secret or, at the emulator, none, and no
\* tunnel (Firestore).
Kinds == {"local", "keyed", "served", "cloud"}
supports_ssh_tunnel(kind) == kind = "served"

\* The sets of secret fields an entry of a kind may carry.
SecretShapes(kind) ==
    CASE kind = "local"  -> {{}}
      [] kind = "keyed"  -> {{"kind"}}
      [] kind = "served" -> {{"kind"}} \cup {{"kind", f} : f \in SshFields}
      [] kind = "cloud"  -> {{}, {"kind"}}

Entries == [ id    : Ids,
             kind  : Kinds,
             alias : Ids \cup Aliases \cup {NoAlias},
             mark  : Marks,
             refs  : SUBSET Refs ]

Files == Seq(Entries)

entry_ids(file) == {file[i].id : i \in DOMAIN file}

\* Every slot some entry of the file points at.
FileRefs(file) == UNION {file[i].refs : i \in DOMAIN file}

\* parse: two entries never share an id.
UniqueIds(file) ==
    \A i, j \in DOMAIN file : file[i].id = file[j].id => i = j

\* The rows find_index can return for an id: none, or one.
find_index(file, id) == {i \in DOMAIN file : file[i].id = id}

\* Mutant: only the other entries' aliases are looked at.
alias_is_free(file, candidate, owner) ==
    \A i \in DOMAIN file : file[i].id # owner => candidate # file[i].alias

\* No other entry already answers to the candidate, by id or by alias.
handle_is_free(file, candidate, owner) ==
    \A i \in DOMAIN file :
        file[i].id # owner => candidate \notin {file[i].id, file[i].alias}

\* foreign_refs: slots of an entry minted for somebody else.
foreign_refs(entry) == {r \in entry.refs : ref_owner(r) # entry.id}

\* The refs that add and duplicate mint for an id, and the slot of an entry
\* that holds a field, if it has one.
minted(id, fields) == {keyring_ref(id, f) : f \in fields}
slot(entry, field) == {r \in entry.refs : ref_field(r) = field}

\* Vec::remove followed by Vec::insert, the index counted from zero.
moved(file, from, index) == InsertAt(RemoveAt(file, from), index + 1, file[from])
=============================================================================
