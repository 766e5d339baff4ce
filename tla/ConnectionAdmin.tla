---------------------------- MODULE ConnectionAdmin ----------------------------
(***************************************************************************)
(* ConnectionAdmin (crates/dbboard-config/src/admin.rs, admin/repair.rs    *)
(* and save_atomic of store.rs): every change to the saved connections.    *)
(*                                                                         *)
(* Two stores have to agree and neither knows about the other: the file    *)
(* connections.toml, replaced whole by a rename, and the OS keychain,      *)
(* written one slot at a time.  A mutator re-reads the file (sync), checks *)
(* its arguments, builds the new file in memory, writes the secrets it     *)
(* needs, saves, and deletes the secrets nothing needs any more.  When a   *)
(* step fails it undoes the secrets it wrote.                              *)
(*                                                                         *)
(* A mutator is therefore one action that reads and plans, then one action *)
(* for every call it makes on a store.  The desktop application and the    *)
(* MCP server hold an admin each, so the steps of two calls interleave;    *)
(* any keychain or file call may fail (Faults) and a process may die       *)
(* between two of them (Crashes).                                          *)
(***************************************************************************)
EXTENDS ConnectionFile

CONSTANTS
    Procs,      \* the processes that hold an admin
    Values,     \* secret values
    NoSecret,   \* what an empty keychain slot holds
    NoRef,      \* no slot
    NoId,       \* the owner of a slot nobody points at
    Untouched,  \* a slot the call has not written
    Calls,      \* the mutators each process calls
    DraftKinds, \* the kinds each process adds
    Bundles,    \* the decrypted bundles it imports
    Faults,     \* the call sites that may fail
    Crashes     \* whether a process may die inside a mutator

ASSUME SecretAssumption ==
    /\ NoSecret \notin Values /\ Untouched \notin Values \cup {NoSecret}
    /\ {"keep", "drop"} \cap Values = {}
ASSUME RefAssumption == NoRef \notin Refs /\ NoId \notin Ids
ASSUME KindAssumption == DraftKinds \in [Procs -> SUBSET Kinds]
ASSUME CrashAssumption == Crashes \in BOOLEAN

Slot == Values \cup {NoSecret}

\* A bundle: its entries in order, and the secrets it carries for them.
Bundle == [entries : Files, secrets : [Refs -> Slot]]
ASSUME BundleAssumption == Bundles \subseteq Bundle

\* "get": update or duplicate reading a slot; "peek": import reading what it
\* is about to overwrite; "put": writing a slot; "undo", "purge": the
\* best-effort calls of a rollback and of a purge; "tmp", "rename": the two
\* halves of save_atomic.
FaultSites == {"get", "peek", "put", "undo", "purge", "tmp", "rename"}
ASSUME FaultAssumption == Faults \subseteq FaultSites

VARIABLES
    disk,       \* connections.toml
    tmp,        \* whether connections.toml.tmp exists
    keyring,    \* what each slot of the OS keychain holds
    tx          \* the mutator each process is inside

vars == <<disk, tmp, keyring, tx>>
-------------------------------------------------------------------------------
(***************************************************************************)
(* A call in progress: the ids it is about, the file it will save, the     *)
(* bundle entries it has still to look at with the secrets the bundle      *)
(* gave and the owner of every slot, the slots a duplicate has still to    *)
(* copy, the secrets still to be written, the slot being written with what *)
(* it held, the plan for undoing what was written, the slots to purge once *)
(* saved, and whether the call is already known to end in an error.        *)
(* "found" is a history: what each slot the call overwrote really held.    *)
(***************************************************************************)
NoWrites == [r \in Refs |-> NoSecret]
NoUndo   == [r \in Refs |-> Untouched]
NoCopies == [r \in Refs |-> NoRef]
NoOwners == [r \in Refs |-> NoId]

Idle == [ at |-> "idle", call |-> "none", ids |-> {}, new |-> <<>>,
          incoming |-> <<>>, overwrite |-> FALSE, given |-> NoWrites,
          owner |-> NoOwners, copies |-> NoCopies, writes |-> NoWrites,
          cur |-> NoRef, seen |-> NoSecret, undo |-> NoUndo, purge |-> {},
          doomed |-> FALSE, found |-> NoUndo ]

pending(t)  == {r \in Refs : t.writes[r] # NoSecret}
undoable_all(t) == Refs    \* mutant: also the slots the call never wrote
undoable(t) == {r \in Refs : t.undo[r] # Untouched}

Init ==
    /\ disk = <<>>
    /\ tmp = FALSE
    /\ keyring = [r \in Refs |-> NoSecret]
    /\ tx = [p \in Procs |-> Idle]

\* A mutator that passed its checks: the call of p becomes plan.
Begin(p, call, plan) ==
    /\ call \in Calls[p]
    /\ tx[p].at = "idle"
    /\ tx' = [tx EXCEPT ![p] = [plan EXCEPT !.call = call]]
    /\ UNCHANGED <<disk, tmp, keyring>>

\* The call of p becomes t.
Step(p, t) == tx' = [tx EXCEPT ![p] = t]
-------------------------------------------------------------------------------
(***************************************************************************)
(* The mutators, up to their first effect.  A call refused here has read   *)
(* the file and changed nothing, so it is no step.                         *)
(***************************************************************************)
\* Mutant: no check that the id is new.
add_unchecked(p, id, kind, alias, mark, secrets) ==
    LET entry == [id |-> id, kind |-> kind, alias |-> alias, mark |-> mark,
                  refs |-> minted(id, DOMAIN secrets)]
    IN  Begin(p, "add",
              [Idle EXCEPT !.at = "secrets", !.ids = {id}, !.new = Append(disk, entry),
                           !.writes = [r \in Refs |-> IF r \in entry.refs
                                                      THEN secrets[ref_field(r)]
                                                      ELSE NoSecret]])

add(p, id, kind, alias, mark, secrets) ==
    LET entry == [id |-> id, kind |-> kind, alias |-> alias, mark |-> mark,
                  refs |-> minted(id, DOMAIN secrets)]
    IN  /\ find_index(disk, id) = {}
        /\ handle_is_free(disk, id, id)
        /\ alias # NoAlias => handle_is_free(disk, alias, id)
        /\ Begin(p, "add",
                 [Idle EXCEPT !.at = "secrets", !.ids = {id}, !.new = Append(disk, entry),
                  !.writes = [r \in Refs |-> IF r \in entry.refs THEN secrets[ref_field(r)]
                                                      ELSE NoSecret]])

\* The secret of the kind itself: kept, replaced in the slot it already has
\* (a fresh one when it has none), or, for a "cloud" entry, dropped.
KindEdits(kind) ==
    CASE kind = "local" -> {"keep"}
      [] kind = "cloud" -> {"keep", "drop"} \cup Values
      [] OTHER          -> {"keep"} \cup Values

kind_ref(entry) ==
    IF slot(entry, "kind") # {} THEN slot(entry, "kind")
                                ELSE {keyring_ref(entry.id, "kind")}

\* The tunnel: kept, disabled, or set; set means a key without a passphrase,
\* or one of the two secrets, retyped or kept.
SshEdits == [field : {"keep", "disable", "plain"}, secret : {"keep"}]
                \cup [field : SshFields, secret : Values \cup {"keep"}]

\* What the edit asks for cannot be had; the code finds out after it has
\* written the kind's secret.
ssh_refused(entry, ssh) ==
    /\ ssh.field \notin {"keep", "disable"}
    /\ \/ ~supports_ssh_tunnel(entry.kind)
       \/ ssh.field \in SshFields /\ ssh.secret = "keep" /\ slot(entry, ssh.field) = {}

\* Mutant: the tunnel's slot is named after the owner of the kind's slot.
ssh_refs_of_owner(entry, ssh) ==
    IF ssh.field \in SshFields
    THEN {keyring_ref(ref_owner(r), ssh.field) : r \in slot(entry, "kind")}
    ELSE UNION {slot(entry, f) : f \in SshFields}

ssh_refs(entry, ssh) ==
    CASE ssh.field = "keep" -> UNION {slot(entry, f) : f \in SshFields}
      [] ssh.field \in SshFields /\ ssh.secret = "keep" -> slot(entry, ssh.field)
      [] ssh.field \in SshFields /\ ssh.secret # "keep" ->
             {keyring_ref(entry.id, ssh.field)}
      [] OTHER -> {}

update(p, i, edit, ssh, alias, mark) ==
    LET entry == disk[i]
        refused == ssh_refused(entry, ssh)
        kind_writes == IF edit \in Values THEN kind_ref(entry) ELSE {}
        kind_refs == IF edit = "keep" THEN slot(entry, "kind") ELSE kind_writes
        ssh_writes == IF ssh.secret \in Values /\ ~refused
                      THEN ssh_refs(entry, ssh) ELSE {}
        refs == kind_refs \cup ssh_refs(entry, ssh)
    IN  /\ alias # NoAlias => handle_is_free(disk, alias, entry.id)
        /\ Begin(p, "update",
                 [Idle EXCEPT !.at = "secrets", !.ids = {entry.id}, !.doomed = refused,
                  !.new = [disk EXCEPT ![i] = [entry EXCEPT !.refs = refs,
                                                  !.alias = alias, !.mark = mark]],
                  !.writes = [r \in Refs |-> CASE r \in kind_writes -> edit
                                             [] r \in ssh_writes \ kind_writes -> ssh.secret
                                             [] OTHER -> NoSecret],
                  !.purge = entry.refs \ refs])

delete(p, i) ==
    Begin(p, "delete",
          [Idle EXCEPT !.at = "secrets", !.ids = {disk[i].id}, !.new = RemoveAt(disk, i),
           !.purge = disk[i].refs])

move_to(p, i, index) ==
    /\ index < Len(disk)
    /\ index + 1 # i
    /\ Begin(p, "move_to",
             [Idle EXCEPT !.at = "secrets", !.ids = {disk[i].id}, !.new = moved(disk, i, index)])

set_mark(p, i, mark) ==
    /\ mark # disk[i].mark
    /\ Begin(p, "set_mark",
             [Idle EXCEPT !.at = "secrets", !.ids = {disk[i].id},
              !.new = [disk EXCEPT ![i].mark = mark]])

\* Mutant: the copy shares the slots of its source.
duplicate_sharing(p, i, new_id) ==
    /\ find_index(disk, new_id) = {}
    /\ Begin(p, "duplicate",
             [Idle EXCEPT !.at = "copy", !.ids = {new_id},
                          !.new = Append(disk, [disk[i] EXCEPT !.id = new_id])])

duplicate(p, i, new_id) ==
    LET source == disk[i]
        copied(r) == keyring_ref(new_id, ref_field(r))
        copy == [source EXCEPT !.id = new_id, !.alias = NoAlias, !.mark = NoMark,
                               !.refs = {copied(r) : r \in source.refs}]
    IN  /\ find_index(disk, new_id) = {}
        /\ handle_is_free(disk, new_id, new_id)
        /\ foreign_refs(source) = {}
        /\ Begin(p, "duplicate",
                 [Idle EXCEPT !.at = "copy", !.ids = {new_id}, !.new = Append(disk, copy),
                  !.copies = [r \in Refs |-> IF r \in copy.refs
                                             THEN keyring_ref(source.id, ref_field(r))
                                             ELSE NoRef]])

repair_foreign_ref(p, i, key_ref, secret) ==
    LET entry == disk[i]
        own_ref == keyring_ref(entry.id, ref_field(key_ref))
    IN  /\ key_ref \in foreign_refs(entry)
        /\ Begin(p, "repair_foreign_ref",
                 [Idle EXCEPT !.at = "secrets", !.ids = {entry.id},
                  !.new = [disk EXCEPT ![i].refs = (@ \ {key_ref}) \cup {own_ref}],
                  !.writes = [NoWrites EXCEPT ![own_ref] = secret]])

\* Who holds each slot; of two entries that share one, the later row.
ref_owners(file) ==
    [r \in Refs |->
        IF r \notin FileRefs(file) THEN NoId
        ELSE file[CHOOSE i \in DOMAIN file :
                      /\ r \in file[i].refs
                      /\ \A j \in DOMAIN file : r \in file[j].refs => j <= i].id]

import_bundle(p, bundle, overwrite) ==
    Begin(p, "import_bundle",
          [Idle EXCEPT !.at = "import", !.new = disk, !.incoming = bundle.entries,
           !.overwrite = overwrite, !.owner = ref_owners(disk),
           !.given = bundle.secrets])
-------------------------------------------------------------------------------
(***************************************************************************)
(* The loop of import_bundle over the bundle's entries.  An id listed      *)
(* twice is passed over the second time, an id the store has is passed     *)
(* over unless the import overwrites, and an entry that names a slot of    *)
(* another connection is refused; anything else joins the new file.        *)
(***************************************************************************)
collides_never(t, entry) == FALSE    \* mutant: no guard on the bundle's refs

collides(t, entry) ==
    \E r \in entry.refs : t.owner[r] \notin {NoId, entry.id}

passed_over(t, entry) ==
    \/ entry.id \in t.ids
    \/ find_index(t.new, entry.id) # {} /\ ~t.overwrite
    \/ collides(t, entry)

pass_over(p) ==
    /\ tx[p].at = "import" /\ tx[p].incoming # <<>>
    /\ passed_over(tx[p], Head(tx[p].incoming))
    /\ Step(p, [tx[p] EXCEPT !.incoming = Tail(tx[p].incoming)])
    /\ UNCHANGED <<disk, tmp, keyring>>

accept(p) ==
    LET t == tx[p]
        entry == Head(t.incoming)
        rows == find_index(t.new, entry.id)
    IN  /\ t.at = "import" /\ t.incoming # <<>>
        /\ ~passed_over(t, entry)
        /\ Step(p,
             [t EXCEPT !.incoming = Tail(t.incoming),
              !.ids = t.ids \cup {entry.id},
              !.owner = [r \in Refs |-> IF r \in entry.refs THEN entry.id
                                                            ELSE t.owner[r]],
              !.writes = [r \in Refs |-> IF r \in entry.refs /\ t.given[r] # NoSecret
                                         THEN t.given[r] ELSE t.writes[r]],
              !.new = IF rows = {} THEN Append(t.new, entry)
                      ELSE [i \in DOMAIN t.new |->
                                IF i \in rows THEN entry ELSE t.new[i]],
              !.purge = t.purge \cup
                            ((UNION {t.new[i].refs : i \in rows}) \ entry.refs)])
        /\ UNCHANGED <<disk, tmp, keyring>>

accepted_all(p) ==
    /\ tx[p].at = "import" /\ tx[p].incoming = <<>>
    /\ IF tx[p].ids = {} THEN tx' = [tx EXCEPT ![p] = Idle]
                         ELSE Step(p, [tx[p] EXCEPT !.at = "secrets", !.given = NoWrites,
                                       !.owner = NoOwners, !.overwrite = FALSE])
    /\ UNCHANGED <<disk, tmp, keyring>>

\* duplicate reads every secret of its source before it writes one; a slot
\* that is empty or cannot be read ends the call.
copy_secrets(p) ==
    LET t == tx[p]
        copied == {r \in Refs : t.copies[r] # NoRef}
        readable == \A r \in copied : keyring[t.copies[r]] # NoSecret
    IN  /\ t.at = "copy"
        /\ \/ /\ readable
              /\ Step(p, [t EXCEPT !.at = "secrets", !.copies = NoCopies,
                          !.writes = [r \in Refs |-> IF r \in copied
                                                     THEN keyring[t.copies[r]] ELSE NoSecret]])
           \/ /\ ~readable \/ ("get" \in Faults /\ copied # {})
              /\ tx' = [tx EXCEPT ![p] = Idle]
        /\ UNCHANGED <<disk, tmp, keyring>>
-------------------------------------------------------------------------------
(***************************************************************************)
(* Writing the secrets.  An entry's own secret comes before its tunnel's.  *)
(* update reads what a slot holds before it overwrites it and fails if it  *)
(* cannot; import takes a failed read for an empty slot; add, duplicate    *)
(* and repair do not look, and would undo by deleting.                     *)
(***************************************************************************)
is_next(r, slots) ==
    ref_field(r) # "kind" => keyring_ref(ref_owner(r), "kind") \notin slots

\* Mutant: update overwrites without reading what it could have to restore.
look_unread(p) ==
    /\ tx[p].at = "secrets" /\ tx[p].cur = NoRef
    /\ \E r \in pending(tx[p]) : Step(p, [tx[p] EXCEPT !.cur = r])
    /\ UNCHANGED <<disk, tmp, keyring>>

look(p) ==
    LET t == tx[p]
    IN  /\ t.at = "secrets" /\ t.cur = NoRef
        /\ \E r \in pending(t) :
             /\ is_next(r, pending(t))
             /\ \/ /\ t.call \in {"update", "import_bundle"}
                   /\ Step(p, [t EXCEPT !.cur = r, !.seen = keyring[r]])
                \/ /\ t.call = "import_bundle" /\ "peek" \in Faults
                   /\ Step(p, [t EXCEPT !.cur = r, !.seen = NoSecret])
                \/ /\ t.call = "update" /\ "get" \in Faults
                   /\ Step(p, [t EXCEPT !.at = "undo", !.writes = NoWrites])
                \/ /\ t.call \notin {"update", "import_bundle"}
                   /\ Step(p, [t EXCEPT !.cur = r])
        /\ UNCHANGED <<disk, tmp, keyring>>

put(p) ==
    LET t == tx[p]
    IN  /\ t.at = "secrets" /\ t.cur # NoRef
        /\ keyring' = [keyring EXCEPT ![t.cur] = t.writes[t.cur]]
        /\ Step(p, [t EXCEPT !.cur = NoRef, !.seen = NoSecret,
                    !.undo[t.cur] = t.seen,
                    !.found[t.cur] = keyring[t.cur],
                    !.writes[t.cur] = NoSecret])
        /\ UNCHANGED <<disk, tmp>>

\* Mutant: the slots already written stay.
put_fails_early(p) ==
    /\ "put" \in Faults
    /\ tx[p].at = "secrets" /\ tx[p].cur # NoRef
    /\ tx' = [tx EXCEPT ![p] = Idle]
    /\ UNCHANGED <<disk, tmp, keyring>>

put_fails(p) ==
    /\ "put" \in Faults
    /\ tx[p].at = "secrets" /\ tx[p].cur # NoRef
    /\ Step(p, [tx[p] EXCEPT !.at = "undo", !.cur = NoRef, !.seen = NoSecret, !.writes = NoWrites])
    /\ UNCHANGED <<disk, tmp, keyring>>

written(t) == t.at = "secrets" /\ t.cur = NoRef /\ pending(t) = {}

refuse(p) ==
    /\ written(tx[p]) /\ tx[p].doomed
    /\ Step(p, [tx[p] EXCEPT !.at = "undo"])
    /\ UNCHANGED <<disk, tmp, keyring>>
-------------------------------------------------------------------------------
(***************************************************************************)
(* save_atomic: create the temporary file, which must not exist, write it, *)
(* rename it over connections.toml.  A write that fails after the creation *)
(* leaves the temporary file behind, as a crash does, and nothing in the   *)
(* program ever removes it.                                                *)
(***************************************************************************)
\* Mutant: the temporary file is opened whether it exists or not.
save_tmp_clobbering(p) ==
    /\ written(tx[p]) /\ ~tx[p].doomed
    /\ tmp' = TRUE
    /\ Step(p, [tx[p] EXCEPT !.at = "rename"])
    /\ UNCHANGED <<disk, keyring>>

save_tmp(p) ==
    /\ written(tx[p]) /\ ~tx[p].doomed
    /\ ~tmp
    /\ tmp' = TRUE
    /\ Step(p, [tx[p] EXCEPT !.at = "rename"])
    /\ UNCHANGED <<disk, keyring>>

\* Mutant: wait for the other writer's temporary file to go away.
save_tmp_waits(p) ==
    /\ written(tx[p]) /\ ~tx[p].doomed
    /\ "tmp" \in Faults /\ ~tmp /\ tmp' \in BOOLEAN
    /\ Step(p, [tx[p] EXCEPT !.at = "undo"])
    /\ UNCHANGED <<disk, keyring>>

save_tmp_fails(p) ==
    /\ written(tx[p]) /\ ~tx[p].doomed
    /\ \/ tmp /\ UNCHANGED tmp
       \/ "tmp" \in Faults /\ tmp' \in {tmp, TRUE}
    /\ Step(p, [tx[p] EXCEPT !.at = "undo"])
    /\ UNCHANGED <<disk, keyring>>

rename(p) ==
    /\ tx[p].at = "rename"
    /\ disk' = tx[p].new
    /\ tmp' = FALSE
    /\ Step(p, [tx[p] EXCEPT !.at = "purge", !.new = <<>>, !.undo = NoUndo,
                          !.found = NoUndo])
    /\ UNCHANGED keyring

\* The temporary file is removed on the way out, or not even that works.
rename_fails(p) ==
    /\ "rename" \in Faults
    /\ tx[p].at = "rename"
    /\ tmp' \in BOOLEAN
    /\ Step(p, [tx[p] EXCEPT !.at = "undo"])
    /\ UNCHANGED <<disk, keyring>>
-------------------------------------------------------------------------------
(***************************************************************************)
(* The two best-effort endings.  Once saved, the slots nothing of the call *)
(* points at any more are deleted.  On an error, every slot written gets   *)
(* back what was seen in it, or is deleted when nothing was.               *)
(***************************************************************************)
purge(p) ==
    LET t == tx[p]
    IN  /\ t.at = "purge"
        /\ \E r \in t.purge :
             /\ is_next(r, t.purge)
             /\ \/ keyring' = [keyring EXCEPT ![r] = NoSecret]
                \/ "purge" \in Faults /\ UNCHANGED keyring
             /\ Step(p, [t EXCEPT !.purge = t.purge \ {r}])
        /\ UNCHANGED <<disk, tmp>>

\* Mutant: a rollback that deletes what it cannot leave.
undo_deleting(p) ==
    LET t == tx[p]
    IN  /\ t.at = "undo"
        /\ \E r \in undoable(t) :
             /\ keyring' = [keyring EXCEPT ![r] = NoSecret]
             /\ Step(p, [t EXCEPT !.undo[r] = Untouched])
        /\ UNCHANGED <<disk, tmp>>

undo(p) ==
    LET t == tx[p]
    IN  /\ t.at = "undo"
        /\ \E r \in undoable(t) :
             /\ is_next(r, undoable(t))
             /\ \/ keyring' = [keyring EXCEPT ![r] = t.undo[r]]
                \/ "undo" \in Faults /\ UNCHANGED keyring
             /\ Step(p, [t EXCEPT !.undo[r] = Untouched])
        /\ UNCHANGED <<disk, tmp>>

return_ok(p) ==
    /\ tx[p].at = "purge" /\ tx[p].purge = {}
    /\ tx' = [tx EXCEPT ![p] = Idle]
    /\ UNCHANGED <<disk, tmp, keyring>>

return_err(p) ==
    /\ tx[p].at = "undo" /\ undoable(tx[p]) = {}
    /\ tx' = [tx EXCEPT ![p] = Idle]
    /\ UNCHANGED <<disk, tmp, keyring>>

\* The process dies; what it had in memory is gone, both stores stay.
crash(p) ==
    /\ Crashes
    /\ tx[p].at # "idle"
    /\ tx' = [tx EXCEPT ![p] = Idle]
    /\ UNCHANGED <<disk, tmp, keyring>>
-------------------------------------------------------------------------------
Call(p) ==
    \/ \E id \in Ids, kind \in DraftKinds[p], mark \in Marks,
          alias \in Ids \cup Aliases \cup {NoAlias} :
          \E fields \in SecretShapes(kind) : \E secrets \in [fields -> Values] :
             add(p, id, kind, alias, mark, secrets)
    \/ \E i \in DOMAIN disk, ssh \in SshEdits, mark \in Marks,
          alias \in Ids \cup Aliases \cup {NoAlias} :
          \E edit \in KindEdits(disk[i].kind) : update(p, i, edit, ssh, alias, mark)
    \/ \E i \in DOMAIN disk : delete(p, i)
    \/ \E i \in DOMAIN disk, index \in 0 .. Len(disk) : move_to(p, i, index)
    \/ \E i \in DOMAIN disk, mark \in Marks : set_mark(p, i, mark)
    \/ \E i \in DOMAIN disk, new_id \in Ids : duplicate(p, i, new_id)
    \/ \E i \in DOMAIN disk, key_ref \in Refs, secret \in Values :
          repair_foreign_ref(p, i, key_ref, secret)
    \/ \E bundle \in Bundles, overwrite \in BOOLEAN : import_bundle(p, bundle, overwrite)

Proceed(p) ==
    \/ pass_over(p) \/ accept(p) \/ accepted_all(p) \/ copy_secrets(p)
    \/ look(p) \/ put(p) \/ put_fails(p) \/ refuse(p)
    \/ save_tmp(p) \/ save_tmp_fails(p) \/ rename(p) \/ rename_fails(p)
    \/ purge(p) \/ undo(p) \/ return_ok(p) \/ return_err(p)

Next == \E p \in Procs : Call(p) \/ Proceed(p) \/ crash(p)

Spec == Init /\ [][Next]_vars

\* A call is ordinary code: once begun it keeps making steps.
LiveSpec == Spec /\ \A p \in Procs : WF_vars(Proceed(p))
-------------------------------------------------------------------------------
\* Every variable keeps its shape.
Tx == [ at        : {"idle", "import", "copy", "secrets", "rename", "purge", "undo"},
        call      : {"none", "add", "update", "delete", "move_to", "set_mark",
                     "duplicate", "repair_foreign_ref", "import_bundle"},
        ids       : SUBSET Ids,
        new       : Files,
        incoming  : Files,
        overwrite : BOOLEAN,
        given     : [Refs -> Slot],
        owner     : [Refs -> Ids \cup {NoId}],
        copies    : [Refs -> Refs \cup {NoRef}],
        writes    : [Refs -> Slot],
        cur       : Refs \cup {NoRef},
        seen      : Slot,
        undo      : [Refs -> Slot \cup {Untouched}],
        purge     : SUBSET Refs,
        doomed    : BOOLEAN,
        found     : [Refs -> Slot \cup {Untouched}] ]

TypeOK ==
    /\ disk \in Files
    /\ tmp \in BOOLEAN
    /\ keyring \in [Refs -> Slot]
    /\ tx \in [Procs -> Tx]

\* "The two stores must not be allowed to drift": every slot connections.toml
\* points at holds a secret, whatever call failed or died half-way.
NoDanglingRef == \A r \in FileRefs(disk) : keyring[r] # NoSecret

\* Every slot an entry points at was minted for that entry, so no change to
\* one connection can reach the secret of another.
RefsOwned == \A i \in DOMAIN disk : foreign_refs(disk[i]) = {}

\* The file can always be parsed: no id occurs twice, whoever wrote it.
FileParses == UniqueIds(disk)

\* When nothing is going on, the keychain holds no secret that no connection
\* points at: no failed call leaves one behind.
NoOrphanSecret ==
    (\A p \in Procs : tx[p].at = "idle") =>
        \A r \in Refs : keyring[r] # NoSecret => r \in FileRefs(disk)

\* A running call touches no slot that a connection it is not about uses.
OthersUntouched ==
    [][\A p \in Procs : tx[p].at # "idle" /\ tx'[p] # tx[p] =>
          \A i \in DOMAIN disk : disk[i].id \notin tx[p].ids =>
              \A r \in disk[i].refs : keyring'[r] = keyring[r]]_vars

\* The guard of import: whatever a bundle's references aim at, no secret of a
\* connection the bundle does not replace is touched.
ImportSparesOthers ==
    [][\A p \in Procs : tx[p].call = "import_bundle" /\ tx'[p] # tx[p] =>
          \A i \in DOMAIN disk : disk[i].id \notin tx[p].ids =>
              \A r \in disk[i].refs : keyring'[r] = keyring[r]]_vars

\* A call that ends in an error leaves every secret a connection uses as it
\* found it.
restores_secrets(p) ==
    return_err(p) => \A r \in FileRefs(disk) : tx[p].found[r] \in {Untouched, keyring[r]}

\* Ids and aliases share one name space, and every slot belongs to the id it was
\* minted for.  Only an import can leave a name with two connections, or point
\* one of them at a slot of another: every other call checks what it gives a
\* connection against both (an alias that hides its owner's id would otherwise
\* come back to bite when it is cleared), and mints slots of its own.
names(entry) == {entry.id, entry.alias} \ {NoAlias}
shared_names(file) ==
    {n \in Ids \cup Aliases : \E i, j \in DOMAIN file :
        i # j /\ n \in names(file[i]) \cap names(file[j])}
foreign_slots(file) == UNION {foreign_refs(file[i]) : i \in DOMAIN file}
OnlyImportsMixConnections ==
    [][\/ /\ shared_names(disk') \subseteq shared_names(disk)
          /\ foreign_slots(disk') \subseteq foreign_slots(disk)
       \/ \E p \in Procs : tx[p].call = "import_bundle" /\ tx[p].at = "rename"]_vars

\* Saving a call's file loses no connection the call is not about.
EntriesSurvive ==
    [][\A p \in Procs : rename(p) =>
          entry_ids(disk) \ tx[p].ids \subseteq entry_ids(disk')]_vars

\* No two processes are ever between creating the temporary file and renaming
\* it, so neither can rename what the other is still writing.
OneSaveAtATime ==
    \A p, q \in Procs : tx[p].at = "rename" /\ tx[q].at = "rename" => p = q

\* Every call returns, whatever fails under it.
EveryCallReturns == \A p \in Procs : tx[p].at # "idle" ~> tx[p].at = "idle"
-------------------------------------------------------------------------------
(***************************************************************************)
(* The list of connections a caller can rely on.  Until a call's file is   *)
(* in place, a slot it has overwritten counts for what its undo plan says  *)
(* it held.                                                                *)
(***************************************************************************)
effective(r) ==
    IF \E p \in Procs : r \in undoable(tx[p])
    THEN LET p == CHOOSE p \in Procs : r \in undoable(tx[p]) IN tx[p].undo[r]
    ELSE keyring[r]

with_secrets(entry, secret(_)) ==
    [entry |-> entry, secrets |-> [r \in entry.refs |-> secret(r)]]

saved_list == [i \in DOMAIN disk |-> with_secrets(disk[i], effective)]
===============================================================================
