------------------------------ MODULE AiProviders ------------------------------
(***************************************************************************)
(* The AI providers: ai-providers.toml, their keys in the OS keychain and  *)
(* the live provider the assistant talks to (ai_settings.rs, ai_store.rs;  *)
(* ai/providers.rs and ai/mod.rs of the desktop).                          *)
(*                                                                         *)
(* The management commands are synchronous, so they run one after another  *)
(* on the main thread and each is one action here.  What may go wrong      *)
(* inside one is a choice of that action: the keychain refuses, the save   *)
(* fails, the program is killed.  A second dbboard on the same profile is  *)
(* left out.                                                               *)
(***************************************************************************)
EXTENDS Naturals, FiniteSets

CONSTANTS
    Ids,            \* ids of providers
    Kinds,          \* "anthropic", "openai"
    Models,         \* model names
    Keys,           \* API keys
    None,           \* no provider, no key, no id
    EnvKeys,        \* what DBBOARD_ANTHROPIC_API_KEY may hold: keys, or None
    AiFaults        \* what may fail: "get", "set", "delete", "save", "kill"

VARIABLES
    disk,           \* ai-providers.toml: active_id and the entries by id
    tmp,            \* a leftover of a save is in the way of the next one
    keys,           \* the keychain: a key or None for each id, by keyring_ref
    admin,          \* the file as AiSettingsAdmin holds it
    slot,           \* the live provider, or None
    running,        \* the program runs
    env,            \* the key in its environment
    excused         \* history: a failure since the start was only logged

AiVars == <<disk, tmp, keys, admin, slot, running, env, excused>>

Entries == UNION {[S -> [kind : Kinds, model : Models]] : S \in SUBSET Ids}
Files == {f \in [active_id : Ids \cup {None}, providers : Entries] :
             f.active_id \in DOMAIN f.providers \cup {None}}

empty == [active_id |-> None, providers |-> [id \in {} |-> {}]]
ids(f) == DOMAIN f.providers

put(f, id, entry) ==
    [f EXCEPT !.providers = [i \in ids(f) \cup {id} |-> IF i = id THEN entry ELSE f.providers[i]]]
removed(f, id) ==
    [active_id |-> IF f.active_id = id THEN None ELSE f.active_id,
     providers |-> [i \in ids(f) \ {id} |-> f.providers[i]]]

may(fault) == fault \in AiFaults

\* build_provider_for_kind: what the entry of id makes, with the key k.
built(f, id, k) == [kind |-> f.providers[id].kind, model |-> f.providers[id].model, key |-> k]
from_env(k) == [kind |-> "anthropic", model |-> None, key |-> k]

\* resolve_initial_provider: the environment, else the active entry, else nothing.
initial(f, k, e) ==
    IF e # None THEN {from_env(e)}
    ELSE IF f.active_id = None \/ k[f.active_id] = None THEN {None}
    ELSE {built(f, f.active_id, k[f.active_id])} \cup (IF may("get") THEN {None} ELSE {})

AiInit ==
    /\ disk = empty /\ admin = empty
    /\ tmp = FALSE
    /\ keys = [id \in Ids |-> None]
    /\ env \in EnvKeys
    /\ slot \in initial(empty, keys, env)
    /\ running = TRUE
    /\ excused = FALSE
-------------------------------------------------------------------------------
(***************************************************************************)
(* save_atomic: create the temporary file, which must not be there, write  *)
(* it, rename it.  A failed write leaves it behind, a failed rename may.   *)
(***************************************************************************)
saved(f) == ~ tmp /\ disk' = f /\ admin' = f /\ UNCHANGED tmp
not_saved ==
    /\ \/ tmp /\ UNCHANGED tmp
       \/ ~ tmp /\ may("save") /\ tmp' \in BOOLEAN
    /\ UNCHANGED <<disk, admin>>

\* The program is killed before or after the rename of f.
killed(f) ==
    /\ may("kill")
    /\ \/ ~ tmp /\ disk' = f /\ tmp' = FALSE
       \/ disk' = disk /\ tmp' \in {tmp, TRUE}
    /\ running' = FALSE /\ slot' = None /\ admin' = empty

launch ==
    /\ ~ running
    /\ running' = TRUE
    /\ admin' = disk
    /\ env' \in EnvKeys
    /\ slot' \in initial(disk, keys, env')
    /\ excused' = (slot' = None /\ disk.active_id # None)
    /\ UNCHANGED <<disk, tmp, keys>>

\* Somebody deletes the leftover by hand.
clean == tmp /\ tmp' = FALSE /\ UNCHANGED <<disk, keys, admin, slot, running, env, excused>>
-------------------------------------------------------------------------------
(***************************************************************************)
(* The management commands.                                                *)
(***************************************************************************)
\* add_ai_provider: the key first, deleted again when the save fails.
add(id, entry, key) ==
    /\ running /\ id \notin ids(admin)
    /\ \/ may("set") /\ UNCHANGED <<disk, tmp, admin, keys, slot, running>>
       \/ /\ keys' = [keys EXCEPT ![id] = key]
          /\ \/ saved(put(admin, id, entry)) /\ UNCHANGED <<slot, running>>
             \/ killed(put(admin, id, entry))
       \/ /\ not_saved
          /\ keys' \in {[keys EXCEPT ![id] = None]}
                       \cup (IF may("delete") THEN {[keys EXCEPT ![id] = key]} ELSE {})
          /\ UNCHANGED <<slot, running>>
    /\ UNCHANGED <<env, excused>>

\* resync_active_slot, given the file and the keychain it reads: the slot follows
\* active_id; where the key cannot be read it stays, which is only logged.
resynced(f, k) ==
    IF f.active_id = None THEN slot' = None /\ UNCHANGED excused
    ELSE \/ /\ k[f.active_id] # None
            /\ slot' = built(f, f.active_id, k[f.active_id])
            /\ UNCHANGED excused
         \/ /\ k[f.active_id] = None \/ may("get")
            /\ excused' = TRUE
            /\ UNCHANGED slot

resync_active_slot(f, k) == resynced(f, k)

\* What the keychain holds after a failed save that followed the write of key.
restored(id, key) ==
    {keys} \cup (IF may("set") THEN {[keys EXCEPT ![id] = key]} ELSE {})

\* update_ai_provider: a new key replaces the old one, a blank one keeps it; the
\* kind stays.
update(id, model, key) ==
    LET entry == [kind |-> admin.providers[id].kind, model |-> model]
        next == put(admin, id, entry)
        written == IF key = None THEN keys ELSE [keys EXCEPT ![id] = key]
    IN /\ running /\ id \in ids(admin)
       /\ \/ /\ key # None /\ (may("get") \/ may("set"))
             /\ UNCHANGED <<disk, tmp, admin, keys, slot, running, excused>>
          \/ /\ keys' = written
             /\ \/ saved(next) /\ resync_active_slot(next, written) /\ UNCHANGED running
                \/ killed(next) /\ UNCHANGED excused
          \/ /\ not_saved
             /\ keys' \in IF key = None THEN {keys} ELSE restored(id, key)
             /\ excused' = (excused \/ keys' # keys)
             /\ UNCHANGED <<slot, running>>
       /\ UNCHANGED env

\* delete_ai_provider: the key is deleted once the file is saved, if it can be.
purged(id) == {[keys EXCEPT ![id] = None]} \cup (IF may("delete") THEN {keys} ELSE {})

\* The key goes first, whatever becomes of the file.
delete_key_first(id) ==
    /\ running /\ id \in ids(admin)
    /\ keys' \in purged(id)
    /\ \/ saved(removed(admin, id)) /\ resync_active_slot(removed(admin, id), keys) /\ UNCHANGED running
       \/ not_saved /\ UNCHANGED <<slot, running, excused>>
       \/ killed(removed(admin, id)) /\ UNCHANGED excused
    /\ UNCHANGED env

delete(id) ==
    /\ running /\ id \in ids(admin)
    /\ \/ /\ saved(removed(admin, id))
          /\ keys' \in purged(id)
          /\ resync_active_slot(removed(admin, id), keys)
          /\ UNCHANGED running
       \/ not_saved /\ UNCHANGED <<keys, slot, running, excused>>
       \/ /\ killed(removed(admin, id))
          /\ keys' \in IF disk' = disk THEN {keys} ELSE {keys, [keys EXCEPT ![id] = None]}
          /\ UNCHANGED excused
    /\ UNCHANGED env

\* set_active_ai_provider: the provider is built first, then swapped in, then
\* active_id is saved; when that fails it is only logged.
set_active(id) ==
    /\ running /\ id \in ids(admin)
    /\ \/ may("get") /\ UNCHANGED <<disk, tmp, admin, slot, running, excused>>
       \/ /\ keys[id] # None
          /\ \/ /\ slot' = built(admin, id, keys[id])
                /\ \/ saved([admin EXCEPT !.active_id = id]) /\ UNCHANGED excused
                   \/ not_saved /\ excused' = TRUE
                /\ UNCHANGED running
             \/ killed([admin EXCEPT !.active_id = id]) /\ UNCHANGED excused
    /\ UNCHANGED <<keys, env>>

\* ... and with no id: the live provider is dropped before the save, whose failure
\* the command reports.
clear_active ==
    /\ running
    /\ \/ /\ slot' = None
          /\ \/ saved([admin EXCEPT !.active_id = None]) /\ UNCHANGED excused
             \/ not_saved /\ excused' = TRUE
          /\ UNCHANGED running
       \/ killed([admin EXCEPT !.active_id = None]) /\ UNCHANGED excused
    /\ UNCHANGED <<keys, env>>

AiNext ==
    \/ launch \/ clean \/ clear_active
    \/ \E id \in Ids :
          \/ \E entry \in [kind : Kinds, model : Models], key \in Keys : add(id, entry, key)
          \/ \E model \in Models, key \in Keys \cup {None} : update(id, model, key)
          \/ delete(id) \/ set_active(id)

AiSpec == AiInit /\ [][AiNext]_AiVars
-------------------------------------------------------------------------------
(***************************************************************************)
(* Every provider in the file has its key in the keychain, whichever step  *)
(* of a command failed and wherever the program was killed (add writes the *)
(* key first, delete the file first).                                      *)
(***************************************************************************)
EveryProviderHasItsKey == \A id \in ids(disk) : keys[id] # None

(***************************************************************************)
(* Unless a failure was only logged, the assistant talks to the active     *)
(* provider with the key and the model it has now, and to none where none  *)
(* is active; where the environment has a key, to that one or to the       *)
(* active one (resync_active_slot, set_active_ai_provider).                *)
(***************************************************************************)
SlotFollowsActive ==
    running /\ ~ excused =>
        \/ env # None /\ slot = from_env(env)
        \/ slot = IF admin.active_id = None THEN None
                  ELSE built(admin, admin.active_id, keys[admin.active_id])

=============================================================================
