------------------------------ MODULE AdapterCache ------------------------------
(***************************************************************************)
(* McpService's adapter cache (service.rs of dbboard-mcp) under the        *)
(* connection commands of the desktop (connections/mod.rs, transfer.rs).   *)
(*                                                                         *)
(* Every call on a connection takes its live adapter from a cache, behind  *)
(* one lock held across the check of an idle adapter and across the whole  *)
(* build of a missing one: the entry is read from connections.toml, then   *)
(* its secret from the keyring, then the engine is dialled.  An edit goes  *)
(* through ConnectionAdmin, which knows nothing of the cache, under a lock *)
(* of its own that is released before the edit waits for the cache.        *)
(* The MCP server is another process, with a cache of its own.             *)
(***************************************************************************)
EXTENDS Integers, FiniteSets

CONSTANTS
    Conns,      \* the ids of connections
    Databases,  \* the databases a call may name
    Own,        \* no database named: the connection's own
    Servers,    \* the processes with a cache
    Desktop,    \* the one whose window edits connections
    Callers,    \* tasks that make calls, one after another
    Host,       \* the process each of them runs in
    Jobs,       \* what they call
    Editors,    \* tasks of the desktop that edit connections
    Edits,      \* what they do
    MayWrite,   \* the values of mcp_write an entry may have
    MaxEdits,   \* bound: edits
    MaxDrops,   \* bound: how often a link is lost
    Idle,       \* the ticks an adapter is trusted for: HEALTH_CHECK_AFTER_IDLE
    Nobody      \* nothing

ASSUME ServerAssumption == Desktop \in Servers /\ Host \in [Callers -> Servers]
ASSUME KeyAssumption == Own \notin Databases
ASSUME BoundAssumption == MaxEdits \in Nat /\ MaxDrops \in Nat /\ Idle \in Nat \ {0}
\* "fails" is an edit whose save of connections.toml fails.
ASSUME EditAssumption == Edits \subseteq {"add", "update", "delete", "import", "fails"}
ASSUME JobAssumption == Jobs \subseteq {"read", "write", "reconnect"}
ASSUME WriteAssumption == MayWrite \subseteq BOOLEAN
ASSUME NobodyAssumption == Nobody \notin Callers \cup Conns

VARIABLES
    entry,      \* connections.toml
    secret,     \* the keyring
    edits,      \* how many edits there were, which numbers what they store
    editor,     \* each editing task
    cache,      \* the adapters of each process
    lock,       \* who holds the cache of each process
    call,       \* each caller
    reach,      \* the connections whose engine can be reached
    drops,      \* how many links were lost
    recent      \* history: what was stored since no edit was under way

vars == <<entry, secret, edits, editor, cache, lock, call, reach, drops, recent>>
stores == <<entry, secret, edits, recent>>
links == <<reach, drops>>
-------------------------------------------------------------------------------
(***************************************************************************)
(* Target.  An entry and a secret are told apart by the number of the edit *)
(* that stored them; 0 is none.                                            *)
(***************************************************************************)
Keys == Conns \X (Databases \cup {Own})
key_belongs_to(key, c) == key[1] = c
key_is(key, c) == key = <<c, Own>>    \* mutant: a database's own pool is left

Versions == Nat
Entries == [ver: Versions, mcp_write: MayWrite]
Adapters == [key: Keys, ver: Versions, sec: Versions]
Cached == [adapter: Adapters, age: 0 .. Idle, lost: BOOLEAN, lostFor: 0 .. Idle]
ASSUME NotCachedAssumption == Nobody \notin Cached

\* CachedAdapter: the adapter, the ticks since it last answered, whether its
\* link is lost, and for how long.
connected(a) == [adapter |-> a, age |-> 0, lost |-> FALSE, lostFor |-> 0]
NotCached == Nobody
NoEdit == [at |-> "idle", kind |-> "none", conn |-> Nobody, kept |-> 0]

Resting == {"idle", "done", "failed"}
Calls == [ at: Resting \cup {"gate", "evict", "want", "ping", "file", "keyring",
                             "connect", "handed"},
           job: Jobs \cup {"none"}, key: Keys, built: Adapters \cup {Nobody},
           lostFor: 0 .. Idle, vers: SUBSET Versions, secs: SUBSET Versions,
           allowed: BOOLEAN ]

Init ==
    /\ entry \in [Conns -> [ver: {1}, mcp_write: MayWrite]]
    /\ secret = [c \in Conns |-> 1]
    /\ edits = 0
    /\ editor = [e \in Editors |-> NoEdit]
    /\ cache = [s \in Servers |-> [k \in Keys |-> NotCached]]
    /\ lock = [s \in Servers |-> Nobody]
    /\ \E k \in Keys :
         call = [p \in Callers |-> [ at |-> "idle", job |-> "none", key |-> k,
                                     built |-> Nobody, lostFor |-> 0,
                                     vers |-> {}, secs |-> {}, allowed |-> FALSE ]]
    /\ reach = Conns
    /\ drops = 0
    /\ recent = [c \in Conns |-> [vers |-> {1}, secs |-> {1}]]
-------------------------------------------------------------------------------
(***************************************************************************)
(* adapter_for_target.                                                     *)
(***************************************************************************)
server(p) == Host[p]
conn(p) == call[p].key[1]
cached(p) == cache[server(p)][call[p].key]
free(s) == lock[s] = Nobody

Advance(p, at) == call' = [call EXCEPT ![p].at = at]
acquire(p) == free(server(p)) /\ lock' = [lock EXCEPT ![server(p)] = p]
release(p) == lock' = [lock EXCEPT ![server(p)] = Nobody]

hand_back(p, c) ==
    call' = [call EXCEPT ![p].at = "handed", ![p].built = c.adapter,
                         ![p].lostFor = c.lostFor]
fail_again(p) ==    \* mutant: an error is retried
    Advance(p, "want") /\ release(p) /\ UNCHANGED cache
fail(p) == Advance(p, "failed") /\ release(p) /\ UNCHANGED cache

hit_renews(p) ==    \* mutant: use counts as proof
    /\ call[p].at = "want" /\ free(server(p))
    /\ cached(p) # NotCached /\ cached(p).age < Idle
    /\ hand_back(p, cached(p))
    /\ cache' = [cache EXCEPT ![server(p)][call[p].key].age = 0]
    /\ UNCHANGED <<stores, editor, lock, links>>

\* A young adapter is handed straight back.
hit(p) ==
    /\ call[p].at = "want" /\ free(server(p))
    /\ cached(p) # NotCached /\ cached(p).age < Idle
    /\ hand_back(p, cached(p))
    /\ UNCHANGED <<stores, editor, cache, lock, links>>

miss_unlocked(p) ==    \* mutant: the lock is not held across the build
    /\ call[p].at = "want" /\ free(server(p))
    /\ \/ cached(p) = NotCached /\ Advance(p, "file") /\ UNCHANGED lock
       \/ cached(p) # NotCached /\ cached(p).age = Idle /\ Advance(p, "ping") /\ acquire(p)
    /\ UNCHANGED <<stores, editor, cache, links>>

\* An idle one is pinged first, a missing one built, under the lock.
miss(p) ==
    /\ call[p].at = "want" /\ acquire(p)
    /\ \/ cached(p) = NotCached /\ Advance(p, "file")
       \/ cached(p) # NotCached /\ cached(p).age = Idle /\ Advance(p, "ping")
    /\ UNCHANGED <<stores, editor, cache, links>>

ping(p) ==
    /\ call[p].at = "ping"
    /\ \/ /\ ~cached(p).lost
          /\ cache' = [cache EXCEPT ![server(p)][call[p].key].age = 0]
          /\ hand_back(p, cached(p))
          /\ release(p)
       \/ /\ cached(p).lost
          /\ cache' = [cache EXCEPT ![server(p)][call[p].key] = NotCached]
          /\ Advance(p, "file")
          /\ UNCHANGED lock
    /\ UNCHANGED <<stores, editor, links>>

\* load_connection_file and the search for the entry.
load(p) ==
    /\ call[p].at = "file"
    /\ LET e == entry[conn(p)]
       IN  \/ /\ e.ver # 0
              /\ call' = [call EXCEPT
                    ![p].at = "keyring",
                    ![p].built = [key |-> call[p].key, ver |-> e.ver, sec |-> 0]]
              /\ UNCHANGED <<cache, lock>>
           \/ e.ver = 0 /\ fail(p)
    /\ UNCHANGED <<stores, editor, links>>

\* backend_config_for_entry.
keyring(p) ==
    /\ call[p].at = "keyring"
    /\ \/ /\ secret[conn(p)] # 0
          /\ call' = [call EXCEPT ![p].at = "connect", ![p].built.sec = secret[conn(p)]]
          /\ UNCHANGED <<cache, lock>>
       \/ secret[conn(p)] = 0 /\ fail(p)
    /\ UNCHANGED <<stores, editor, links>>

\* connect_adapter, which pings, and the insertion.
connect(p) ==
    /\ call[p].at = "connect"
    /\ \/ /\ conn(p) \in reach
          /\ LET c == connected(call[p].built)
             IN  /\ cache' = [cache EXCEPT ![server(p)][call[p].key] = c]
                 /\ hand_back(p, c)
          /\ release(p)
       \/ fail(p)
    /\ UNCHANGED <<stores, editor, links>>
-------------------------------------------------------------------------------
(***************************************************************************)
(* The calls.  A reader uses its adapter; run_write asks connections.toml  *)
(* for the permission first; reconnect evicts and builds.                  *)
(***************************************************************************)
permits(e) == e.ver # 0 /\ e.mcp_write

FirstStep(job) ==
    CASE job = "write" -> "gate" [] job = "reconnect" -> "evict" [] OTHER -> "want"

begin(p) ==
    /\ call[p].at \in Resting
    /\ \E job \in Jobs, key \in Keys :
         /\ job # "read" => key[2] = Own
         /\ call' = [call EXCEPT
               ![p] = [ at |-> FirstStep(job), job |-> job, key |-> key, built |-> Nobody,
                        lostFor |-> 0, vers |-> recent[key[1]].vers,
                        secs |-> recent[key[1]].secs, allowed |-> permits(entry[key[1]]) ]]
    /\ UNCHANGED <<stores, editor, cache, lock, links>>

gate_on_build(p) ==    \* mutant: what is cached needs no permission
    /\ call[p].at = "gate"
    /\ IF cached(p) # NotCached \/ permits(entry[conn(p)])
       THEN Advance(p, "want")
       ELSE Advance(p, "failed")
    /\ UNCHANGED <<stores, editor, cache, lock, links>>

require_mcp_write(p) ==
    /\ call[p].at = "gate"
    /\ IF permits(entry[conn(p)]) THEN Advance(p, "want") ELSE Advance(p, "failed")
    /\ UNCHANGED <<stores, editor, cache, lock, links>>

evicted_own(s, c) ==    \* mutant: only the connection's own database is evicted
    [cache EXCEPT ![s] = [k \in Keys |-> IF key_is(k, c) THEN NotCached ELSE @[k]]]
evicted(s, c) ==
    [cache EXCEPT ![s] = [k \in Keys |-> IF key_belongs_to(k, c) THEN NotCached ELSE @[k]]]

evict(p) ==
    /\ call[p].at = "evict" /\ free(server(p))
    /\ cache' = evicted(server(p), conn(p))
    /\ Advance(p, "want")
    /\ UNCHANGED <<stores, editor, lock, links>>

\* What is done with the adapter itself: adapter.execute, adapter.query.
use(p) ==
    /\ call[p].at = "handed"
    /\ Advance(p, "done")
    /\ UNCHANGED <<stores, editor, cache, lock, links>>

Proceed(p) ==
    \/ require_mcp_write(p) \/ evict(p) \/ hit(p) \/ miss(p) \/ ping(p)
    \/ load(p) \/ keyring(p) \/ connect(p) \/ use(p)
-------------------------------------------------------------------------------
(***************************************************************************)
(* Edits.  The admin lock lets one edit at a time at the two stores; what  *)
(* an edit stores there is what ConnectionAdmin has in detail.             *)
(***************************************************************************)
Storing == {"stored", "purging"}
admin_free == \A e \in Editors : editor[e].at \notin Storing
pending(c) == {e \in Editors : editor[e].at # "idle" /\ editor[e].conn = c}
Stand(e, at) == editor' = [editor EXCEPT ![e].at = at]
Over(e) == editor' = [editor EXCEPT ![e] = NoEdit]

\* The history follows every change e makes to the stores of c, and starts anew
\* when it is over and no other edit of c is under way.
Observe(e, c) ==
    LET now == [vers |-> {entry'[c].ver}, secs |-> {secret'[c]}]
        both == [vers |-> recent[c].vers \cup now.vers, secs |-> recent[c].secs \cup now.secs]
    IN  /\ recent' = [recent EXCEPT ![c] =
              IF editor'[e] = NoEdit /\ pending(c) \subseteq {e} THEN now ELSE both]
        /\ call' = [p \in Callers |->
              IF call[p].at \in Resting \/ conn(p) # c THEN call[p]
              ELSE [call[p] EXCEPT
                      !.vers = @ \cup now.vers, !.secs = @ \cup now.secs,
                      !.allowed = @ \/ (permits(entry'[c]))]]

\* A secret goes to the keyring before its entry goes to connections.toml.
write_secret(e) ==
    /\ editor[e].at = "idle" /\ admin_free /\ edits < MaxEdits
    /\ \E c \in Conns, kind \in Edits \cap {"add", "update", "import"} :
         /\ kind = "add" <=> entry[c].ver = 0
         /\ secret' = [secret EXCEPT ![c] = edits + 2]
         /\ editor' = [editor EXCEPT
               ![e] = [at |-> "stored", kind |-> kind, conn |-> c, kept |-> secret[c]]]
         /\ UNCHANGED entry
         /\ Observe(e, c)
    /\ UNCHANGED <<edits, cache, lock, links>>

\* The save: an update goes on to the cache, an add and an import are over.
save_entry(e) ==
    /\ editor[e].at = "stored"
    /\ \E mcp_write \in MayWrite :
         entry' = [entry EXCEPT ![editor[e].conn] = [ver |-> edits + 2, mcp_write |-> mcp_write]]
    /\ edits' = edits + 1
    /\ IF editor[e].kind = "update" THEN Stand(e, "saved") ELSE Over(e)
    /\ UNCHANGED secret
    /\ Observe(e, editor[e].conn)
    /\ UNCHANGED <<cache, lock, links>>

\* The save fails: the secret is put back, for an add that is none, and the
\* command ends with the error.
save_fails(e) ==
    /\ editor[e].at = "stored" /\ "fails" \in Edits
    /\ secret' = [secret EXCEPT ![editor[e].conn] = editor[e].kept]
    /\ edits' = edits + 1
    /\ Over(e)
    /\ UNCHANGED entry
    /\ Observe(e, editor[e].conn)
    /\ UNCHANGED <<cache, lock, links>>

\* An update that keeps the stored secret.
update_entry(e) ==
    /\ editor[e].at = "idle" /\ admin_free /\ edits < MaxEdits /\ "update" \in Edits
    /\ \E c \in Conns, mcp_write \in MayWrite :
         /\ entry[c].ver # 0
         /\ entry' = [entry EXCEPT ![c] = [ver |-> edits + 2, mcp_write |-> mcp_write]]
         /\ editor' = [editor EXCEPT
               ![e] = [at |-> "saved", kind |-> "update", conn |-> c, kept |-> 0]]
         /\ UNCHANGED secret
         /\ Observe(e, c)
    /\ edits' = edits + 1
    /\ UNCHANGED <<cache, lock, links>>

delete(e) ==
    /\ editor[e].at = "idle" /\ admin_free /\ edits < MaxEdits /\ "delete" \in Edits
    /\ \E c \in Conns :
         /\ entry[c].ver # 0
         /\ entry' = [entry EXCEPT ![c].ver = 0]
         /\ editor' = [editor EXCEPT
               ![e] = [at |-> "purging", kind |-> "delete", conn |-> c, kept |-> 0]]
         /\ UNCHANGED secret
         /\ Observe(e, c)
    /\ edits' = edits + 1
    /\ UNCHANGED <<cache, lock, links>>

purge(e) ==
    /\ editor[e].at = "purging"
    /\ secret' = [secret EXCEPT ![editor[e].conn] = 0]
    /\ Stand(e, "saved")
    /\ UNCHANGED <<entry, edits>>
    /\ Observe(e, editor[e].conn)
    /\ UNCHANGED <<cache, lock, links>>

\* invalidate, with the admin lock released.
invalidate(e) ==
    /\ editor[e].at = "saved" /\ free(Desktop)
    /\ cache' = evicted(Desktop, editor[e].conn)
    /\ Over(e)
    /\ UNCHANGED <<entry, secret, edits>>
    /\ Observe(e, editor[e].conn)
    /\ UNCHANGED <<lock, links>>

Edit(e) ==
    \/ write_secret(e) \/ save_entry(e) \/ save_fails(e) \/ update_entry(e)
    \/ delete(e) \/ purge(e) \/ invalidate(e)
-------------------------------------------------------------------------------
(***************************************************************************)
(* The world: time, and links that are lost under the adapters that hold   *)
(* them; a new one can be made when the engine can be reached again.       *)
(***************************************************************************)
Older(c) ==
    IF c = NotCached THEN c
    ELSE [c EXCEPT !.age = IF @ < Idle THEN @ + 1 ELSE @,
                   !.lostFor = IF c.lost /\ @ < Idle THEN @ + 1 ELSE @]

tick ==
    /\ cache' = [s \in Servers |-> [k \in Keys |-> Older(cache[s][k])]]
    /\ cache' # cache
    /\ UNCHANGED <<stores, editor, lock, call, links>>

drop(c) ==
    /\ c \in reach /\ drops < MaxDrops
    /\ reach' = reach \ {c} /\ drops' = drops + 1
    /\ cache' = [s \in Servers |-> [k \in Keys |->
          IF cache[s][k] # NotCached /\ key_belongs_to(k, c)
          THEN [cache[s][k] EXCEPT !.lost = TRUE] ELSE cache[s][k]]]
    /\ UNCHANGED <<stores, editor, lock, call>>

restore(c) ==
    /\ c \notin reach
    /\ reach' = reach \cup {c}
    /\ UNCHANGED <<stores, editor, cache, lock, call, drops>>

Next ==
    \/ \E p \in Callers : begin(p) \/ Proceed(p)
    \/ \E e \in Editors : Edit(e)
    \/ tick
    \/ \E c \in Conns : drop(c) \/ restore(c)

Spec == Init /\ [][Next]_vars

\* A call and an edit that have begun go on, since nothing but the engine can
\* hold them up, and the lock of the cache is handed out in turn.
LiveSpec ==
    /\ Spec
    /\ \A p \in Callers : SF_vars(Proceed(p))
    /\ \A e \in Editors : SF_vars(invalidate(e)) /\ WF_vars(save_entry(e) \/ purge(e))
-------------------------------------------------------------------------------
\* Every variable keeps its shape.
TypeOK ==
    /\ entry \in [Conns -> Entries]
    /\ secret \in [Conns -> Versions]
    /\ edits \in Nat
    /\ editor \in [Editors -> [at: {"idle", "stored", "purging", "saved"},
                              kind: {"none", "add", "update", "import", "delete"},
                              conn: Conns \cup {Nobody}, kept: Versions]]
    /\ cache \in [Servers -> [Keys -> Cached \cup {NotCached}]]
    /\ lock \in [Servers -> Callers \cup {Nobody}]
    /\ call \in [Callers -> Calls]
    /\ reach \subseteq Conns
    /\ drops \in Nat
    /\ recent \in [Conns -> [vers: SUBSET Versions, secs: SUBSET Versions]]

\* A call gets an adapter made of an entry and a secret that were stored while
\* it ran, or since the last edit that had returned when it began: never one
\* from before an edit the user has seen succeed or fail (invalidate's promise).
HandedBackIsCurrent ==
    \A p \in Callers : call[p].at = "handed" =>
        call[p].built.ver \in call[p].vers /\ call[p].built.sec \in call[p].secs

\* While no edit of a connection is under way, every adapter the desktop keeps
\* for it, and what it is building one from, is what the two stores hold now.
CacheIsCurrent ==
    \A c \in Conns : pending(c) = {} =>
        /\ \A k \in Keys : key_belongs_to(k, c) /\ cache[Desktop][k] # NotCached =>
              /\ cache[Desktop][k].adapter.ver = entry[c].ver
              /\ cache[Desktop][k].adapter.sec = secret[c]
        /\ \A p \in Callers : server(p) = Desktop /\ conn(p) = c =>
              /\ call[p].at \in {"keyring", "connect"} => call[p].built.ver = entry[c].ver
              /\ call[p].at = "connect" => call[p].built.sec = secret[c]

\* A dead adapter is handed out for less than the idle limit after its link was
\* lost, however busy the connection is: the wedge CachedAdapter describes ends.
WedgeIsBounded ==
    \A p \in Callers : call[p].at = "handed" => call[p].lostFor < Idle

\* run_write reaches an engine only if the permission was on at some moment of
\* the call: revoking it needs no restart, whatever is cached.
WritesWereAllowed ==
    \A p \in Callers : call[p].at = "handed" /\ call[p].job = "write" => call[p].allowed

\* Every call returns, and every edit that was stored gets through to its end:
\* nobody keeps the lock of the cache.
EveryCallReturns ==
    /\ \A p \in Callers : call[p].at \notin Resting ~> call[p].at \in Resting
    /\ \A e \in Editors : editor[e].at # "idle" ~> editor[e].at = "idle"
===============================================================================
