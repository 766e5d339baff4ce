--------------------------- MODULE SmallPartsProofs ---------------------------
(***************************************************************************)
(* What the parts with short proofs promise, for every value of their      *)
(* constants: the assistant's settings (AiProviders), the agent's files    *)
(* (AgentFiles), the refresh of an Aurora DSQL token (TokenRefresh) and    *)
(* what becomes of the rows of a statement (Results).                      *)
(***************************************************************************)
EXTENDS AiProviders, AgentFiles, TokenRefresh, Results, TLAPS

-------------------------------------------------------------------------------
(***************************************************************************)
(* AiProviders: for any providers, keys, models and failures.              *)
(***************************************************************************)
NoneAssumption == None \notin Ids \cup Keys

Entry == [kind : Kinds, model : Models]

AiTypes ==
    /\ disk \in Files /\ admin \in Files
    /\ keys \in [Ids -> Keys \cup {None}]
    /\ running \in BOOLEAN /\ excused \in BOOLEAN

\* The assistant's provider, given the file and the keys it should follow.
Follows(f, k, s, e) ==
    \/ e # None /\ s = from_env(e)
    \/ s = IF f.active_id = None THEN None ELSE built(f, f.active_id, k[f.active_id])

\* What is held of the file while the program runs is what is on disk.
AiInv ==
    /\ AiTypes
    /\ running => admin = disk
    /\ EveryProviderHasItsKey
    /\ running /\ ~ excused => Follows(admin, keys, slot, env)

LEMMA FileFacts ==
    /\ empty \in Files /\ ids(empty) = {} /\ empty.active_id = None
    /\ \A f \in Files : /\ ids(f) \subseteq Ids
                        /\ f.active_id = None \/ f.active_id \in ids(f)
                        /\ \A id \in ids(f) : f.providers[id] \in Entry
  <1>1. /\ empty.providers \in [{} -> Entry] /\ {} \subseteq Ids /\ DOMAIN empty.providers = {}
        /\ empty.active_id = None
    BY DEF empty
  <1>2. empty.providers \in Entries  BY <1>1 DEF Entries, Entry
  <1>3. empty \in Files  BY <1>1, <1>2 DEF Files, empty
  <1>4. ASSUME NEW f \in Files
        PROVE  /\ ids(f) \subseteq Ids
               /\ f.active_id = None \/ f.active_id \in ids(f)
               /\ \A id \in ids(f) : f.providers[id] \in Entry
    <2>1. PICK S \in SUBSET Ids : f.providers \in [S -> Entry]
      BY DEF Files, Entries, Entry
    <2> QED  BY <2>1 DEF Files, ids
  <1> QED  BY <1>1, <1>3, <1>4 DEF ids

LEMMA PutFacts ==
    ASSUME NEW f \in Files, NEW id \in Ids, NEW entry \in Entry
    PROVE  LET g == put(f, id, entry)
           IN  /\ g \in Files /\ g.active_id = f.active_id
               /\ ids(g) = ids(f) \cup {id}
               /\ \A i \in ids(f) \ {id} : g.providers[i] = f.providers[i]
  <1> DEFINE p == [i \in ids(f) \cup {id} |-> IF i = id THEN entry ELSE f.providers[i]]
             g == put(f, id, entry)
  <1>1. p \in [ids(f) \cup {id} -> Entry] /\ ids(f) \cup {id} \in SUBSET Ids
    BY FileFacts
  <1>2. p \in Entries  BY <1>1 DEF Entries, Entry
  <1>3. /\ f \in [active_id : Ids \cup {None}, providers : Entries]
        /\ f.active_id \in ids(f) \cup {None}
    BY DEF Files, ids
  <1>4. g = [f EXCEPT !.providers = p]  BY DEF put
  <1>5. DOMAIN p = ids(f) \cup {id} /\ \A i \in ids(f) \ {id} : p[i] = f.providers[i]
    OBVIOUS
  <1> HIDE DEF p, g
  <1>6. g.providers = p /\ g.active_id = f.active_id  BY <1>3, <1>4
  <1>7. g \in [active_id : Ids \cup {None}, providers : Entries]
    BY <1>2, <1>3, <1>4
  <1>8. g \in Files  BY <1>3, <1>5, <1>6, <1>7 DEF Files
  <1> QED  BY <1>5, <1>6, <1>8 DEF ids, g

LEMMA RemovedFacts ==
    ASSUME NEW f \in Files, NEW id \in Ids
    PROVE  LET g == removed(f, id)
           IN  /\ g \in Files
               /\ g.active_id = IF f.active_id = id THEN None ELSE f.active_id
               /\ ids(g) = ids(f) \ {id}
               /\ \A i \in ids(g) : g.providers[i] = f.providers[i]
  <1> DEFINE p == [i \in ids(f) \ {id} |-> f.providers[i]]
             g == removed(f, id)
  <1>1. p \in [ids(f) \ {id} -> Entry] /\ ids(f) \ {id} \in SUBSET Ids
    BY FileFacts
  <1>2. p \in Entries  BY <1>1 DEF Entries, Entry
  <1>3. /\ g.providers = p
        /\ g.active_id = IF f.active_id = id THEN None ELSE f.active_id
    BY DEF removed
  <1>4. DOMAIN p = ids(f) \ {id} /\ \A i \in ids(f) \ {id} : p[i] = f.providers[i]
    OBVIOUS
  <1> HIDE DEF p
  <1>5. g.active_id \in (ids(f) \ {id}) \cup {None}
    BY <1>3, FileFacts
  <1>6. g \in Files
    BY <1>1, <1>2, <1>3, <1>4, <1>5 DEF Files, removed, p
  <1> QED  BY <1>3, <1>4, <1>6 DEF ids

LEMMA ActiveFacts ==
    ASSUME NEW f \in Files, NEW id \in ids(f) \cup {None}
    PROVE  LET g == [f EXCEPT !.active_id = id]
           IN  g \in Files /\ g.active_id = id /\ g.providers = f.providers
  <1>1. /\ f \in [active_id : Ids \cup {None}, providers : Entries]
        /\ id \in Ids \cup {None}
    BY FileFacts DEF Files
  <1> QED  BY <1>1 DEF Files, ids

\* The slot goes on following a file whose active provider is the same, with the
\* same key.
LEMMA GoesOnFollowing ==
    ASSUME NEW f, NEW g, NEW k, NEW l, NEW s, NEW e, Follows(f, k, s, e),
           g.active_id = f.active_id,
           f.active_id # None => /\ g.providers[f.active_id] = f.providers[f.active_id]
                                 /\ l[f.active_id] = k[f.active_id]
    PROVE  Follows(g, l, s, e)
  BY DEF Follows, built

LEMMA ResyncFollows ==
    ASSUME NEW f, NEW k, resync_active_slot(f, k), excused \in BOOLEAN
    PROVE  excused' \in BOOLEAN /\ (~ excused' => Follows(f, k, slot', env))
  BY DEF resync_active_slot, resynced, Follows

\* After a kill nothing runs, and the file is the old one or the new one.
LEMMA KilledFacts ==
    ASSUME AiInv, NEW f \in Files, killed(f), excused' = excused,
           keys' \in [Ids -> Keys \cup {None}],
           \A id \in ids(disk') : keys'[id] # None
    PROVE  AiInv'
  <1>1. disk' \in {f, disk} /\ running' = FALSE /\ admin' = empty  BY DEF killed
  <1> QED  BY <1>1, FileFacts DEF AiInv, AiTypes, EveryProviderHasItsKey

LEMMA AddHolds ==
    ASSUME NoneAssumption, AiInv, NEW id \in Ids, NEW entry \in Entry, NEW key \in Keys,
           add(id, entry, key)
    PROVE  AiInv'
  <1> DEFINE g == put(admin, id, entry)
  <1>1. /\ running /\ admin = disk /\ id \notin ids(admin) /\ AiTypes /\ EveryProviderHasItsKey
        /\ UNCHANGED <<env, excused>> /\ key # None
    BY DEF add, AiInv, NoneAssumption
  <1>2. /\ g \in Files /\ g.active_id = admin.active_id /\ ids(g) = ids(admin) \cup {id}
        /\ \A i \in ids(admin) : g.providers[i] = admin.providers[i]
    BY <1>1, PutFacts DEF AiTypes
  <1>3. /\ ids(admin) \subseteq Ids
        /\ admin.active_id # None => admin.active_id \in ids(admin) \ {id}
    BY <1>1, FileFacts DEF AiTypes
  <1> HIDE DEF g
  <1>4. CASE UNCHANGED <<disk, tmp, admin, keys, slot, running>>
    BY <1>1, <1>4 DEF AiInv, AiTypes, EveryProviderHasItsKey, Follows, built, from_env
  <1>5. CASE keys' = [keys EXCEPT ![id] = key] /\ saved(g) /\ UNCHANGED <<slot, running>>
    <2>1. disk' = g /\ admin' = g /\ keys' \in [Ids -> Keys \cup {None}]
      BY <1>1, <1>5 DEF saved, AiTypes
    <2>2. \A i \in ids(g) : keys'[i] # None
      BY <1>1, <1>2, <1>3, <1>5 DEF AiTypes, EveryProviderHasItsKey
    <2>3. ~ excused => Follows(g, keys', slot, env)
      <3>1. admin.active_id # None => keys'[admin.active_id] = keys[admin.active_id]
        BY <1>3, <1>5 DEF AiTypes
      <3> QED  BY <1>1, <1>2, <1>3, <3>1, GoesOnFollowing DEF AiInv
    <2> QED  BY <1>1, <1>2, <1>5, <2>1, <2>2, <2>3 DEF AiInv, AiTypes, EveryProviderHasItsKey
  <1>6. CASE keys' = [keys EXCEPT ![id] = key] /\ killed(g)
    <2>1. keys' \in [Ids -> Keys \cup {None}]  BY <1>1, <1>6 DEF AiTypes
    <2>2. \A i \in ids(disk') : keys'[i] # None
      <3>1. ids(disk') \subseteq ids(admin) \cup {id}  BY <1>1, <1>2, <1>6 DEF killed
      <3> QED  BY <1>1, <1>3, <1>6, <3>1 DEF AiTypes, EveryProviderHasItsKey
    <2> QED  BY <1>1, <1>2, <1>6, <2>1, <2>2, KilledFacts
  <1>7. CASE /\ not_saved
             /\ keys' \in {[keys EXCEPT ![id] = None]}
                          \cup (IF may("delete") THEN {[keys EXCEPT ![id] = key]} ELSE {})
             /\ UNCHANGED <<slot, running>>
    <2>1. disk' = disk /\ admin' = admin  BY <1>7 DEF not_saved
    <2>2. /\ keys' \in [Ids -> Keys \cup {None}]
          /\ \A i \in Ids \ {id} : keys'[i] = keys[i]
      BY <1>1, <1>7 DEF AiTypes
    <2>3. EveryProviderHasItsKey'
      BY <1>1, <1>3, <2>1, <2>2 DEF EveryProviderHasItsKey
    <2>4. ~ excused => Follows(admin, keys', slot, env)
      BY <1>1, <1>3, <2>2, GoesOnFollowing DEF AiInv
    <2> QED  BY <1>1, <1>7, <2>1, <2>2, <2>3, <2>4 DEF AiInv, AiTypes
  <1> QED  BY <1>4, <1>5, <1>6, <1>7 DEF add, g

LEMMA UpdateHolds ==
    ASSUME NoneAssumption, AiInv, NEW id \in Ids, NEW model \in Models,
           NEW key \in Keys \cup {None}, update(id, model, key)
    PROVE  AiInv'
  <1> DEFINE entry == [kind |-> admin.providers[id].kind, model |-> model]
             g == put(admin, id, entry)
             written == IF key = None THEN keys ELSE [keys EXCEPT ![id] = key]
  <1>1. /\ running /\ admin = disk /\ id \in ids(admin) /\ AiTypes /\ EveryProviderHasItsKey
        /\ UNCHANGED env
    BY DEF update, AiInv
  <1>2. entry \in Entry
    BY <1>1, FileFacts DEF AiTypes, Entry
  <1>3. g \in Files /\ ids(g) = ids(admin)
    <2> HIDE DEF entry
    <2>1. admin \in Files  BY <1>1 DEF AiTypes
    <2>2. g \in Files /\ ids(g) = ids(admin) \cup {id}  BY <1>2, <2>1, PutFacts
    <2> QED  BY <1>1, <2>2
  <1>4. /\ written \in [Ids -> Keys \cup {None}]
        /\ \A i \in Ids : written[i] = keys[i] \/ (written[i] = key /\ key # None)
    <2>1. CASE key = None  BY <1>1, <2>1 DEF AiTypes
    <2>2. CASE key # None  BY <1>1, <2>2 DEF AiTypes
    <2> QED  BY <2>1, <2>2
  <1>5. \A i \in ids(admin) : written[i] # None
    BY <1>1, <1>4, FileFacts DEF EveryProviderHasItsKey, AiTypes
  <1>6. \/ UNCHANGED <<disk, tmp, admin, keys, slot, running, excused>>
        \/ /\ keys' = written
           /\ \/ saved(g) /\ resync_active_slot(g, written) /\ UNCHANGED running
              \/ killed(g) /\ UNCHANGED excused
        \/ /\ not_saved
           /\ keys' \in IF key = None THEN {keys} ELSE restored(id, key)
           /\ excused' = (excused \/ keys' # keys)
           /\ UNCHANGED <<slot, running>>
    BY DEF update
  <1> HIDE DEF entry, g, written
  <1>7. CASE UNCHANGED <<disk, tmp, admin, keys, slot, running, excused>>
    BY <1>1, <1>7 DEF AiInv, AiTypes, EveryProviderHasItsKey, Follows, built, from_env
  <1>8. CASE keys' = written /\ saved(g) /\ resync_active_slot(g, written) /\ UNCHANGED running
    <2>1. disk' = g /\ admin' = g  BY <1>8 DEF saved
    <2>2. excused' \in BOOLEAN /\ (~ excused' => Follows(g, keys', slot', env))
      BY <1>1, <1>8, ResyncFollows DEF AiTypes
    <2> QED
      BY <1>1, <1>3, <1>4, <1>5, <1>8, <2>1, <2>2 DEF AiInv, AiTypes, EveryProviderHasItsKey
  <1>9. CASE keys' = written /\ killed(g) /\ UNCHANGED excused
    <2>1. ids(disk') = ids(admin)  BY <1>1, <1>3, <1>9 DEF killed
    <2> QED  BY <1>3, <1>4, <1>5, <1>9, <2>1, KilledFacts
  <1>10. CASE /\ not_saved
              /\ keys' \in IF key = None THEN {keys} ELSE restored(id, key)
              /\ excused' = (excused \/ keys' # keys)
              /\ UNCHANGED <<slot, running>>
    <2>1. disk' = disk /\ admin' = admin  BY <1>10 DEF not_saved
    <2>2. /\ keys' \in [Ids -> Keys \cup {None}]
          /\ \A i \in Ids : keys'[i] = keys[i] \/ (keys'[i] = key /\ key # None)
      <3>1. \/ keys' = keys
            \/ key # None /\ keys' = [keys EXCEPT ![id] = key]
        BY <1>10 DEF restored
      <3>2. keys \in [Ids -> Keys \cup {None}]  BY <1>1 DEF AiTypes
      <3>3. CASE keys' = keys  BY <3>2, <3>3
      <3>4. CASE key # None /\ keys' = [keys EXCEPT ![id] = key]  BY <3>2, <3>4
      <3> QED  BY <3>1, <3>3, <3>4
    <2>3. EveryProviderHasItsKey'
      BY <1>1, <2>1, <2>2, FileFacts DEF EveryProviderHasItsKey, AiTypes
    <2>4. ~ excused' => Follows(admin, keys', slot, env)
      BY <1>1, <1>10 DEF AiInv
    <2> QED  BY <1>1, <1>10, <2>1, <2>2, <2>3, <2>4 DEF AiInv, AiTypes
  <1> QED  BY <1>6, <1>7, <1>8, <1>9, <1>10

LEMMA DeleteHolds ==
    ASSUME NoneAssumption, AiInv, NEW id \in Ids, delete(id)
    PROVE  AiInv'
  <1> DEFINE g == removed(admin, id)
  <1>1. /\ running /\ admin = disk /\ AiTypes /\ EveryProviderHasItsKey /\ UNCHANGED env
    BY DEF delete, AiInv
  <1>2. /\ g \in Files /\ ids(g) = ids(admin) \ {id} /\ g.active_id # id
        /\ g.active_id # None => g.active_id \in Ids
    <2>1. g \in Files /\ ids(g) = ids(admin) \ {id}
          /\ g.active_id = IF admin.active_id = id THEN None ELSE admin.active_id
      BY <1>1, RemovedFacts DEF AiTypes
    <2> QED  BY <2>1, FileFacts DEF NoneAssumption
  <1>3. \A k \in purged(id) : /\ k \in [Ids -> Keys \cup {None}]
                              /\ \A i \in Ids \ {id} : k[i] = keys[i]
    BY <1>1 DEF purged, AiTypes
  <1>4. \/ saved(g) /\ keys' \in purged(id) /\ resync_active_slot(g, keys) /\ UNCHANGED running
        \/ not_saved /\ UNCHANGED <<keys, slot, running, excused>>
        \/ /\ killed(g)
           /\ keys' \in IF disk' = disk THEN {keys} ELSE {keys, [keys EXCEPT ![id] = None]}
           /\ UNCHANGED excused
    BY DEF delete
  <1>5. ids(admin) \subseteq Ids  BY <1>1, FileFacts DEF AiTypes
  <1> HIDE DEF g
  <1>6. CASE saved(g) /\ keys' \in purged(id) /\ resync_active_slot(g, keys) /\ UNCHANGED running
    <2>1. disk' = g /\ admin' = g  BY <1>6 DEF saved
    <2>2. excused' \in BOOLEAN /\ (~ excused' => Follows(g, keys, slot', env))
      BY <1>1, <1>6, ResyncFollows DEF AiTypes
    <2>3. ~ excused' => Follows(g, keys', slot', env)
      BY <1>2, <1>3, <1>6, <2>2, GoesOnFollowing
    <2>4. \A i \in ids(g) : keys'[i] # None
      BY <1>1, <1>2, <1>3, <1>5, <1>6 DEF EveryProviderHasItsKey
    <2> QED
      BY <1>1, <1>2, <1>3, <1>6, <2>1, <2>2, <2>3, <2>4 DEF AiInv, AiTypes, EveryProviderHasItsKey
  <1>7. CASE not_saved /\ UNCHANGED <<keys, slot, running, excused>>
    BY <1>1, <1>7
    DEF not_saved, AiInv, AiTypes, EveryProviderHasItsKey, Follows, built, from_env
  <1>8. CASE /\ killed(g)
             /\ keys' \in IF disk' = disk THEN {keys} ELSE {keys, [keys EXCEPT ![id] = None]}
             /\ UNCHANGED excused
    <2>1. CASE keys' = keys
      <3>1. ids(disk') \subseteq ids(disk)  BY <1>1, <1>2, <1>8 DEF killed
      <3>2. \A i \in ids(disk') : keys'[i] # None
        BY <1>1, <2>1, <3>1 DEF EveryProviderHasItsKey
      <3>3. keys' \in [Ids -> Keys \cup {None}]  BY <1>1, <2>1 DEF AiTypes
      <3> QED  BY <1>2, <1>8, <3>2, <3>3, KilledFacts
    <2>2. CASE disk' # disk /\ keys' = [keys EXCEPT ![id] = None]
      <3>1. disk' = g  BY <1>8, <2>2 DEF killed
      <3>2. keys' \in [Ids -> Keys \cup {None}]  BY <1>1, <2>2 DEF AiTypes
      <3>3. \A i \in ids(disk') : keys'[i] # None
        BY <1>1, <1>2, <1>5, <2>2, <3>1 DEF AiTypes, EveryProviderHasItsKey
      <3> QED  BY <1>2, <1>8, <3>2, <3>3, KilledFacts
    <2> QED  BY <1>8, <2>1, <2>2
  <1> QED  BY <1>4, <1>6, <1>7, <1>8

LEMMA SetActiveHolds ==
    ASSUME NoneAssumption, AiInv, NEW id \in Ids, set_active(id)
    PROVE  AiInv'
  <1> DEFINE g == [admin EXCEPT !.active_id = id]
  <1>1. /\ running /\ admin = disk /\ id \in ids(admin) /\ AiTypes /\ EveryProviderHasItsKey
        /\ UNCHANGED <<keys, env>> /\ id # None
    BY DEF set_active, AiInv, NoneAssumption
  <1>2. g \in Files /\ g.active_id = id /\ g.providers = admin.providers
    BY <1>1, ActiveFacts DEF AiTypes
  <1>3. ids(g) = ids(admin)  BY <1>2 DEF ids
  <1>4. \/ UNCHANGED <<disk, tmp, admin, slot, running, excused>>
        \/ /\ slot' = built(admin, id, keys[id])
           /\ saved(g) /\ UNCHANGED <<running, excused>>
        \/ not_saved /\ excused' = TRUE /\ UNCHANGED running
        \/ killed(g) /\ UNCHANGED excused
    BY DEF set_active
  <1> HIDE DEF g
  <1>5. CASE UNCHANGED <<disk, tmp, admin, slot, running, excused>>
    BY <1>1, <1>5 DEF AiInv, AiTypes, EveryProviderHasItsKey, Follows, built, from_env
  <1>6. CASE slot' = built(admin, id, keys[id]) /\ saved(g) /\ UNCHANGED <<running, excused>>
    <2>1. disk' = g /\ admin' = g  BY <1>6 DEF saved
    <2>2. Follows(g, keys, slot', env)  BY <1>1, <1>2, <1>6 DEF Follows, built
    <2> QED
      BY <1>1, <1>2, <1>3, <1>6, <2>1, <2>2 DEF AiInv, AiTypes, EveryProviderHasItsKey
  <1>7. CASE not_saved /\ excused' = TRUE /\ UNCHANGED running
    BY <1>1, <1>7 DEF not_saved, AiInv, AiTypes, EveryProviderHasItsKey
  <1>8. CASE killed(g) /\ UNCHANGED excused
    <2>1. ids(disk') = ids(disk)  BY <1>1, <1>3, <1>8 DEF killed
    <2> QED  BY <1>1, <1>2, <1>8, <2>1, KilledFacts DEF AiTypes, EveryProviderHasItsKey
  <1> QED  BY <1>4, <1>5, <1>6, <1>7, <1>8

LEMMA ClearActiveHolds ==
    ASSUME NoneAssumption, AiInv, clear_active
    PROVE  AiInv'
  <1> DEFINE g == [admin EXCEPT !.active_id = None]
  <1>1. /\ running /\ admin = disk /\ AiTypes /\ EveryProviderHasItsKey /\ UNCHANGED <<keys, env>>
    BY DEF clear_active, AiInv
  <1>2. g \in Files /\ g.active_id = None /\ g.providers = admin.providers
    BY <1>1, ActiveFacts DEF AiTypes
  <1>3. ids(g) = ids(admin)  BY <1>2 DEF ids
  <1>4. \/ slot' = None /\ saved(g) /\ UNCHANGED <<running, excused>>
        \/ not_saved /\ excused' = TRUE /\ UNCHANGED running
        \/ killed(g) /\ UNCHANGED excused
    BY DEF clear_active
  <1> HIDE DEF g
  <1>5. CASE slot' = None /\ saved(g) /\ UNCHANGED <<running, excused>>
    <2>1. disk' = g /\ admin' = g  BY <1>5 DEF saved
    <2>2. Follows(g, keys, slot', env)  BY <1>2, <1>5 DEF Follows
    <2> QED
      BY <1>1, <1>2, <1>3, <1>5, <2>1, <2>2 DEF AiInv, AiTypes, EveryProviderHasItsKey
  <1>6. CASE not_saved /\ excused' = TRUE /\ UNCHANGED running
    BY <1>1, <1>6 DEF not_saved, AiInv, AiTypes, EveryProviderHasItsKey
  <1>7. CASE killed(g) /\ UNCHANGED excused
    <2>1. ids(disk') = ids(disk)  BY <1>1, <1>3, <1>7 DEF killed
    <2> QED  BY <1>1, <1>2, <1>7, <2>1, KilledFacts DEF AiTypes, EveryProviderHasItsKey
  <1> QED  BY <1>4, <1>5, <1>6, <1>7

\* What resolve_initial_provider starts with follows the file, unless it is none
\* while one is active.
LEMMA InitialFollows ==
    ASSUME NEW f, NEW k, NEW e, NEW s \in initial(f, k, e), ~ (s = None /\ f.active_id # None)
    PROVE  Follows(f, k, s, e)
  BY DEF initial, Follows

LEMMA AiInitHolds == AiInit => AiInv
  <1> HAVE AiInit
  <1>1. AiTypes  BY FileFacts DEF AiInit, AiTypes
  <1>2. Follows(admin, keys, slot, env)
    BY FileFacts, InitialFollows DEF AiInit
  <1>3. EveryProviderHasItsKey  BY FileFacts DEF AiInit, EveryProviderHasItsKey
  <1> QED  BY <1>1, <1>2, <1>3 DEF AiInv, AiInit

LEMMA AiStepHolds ==
    ASSUME NoneAssumption
    PROVE  AiInv /\ [AiNext]_AiVars => AiInv'
  <1> SUFFICES ASSUME AiInv, [AiNext]_AiVars
               PROVE  AiInv'
    OBVIOUS
  <1>1. CASE UNCHANGED <<disk, keys, admin, slot, running, env, excused>>
    BY <1>1 DEF AiInv, AiTypes, EveryProviderHasItsKey, Follows, built, from_env
  <1>2. CASE launch
    <2>1. /\ admin' = disk /\ disk' = disk /\ keys' = keys
          /\ slot' \in initial(disk, keys, env')
          /\ excused' = (slot' = None /\ disk.active_id # None)
          /\ running' = TRUE
      BY <1>2 DEF launch
    <2>2. ~ excused' => Follows(disk, keys, slot', env')
      BY <2>1, InitialFollows
    <2> QED  BY <2>1, <2>2 DEF AiInv, AiTypes, EveryProviderHasItsKey
  <1>3. CASE clean
    BY <1>1, <1>3 DEF clean
  <1>4. CASE clear_active
    BY <1>4, ClearActiveHolds
  <1>5. ASSUME NEW id \in Ids, NEW entry \in Entry, NEW key \in Keys, add(id, entry, key)
        PROVE  AiInv'
    BY <1>5, AddHolds
  <1>6. ASSUME NEW id \in Ids, NEW model \in Models, NEW key \in Keys \cup {None},
               update(id, model, key)
        PROVE  AiInv'
    BY <1>6, UpdateHolds
  <1>7. ASSUME NEW id \in Ids, delete(id) \/ set_active(id)
        PROVE  AiInv'
    BY <1>7, DeleteHolds, SetActiveHolds
  <1> QED
    BY <1>1, <1>2, <1>3, <1>4, <1>5, <1>6, <1>7 DEF AiNext, AiVars, Entry

\* Every provider in the file has its key, whichever step of a command failed
\* and wherever the program was killed (ai_settings.rs, add and delete).
THEOREM ProvidersHaveTheirKeys ==
    ASSUME NoneAssumption
    PROVE  AiSpec => []EveryProviderHasItsKey
  <1>1. AiInv => EveryProviderHasItsKey  BY DEF AiInv
  <1> QED  BY <1>1, AiInitHolds, AiStepHolds, PTL DEF AiSpec

\* The assistant talks to the active provider with the key and the model it has
\* now, unless a failure was only logged (ai/providers.rs,
\* resync_active_slot and set_active_ai_provider).
THEOREM AssistantFollowsSettings ==
    ASSUME NoneAssumption
    PROVE  AiSpec => []SlotFollowsActive
  <1>1. AiInv => SlotFollowsActive  BY DEF AiInv, SlotFollowsActive, Follows
  <1> QED  BY <1>1, AiInitHolds, AiStepHolds, PTL DEF AiSpec

---------------------------------------------------------------------------
(***************************************************************************)
(* AgentFiles: for any number of exporters and of names.                   *)
(***************************************************************************)
NamesAssumption == MaxNameAttempts \in Nat \ {0}

Places == {"seal", "reserve", "store", "write", "sync", "done", "ended"}

\* From the reservation of a name to the end of the export.
holds(a) == exporter[a].at \in {"store", "write", "sync"}

Bundles == [sealed : Exporters \cup {Nobody}, whole : BOOLEAN, there : BOOLEAN]

FileTypes ==
    /\ exporter \in [Exporters -> [at : Places, name : Names]]
    /\ bundles \in [Names -> Bundles]
    /\ slots \in [Names -> Exporters \cup {Nobody}]

\* A name is held by one exporter, and its file is there and not whole yet.
OneHolder ==
    /\ \A a \in Exporters : holds(a) => /\ bundles[exporter[a].name].there
                                        /\ ~bundles[exporter[a].name].whole
    /\ \A a, b \in Exporters :
          holds(a) /\ holds(b) /\ exporter[a].name = exporter[b].name => a = b

\* Once the passphrase is stored, the slot holds it; once the ciphertext is
\* written, it is the one that passphrase opens.
StoredFirst ==
    \A a \in Exporters :
       /\ exporter[a].at \in {"write", "sync"} => slots[exporter[a].name] = a
       /\ exporter[a].at = "sync" => bundles[exporter[a].name].sealed = a

BundleInv == FileTypes /\ OneHolder /\ StoredFirst /\ BundleOpens

LEMMA StepsInOrder ==
    /\ then("seal") = "reserve" /\ then("reserve") = "store"
    /\ then("store") = "write" /\ then("write") = "sync" /\ then("sync") = "done"
  <1> DEFINE place(step) == CHOOSE i \in 1 .. 6 : order_of_operations[i] = step
  <1>1. /\ Len(order_of_operations) = 6
        /\ order_of_operations[1] = "seal" /\ order_of_operations[2] = "reserve"
        /\ order_of_operations[3] = "store" /\ order_of_operations[4] = "write"
        /\ order_of_operations[5] = "sync" /\ order_of_operations[6] = "done"
    BY DEF order_of_operations
  <1>2. \A i \in 1 .. 6 : i = 1 \/ i = 2 \/ i = 3 \/ i = 4 \/ i = 5 \/ i = 6
    OBVIOUS
  <1>3. /\ place("seal") = 1 /\ place("reserve") = 2 /\ place("store") = 3
        /\ place("write") = 4 /\ place("sync") = 5
    BY <1>1, <1>2
  <1>4. \A step : then(step) = order_of_operations[1 + place(step)]
    BY <1>1 DEF then
  <1> QED  BY <1>1, <1>3, <1>4

LEMMA BundleTypes ==
    /\ Nothing \in Bundles /\ ~Nothing.whole
    /\ Empty \in Bundles /\ Empty.there /\ ~Empty.whole
  BY DEF Nothing, Empty, Bundles

LEMMA BundleInitHolds ==
    ASSUME NamesAssumption
    PROVE  FileInit => BundleInv
  <1> HAVE FileInit
  <1>1. 1 \in Names  BY DEF NamesAssumption, Names
  <1>2. \A n \in Names : bundles[n] = Nothing  BY DEF FileInit
  <1>3. FileTypes
    BY <1>1, BundleTypes DEF FileInit, FileTypes, Places
  <1>4. \A a \in Exporters : exporter[a].at = "seal"  BY DEF FileInit
  <1> QED
    BY <1>2, <1>3, <1>4 DEF BundleInv, OneHolder, StoredFirst, BundleOpens, holds, Nothing

\* What an exporter that moves on leaves alone.
LEMMA OneMoves ==
    ASSUME FileTypes, NEW a \in Exporters, NEW step \in Places,
           exporter' = [exporter EXCEPT ![a].at = step]
    PROVE  /\ exporter' \in [Exporters -> [at : Places, name : Names]]
           /\ exporter'[a].at = step /\ exporter'[a].name = exporter[a].name
           /\ \A b \in Exporters \ {a} : exporter'[b] = exporter[b]
  BY DEF FileTypes

\* An exporter that stops holds nothing any more; the file it removes, or
\* leaves, was not whole.
LEMMA EndingIsHarmless ==
    ASSUME BundleInv, NEW a \in Exporters, ends(a), UNCHANGED slots,
           \/ UNCHANGED bundles
           \/ holds(a) /\ bundles' = [bundles EXCEPT ![exporter[a].name] = Nothing]
    PROVE  BundleInv'
  <1> USE DEF BundleInv
  <1>1. /\ exporter' \in [Exporters -> [at : Places, name : Names]]
        /\ ~holds(a)' /\ exporter'[a].at = "ended"
        /\ \A b \in Exporters \ {a} : exporter'[b] = exporter[b]
    BY OneMoves, "ended" \in Places DEF ends, Places, holds
  <1>2. ASSUME NEW b \in Exporters, holds(b)'
        PROVE  /\ b # a /\ holds(b) /\ exporter'[b] = exporter[b]
               /\ bundles'[exporter[b].name] = bundles[exporter[b].name]
    <2>1. b # a  BY <1>1, <1>2
    <2>2. holds(b) /\ exporter'[b] = exporter[b]  BY <1>1, <1>2, <2>1 DEF holds
    <2>3. exporter[b].name \in Names  BY DEF FileTypes
    <2> QED  BY <2>1, <2>2, <2>3 DEF OneHolder, FileTypes
  <1>3. \A n \in Names : bundles'[n] \in {bundles[n], Nothing}
    BY DEF FileTypes
  <1>4. FileTypes'
    <2>1. Nothing \in Bundles
      BY BundleTypes
    <2>2. bundles' \in [Names -> Bundles]
      BY <2>1 DEF FileTypes
    <2> QED  BY <1>1, <2>2 DEF FileTypes
  <1>5. OneHolder'
    BY <1>2 DEF OneHolder
  <1>6. StoredFirst'
    BY <1>1, <1>2 DEF StoredFirst, holds
  <1>7. BundleOpens'
    BY <1>3 DEF BundleOpens, Nothing
  <1> QED  BY <1>4, <1>5, <1>6, <1>7

LEMMA BundleStepHolds ==
    ASSUME NamesAssumption
    PROVE  BundleInv /\ [FileNext]_FileVars => BundleInv'
  <1> SUFFICES ASSUME BundleInv, [FileNext]_FileVars
               PROVE  BundleInv'
    OBVIOUS
  <1> USE DEF BundleInv
  <1>1. CASE UNCHANGED <<bundles, slots, exporter>>
    BY <1>1 DEF FileTypes, OneHolder, StoredFirst, BundleOpens, holds
  <1>2. ASSUME NEW a \in Exporters, export_named(a)
        PROVE  BundleInv'
    <2> DEFINE name == exporter[a].name
    <2>0. name \in Names /\ \A b \in Exporters : exporter[b].name \in Names
      BY DEF FileTypes
    <2>e. ends(a) /\ UNCHANGED <<bundles, slots>> => BundleInv'
      BY EndingIsHarmless
    <2>g. holds(a) /\ gives_up(a) /\ UNCHANGED slots => BundleInv'
      BY EndingIsHarmless DEF gives_up
    <2>1. CASE seal(a)
      <3>1. CASE goes_on(a, "seal")
        <4>1. /\ exporter' \in [Exporters -> [at : Places, name : Names]]
              /\ exporter'[a].at = "reserve"
              /\ \A b \in Exporters \ {a} : exporter'[b] = exporter[b]
          BY <3>1, OneMoves, StepsInOrder, "reserve" \in Places DEF goes_on, Places
        <4>2. UNCHANGED <<bundles, slots>>  BY <2>1 DEF seal
        <4>3. FileTypes'  BY <4>1, <4>2 DEF FileTypes
        <4>4. \A b \in Exporters : holds(b)' => holds(b) /\ exporter'[b] = exporter[b]
          BY <4>1 DEF holds
        <4>5. OneHolder'  BY <4>2, <4>4 DEF OneHolder
        <4>6. StoredFirst'  BY <4>1, <4>2, <4>4 DEF StoredFirst, holds
        <4>7. BundleOpens'  BY <4>2 DEF BundleOpens
        <4> QED  BY <4>3, <4>5, <4>6, <4>7
      <3> QED  BY <2>1, <2>e, <3>1 DEF seal
    <2>2. CASE reserve(a)
      <3>1. CASE create_new(name)
        <4>1. /\ exporter' \in [Exporters -> [at : Places, name : Names]]
              /\ exporter'[a].at = "store" /\ exporter'[a].name = name
              /\ \A b \in Exporters \ {a} : exporter'[b] = exporter[b]
          BY <2>2, <3>1, OneMoves, StepsInOrder, "store" \in Places DEF reserve, goes_on, Places
        <4>2. bundles' = [bundles EXCEPT ![name] = Empty] /\ UNCHANGED slots
          BY <2>2, <3>1 DEF reserve
        <4>3. Empty \in Bundles /\ Empty.there /\ ~Empty.whole
          BY BundleTypes
        <4>4. FileTypes'
          <5>1. bundles' \in [Names -> Bundles]
            BY <4>2, <4>3 DEF FileTypes
          <5> QED  BY <4>1, <4>2, <5>1 DEF FileTypes
        <4>5. /\ bundles'[name] = Empty
              /\ \A n \in Names \ {name} : bundles'[n] = bundles[n]
          BY <2>0, <4>2 DEF FileTypes
        \* Whoever holds a name holds another one: the file of this was not there.
        <4>6. \A b \in Exporters \ {a} : holds(b)' =>
                 holds(b) /\ exporter'[b] = exporter[b] /\ exporter[b].name # name
          BY <3>1, <4>1 DEF holds, OneHolder, create_new
        <4>7. OneHolder'
          <5>1. \A b \in Exporters : holds(b)' => /\ bundles'[exporter'[b].name].there
                                                  /\ ~bundles'[exporter'[b].name].whole
            BY <2>0, <4>1, <4>3, <4>5, <4>6 DEF OneHolder
          <5>2. \A b, c \in Exporters :
                   holds(b)' /\ holds(c)' /\ exporter'[b].name = exporter'[c].name => b = c
            BY <4>1, <4>6 DEF OneHolder
          <5> QED  BY <5>1, <5>2 DEF OneHolder
        <4>8. StoredFirst'
          BY <2>0, <4>1, <4>2, <4>5, <4>6 DEF StoredFirst, holds
        <4>9. BundleOpens'
          BY <4>2, <4>3, <4>5 DEF BundleOpens
        <4> QED  BY <4>4, <4>7, <4>8, <4>9
      <3>2. CASE ~create_new(name) /\ name = MaxNameAttempts
        BY <2>2, <2>e, <3>2 DEF reserve
      <3>3. CASE ~create_new(name) /\ name # MaxNameAttempts
        <4>1. /\ exporter' = [exporter EXCEPT ![a].name = @ + 1]
              /\ UNCHANGED <<bundles, slots>>
          BY <2>2, <3>3 DEF reserve
        <4>2. name + 1 \in Names
          BY <2>0, <3>3 DEF Names, NamesAssumption
        <4>3. /\ exporter' \in [Exporters -> [at : Places, name : Names]]
              /\ exporter'[a].at = "reserve"
              /\ \A b \in Exporters \ {a} : exporter'[b] = exporter[b]
          BY <2>2, <4>1, <4>2 DEF FileTypes, reserve, at
        <4>4. FileTypes'  BY <4>1, <4>3 DEF FileTypes
        <4>5. \A b \in Exporters : holds(b)' => holds(b) /\ exporter'[b] = exporter[b]
          BY <4>3 DEF holds
        <4>6. OneHolder'  BY <4>1, <4>5 DEF OneHolder
        <4>7. StoredFirst'  BY <4>1, <4>3, <4>5 DEF StoredFirst, holds
        <4>8. BundleOpens'  BY <4>1 DEF BundleOpens
        <4> QED  BY <4>4, <4>6, <4>7, <4>8
      <3> QED  BY <3>1, <3>2, <3>3
    \* The rest is done under a name that is held: nobody else holds it.
    <2>h. ASSUME holds(a), NEW step \in Places, exporter' = [exporter EXCEPT ![a].at = step],
                 FileTypes',
                 \A n \in Names \ {name} : bundles'[n] = bundles[n] /\ slots'[n] = slots[n],
                 holds(a)' => bundles'[name].there /\ ~bundles'[name].whole,
                 step \in {"write", "sync"} => slots'[name] = a,
                 step = "sync" => bundles'[name].sealed = a,
                 bundles'[name].whole => slots'[name] = bundles'[name].sealed
          PROVE  BundleInv'
      <3>1. /\ exporter'[a].at = step /\ exporter'[a].name = name
            /\ \A b \in Exporters \ {a} : exporter'[b] = exporter[b]
        BY <2>h, OneMoves
      <3>2. \A b \in Exporters \ {a} : holds(b)' =>
               holds(b) /\ exporter'[b] = exporter[b] /\ exporter[b].name # name
        BY <2>h, <3>1 DEF holds, OneHolder
      <3>3. OneHolder'
        <4>1. \A b \in Exporters : holds(b)' => /\ bundles'[exporter'[b].name].there
                                                /\ ~bundles'[exporter'[b].name].whole
          BY <2>0, <2>h, <3>1, <3>2 DEF OneHolder
        <4>2. \A b, c \in Exporters :
                 holds(b)' /\ holds(c)' /\ exporter'[b].name = exporter'[c].name => b = c
          BY <3>1, <3>2 DEF OneHolder
        <4> QED  BY <4>1, <4>2 DEF OneHolder
      <3>4. StoredFirst'
        BY <2>0, <2>h, <3>1, <3>2 DEF StoredFirst, holds
      <3>5. BundleOpens'
        BY <2>0, <2>h DEF BundleOpens
      <3> QED  BY <2>h, <3>3, <3>4, <3>5
    <2>3. CASE store(a)
      <3>0. holds(a)  BY <2>3 DEF store, at, holds
      <3>1. CASE /\ slots' = [slots EXCEPT ![name] = a] /\ UNCHANGED bundles
                 /\ goes_on(a, "store")
        <4>1. exporter' = [exporter EXCEPT ![a].at = "write"] /\ "write" \in Places
          BY <3>1, StepsInOrder DEF goes_on, Places
        <4>2. FileTypes'
          <5>1. slots' \in [Names -> Exporters \cup {Nobody}]  BY <3>1 DEF FileTypes
          <5> QED  BY <3>1, <4>1, <5>1, OneMoves DEF FileTypes
        <4>3. /\ \A n \in Names \ {name} : bundles'[n] = bundles[n] /\ slots'[n] = slots[n]
              /\ bundles'[name].there /\ ~bundles'[name].whole /\ slots'[name] = a
          BY <2>0, <3>0, <3>1 DEF FileTypes, OneHolder
        <4> QED  BY <2>h, <3>0, <4>1, <4>2, <4>3
      <3> QED  BY <2>3, <2>g, <3>0, <3>1 DEF store
    <2>4. CASE write(a)
      <3>0. holds(a) /\ slots[name] = a /\ UNCHANGED slots
        BY <2>4 DEF write, at, holds, StoredFirst
      <3>1. CASE /\ bundles' = [bundles EXCEPT ![name] = [Empty EXCEPT !.sealed = a]]
                 /\ goes_on(a, "write")
        <4>1. exporter' = [exporter EXCEPT ![a].at = "sync"] /\ "sync" \in Places
          BY <3>1, StepsInOrder DEF goes_on, Places
        <4>2. LET b == [Empty EXCEPT !.sealed = a]
              IN  b \in Bundles /\ b.there /\ ~b.whole /\ b.sealed = a
          BY BundleTypes DEF Bundles
        <4>3. FileTypes'
          <5>1. bundles' \in [Names -> Bundles]
            BY <3>1, <4>2 DEF FileTypes
          <5> QED  BY <3>0, <4>1, <5>1, OneMoves DEF FileTypes
        <4>4. /\ \A n \in Names \ {name} : bundles'[n] = bundles[n] /\ slots'[n] = slots[n]
              /\ bundles'[name].there /\ ~bundles'[name].whole /\ bundles'[name].sealed = a
              /\ slots'[name] = a
          BY <2>0, <3>0, <3>1, <4>2 DEF FileTypes
        <4> QED  BY <2>h, <3>0, <4>1, <4>3, <4>4
      <3> QED  BY <2>4, <2>g, <3>0, <3>1 DEF write
    <2>5. CASE sync(a)
      <3>0. holds(a) /\ slots[name] = a /\ bundles[name].sealed = a /\ UNCHANGED slots
        BY <2>5 DEF sync, at, holds, StoredFirst
      <3>1. CASE bundles' = [bundles EXCEPT ![name].whole = TRUE] /\ goes_on(a, "sync")
        <4>1. exporter' = [exporter EXCEPT ![a].at = "done"] /\ "done" \in Places
          BY <3>1, StepsInOrder DEF goes_on, Places
        <4>2. FileTypes'
          <5>1. bundles' \in [Names -> Bundles]
            <6>1. bundles[name] \in Bundles  BY <2>0 DEF FileTypes
            <6>2. [bundles[name] EXCEPT !.whole = TRUE] \in Bundles  BY <6>1 DEF Bundles
            <6> QED  BY <3>1, <6>2 DEF FileTypes
          <5> QED  BY <3>0, <4>1, <5>1, OneMoves DEF FileTypes
        <4>3. /\ \A n \in Names \ {name} : bundles'[n] = bundles[n] /\ slots'[n] = slots[n]
              /\ bundles'[name].sealed = a /\ slots'[name] = a
          BY <2>0, <3>0, <3>1 DEF FileTypes
        <4>4. ~holds(a)'
          BY <4>1, OneMoves DEF holds
        <4> QED  BY <2>h, <3>0, <4>1, <4>2, <4>3, <4>4
      <3> QED  BY <2>5, <2>g, <3>0, <3>1 DEF sync
    <2>6. CASE dies(a)
      BY <2>6, <2>e DEF dies
    <2> QED
      BY <1>2, <2>1, <2>2, <2>3, <2>4, <2>5, <2>6 DEF export_named
  <1>3. CASE capture_window
    BY <1>1, <1>3 DEF capture_window
  <1> QED
    BY <1>1, <1>2, <1>3 DEF FileNext, FileVars

\* A sealed bundle in the directory can be opened, whichever exporters met in
\* one second and wherever each of them failed or died (export.rs,
\* export_named).
THEOREM BundlesOpen ==
    ASSUME NamesAssumption
    PROVE  FileSpec => []BundleOpens
  <1>1. BundleInv => BundleOpens  BY DEF BundleInv
  <1> QED  BY <1>1, BundleInitHolds, BundleStepHolds, PTL DEF FileSpec

---------------------------------------------------------------------------
(***************************************************************************)
(* A picture is of a window of the app, and of its shape, for any edges.   *)
(***************************************************************************)
EdgesAssumption == Edges \subseteq Nat \ {0} /\ MaxEdges \subseteq Nat

LEMMA Product == ASSUME NEW a \in Nat, NEW b \in Nat, NEW c \in Nat, b <= c PROVE a * b \in Nat /\ a * c \in Nat /\ a * b <= a * c
  OBVIOUS
LEMMA Quotient == ASSUME NEW n \in Nat, NEW d \in Nat \ {0}
  PROVE  /\ n \div d \in Nat /\ d * (n \div d) \in Nat /\ d * (n \div d) <= n
         /\ n < d * (n \div d) + d
  OBVIOUS
LEMMA Scaled == 
    ASSUME NEW v \in Nat, NEW long \in Nat, NEW m \in Nat, 1 <= v, v <= long, 1 <= m, m < long
    PROVE  LET s == scaled(v, long, m)
           IN  /\ s \in Nat /\ 1 <= s /\ s <= v /\ s <= m
               /\ 2 * s * long <= 2 * v * m + long \/ s = 1
  <1> DEFINE h == long \div 2
             r == (v * m + h) \div long
  <1>1. h \in Nat /\ 2 * h <= long /\ h < long  OBVIOUS
  <1>2. v * m \in Nat /\ v * m <= v * long /\ v * m <= m * long
    BY Product
  <1>3. v * m + h \in Nat  BY <1>1, <1>2
  <1> HIDE DEF h
  <1>4. /\ r \in Nat /\ long * r \in Nat /\ long * r <= v * m + h
    BY <1>3, Quotient
  <1> HIDE DEF r
  <1>5. long * r < long * (v + 1) /\ long * r < long * (m + 1)
    BY <1>1, <1>2, <1>4
  <1>6. r <= v /\ r <= m
    <2>1. ASSUME NEW n \in Nat, long * r < long * (n + 1) PROVE r <= n
      <3>1. r >= n + 1 => long * (n + 1) <= long * r
        BY <1>4, Product, n + 1 \in Nat
      <3> QED BY <3>1, <1>4, <2>1
    <2> QED BY <1>5, <2>1
  <1>7. 2 * r * long <= 2 * v * m + long
    BY <1>1, <1>2, <1>4
  <1>8. scaled(v, long, m) = IF r < 1 THEN 1 ELSE r
    BY DEF scaled, r, h
  <1> QED BY <1>4, <1>6, <1>7, <1>8

LEMMA WindowTypes ==
    ASSUME EdgesAssumption, NEW w \in Windows
    PROVE  w.width \in Nat /\ 1 <= w.width /\ w.height \in Nat /\ 1 <= w.height
  <1>1. w.width \in Edges /\ w.height \in Edges  BY DEF Windows
  <1>2. \A e \in Edges : e \in Nat /\ e # 0  BY DEF EdgesAssumption
  <1>3. w.width \in Nat /\ w.width # 0 /\ w.height \in Nat /\ w.height # 0
    BY <1>1, <1>2
  <1> QED  BY <1>3

LEMMA Scales ==
    ASSUME EdgesAssumption, NEW w \in Windows, NEW m \in MaxEdges
    PROVE  LET size == scale_to_fit(w, m)
           IN  /\ size.width \in Nat /\ 1 <= size.width /\ size.width <= w.width
               /\ size.height \in Nat /\ 1 <= size.height /\ size.height <= w.height
               /\ m # 0 => longest(size) <= m
               /\ m # 0 /\ longest(w) > m =>
                     /\ 2 * size.width * longest(w) <= 2 * w.width * m + longest(w)
                        \/ size.width = 1
                     /\ 2 * size.height * longest(w) <= 2 * w.height * m + longest(w)
                        \/ size.height = 1
  <1>1. /\ w.width \in Nat /\ 1 <= w.width /\ w.height \in Nat /\ 1 <= w.height /\ m \in Nat
    BY WindowTypes DEF EdgesAssumption
  <1>2. longest(w) \in Nat /\ w.width <= longest(w) /\ w.height <= longest(w)
    BY <1>1 DEF longest
  <1>3. CASE m = 0 \/ longest(w) <= m
    <2>1. scale_to_fit(w, m) = [width |-> w.width, height |-> w.height]
      BY <1>3 DEF scale_to_fit
    <2> QED  BY <1>1, <1>2, <1>3, <2>1 DEF longest
  <1>4. CASE m # 0 /\ longest(w) > m
    <2> DEFINE x == scaled(w.width, longest(w), m)
               y == scaled(w.height, longest(w), m)
    <2>1. scale_to_fit(w, m) = [width |-> x, height |-> y]
      BY <1>1, <1>2, <1>4 DEF scale_to_fit
    <2>2. 1 <= m /\ m < longest(w)  BY <1>1, <1>2, <1>4
    <2>3. /\ x \in Nat /\ 1 <= x /\ x <= w.width /\ x <= m
          /\ 2 * x * longest(w) <= 2 * w.width * m + longest(w) \/ x = 1
      BY <1>1, <1>2, <2>2, Scaled
    <2>4. /\ y \in Nat /\ 1 <= y /\ y <= w.height /\ y <= m
          /\ 2 * y * longest(w) <= 2 * w.height * m + longest(w) \/ y = 1
      BY <1>1, <1>2, <2>2, Scaled
    <2> HIDE DEF x, y
    <2>5. longest([width |-> x, height |-> y]) <= m  BY <2>3, <2>4 DEF longest
    <2> QED  BY <2>1, <2>3, <2>4, <2>5
  <1> QED  BY <1>1, <1>2, <1>3, <1>4

\* One of two windows that can be seen is the largest.
LEMMA SomeLargest ==
    ASSUME EdgesAssumption, NEW w \in Windows, NEW other \in Windows,
           visible({w, other}) # {}
    PROVE  select_window({w, other}) # {}
  <1> DEFINE seen == visible({w, other})
  <1>1. seen \subseteq {w, other}  BY DEF visible, candidates
  <1>2. area(w) \in Nat /\ area(other) \in Nat
    <2>1. \A v \in Windows : v.width \in Nat /\ v.height \in Nat
      BY WindowTypes
    <2>2. \A v \in Windows : area(v) \in Nat
      BY <2>1, Product DEF area
    <2> QED  BY <2>2
  <1>3. PICK largest \in seen : \A o \in seen : area(o) <= area(largest)
    <2> HIDE DEF seen
    <2>1. seen # {}  BY DEF seen
    <2>2. CASE w \in seen /\ other \in seen
      BY <1>1, <1>2, <2>2
    <2>3. CASE w \notin seen \/ other \notin seen
      BY <1>1, <1>2, <2>1, <2>3
    <2> QED  BY <2>2, <2>3
  <1> QED  BY <1>3 DEF select_window

LEMMA CaptureHolds ==
    ASSUME EdgesAssumption, capture_window
    PROVE  PictureIsOfTheApp'
  <1>1. PICK w \in Windows, other \in Windows, max_edge \in MaxEdges :
           LET windows == {w, other}
               taken == [NoShot EXCEPT !.on_screen = windows, !.max_edge = max_edge]
           IN  IF candidates(windows) = {}
               THEN shot' = [taken EXCEPT !.error = "absent"]
               ELSE IF select_window(windows) = {}
               THEN shot' = [taken EXCEPT !.error = "minimised"]
               ELSE \E chosen \in select_window(windows) :
                      shot' = [taken EXCEPT !.of = {chosen}, !.size = scale_to_fit(chosen, max_edge)]
    BY DEF capture_window
  <1> DEFINE windows == {w, other}
             taken == [NoShot EXCEPT !.on_screen = windows, !.max_edge = max_edge]
  <1>2. CASE candidates(windows) = {} \/ select_window(windows) = {}
    <2>1. shot'.of = {} /\ shot'.on_screen = windows
      BY <1>1, <1>2 DEF NoShot
    <2>2. visible(windows) = {}
      BY <1>2, SomeLargest DEF visible
    <2> QED  BY <2>1, <2>2 DEF PictureIsOfTheApp
  <1>3. CASE candidates(windows) # {} /\ select_window(windows) # {}
    <2>1. PICK chosen \in select_window(windows) :
             shot' = [taken EXCEPT !.of = {chosen}, !.size = scale_to_fit(chosen, max_edge)]
      BY <1>1, <1>3
    <2>2. chosen \in visible(windows) /\ chosen \in Windows
      BY <2>1 DEF select_window, visible, candidates
    <2>3. /\ shot'.of = {chosen} /\ shot'.on_screen = windows
          /\ shot'.max_edge = max_edge /\ shot'.size = scale_to_fit(chosen, max_edge)
      BY <2>1 DEF NoShot
    <2>4. (CHOOSE v \in shot'.of : TRUE) = chosen  BY <2>3
    <2> QED  BY <2>2, <2>3, <2>4, Scales DEF PictureIsOfTheApp
  <1> QED  BY <1>2, <1>3

\* Whatever windows were on screen and whatever size was asked for, the
\* picture is of a window of the app that can be seen whenever there is one,
\* its edges are there and within what was asked for, and its shape is the
\* window's to half a pixel (capture.rs, select_window and scale_to_fit).
THEOREM PicturesAreOfTheApp ==
    ASSUME EdgesAssumption
    PROVE  FileSpec => []PictureIsOfTheApp
  <1>1. FileInit => PictureIsOfTheApp
    BY DEF FileInit, PictureIsOfTheApp
  <1>2. ASSUME PictureIsOfTheApp, [FileNext]_FileVars
        PROVE  PictureIsOfTheApp'
    <2>1. CASE UNCHANGED shot
      BY <1>2, <2>1 DEF PictureIsOfTheApp
    <2>2. CASE capture_window
      BY <2>2, CaptureHolds
    <2>3. ASSUME NEW a \in Exporters, export_named(a)
          PROVE  UNCHANGED shot
      BY <2>3 DEF export_named, seal, reserve, store, write, sync, dies
    <2> QED  BY <1>2, <2>1, <2>2, <2>3 DEF FileNext, FileVars
  <1> QED  BY <1>1, <1>2, PTL DEF FileSpec

---------------------------------------------------------------------------
(***************************************************************************)
(* The token of the live pool is current, for every lifetime, every bound  *)
(* on how long opening a pool takes, and any number of callers.            *)
(***************************************************************************)
interval == refresh_interval(expires_secs)

Steps == {"asleep", "building", "ended"}
Loops == [at : Steps, for : 0 .. interval, minted : 0 .. MaxBuild]

Types ==
    /\ age \in Nat /\ missed \in BOOLEAN /\ held \in BOOLEAN
    /\ loop \in Loops

\* What is left of the sleep makes up for the age of the token; a build adds
\* its own time; and only an adapter that is gone ends the task.
OnSchedule ==
    /\ ~missed /\ loop.at = "asleep" => age + loop.for <= interval + MaxBuild
    /\ ~missed /\ loop.at = "building" => age <= interval + MaxBuild + loop.minted
    /\ held => loop.at # "ended"

RefreshInv == Types /\ OnSchedule

\* The interval leaves room for two builds before the token expires.
LEMMA IntervalLeavesRoom ==
    ASSUME ExpiresAssumption
    PROVE  interval \in Nat /\ interval + 2 * MaxBuild < expires_secs
  <1> DEFINE third == (expires_secs * 2) \div 3
  <1>1. third \in Nat /\ 3 * third <= 2 * expires_secs /\ third >= 1
    BY DEF ExpiresAssumption
  <1>2. interval = third
    BY <1>1 DEF interval, refresh_interval, larger
  <1> QED  BY <1>1, <1>2 DEF ExpiresAssumption

LEMMA RefreshInitHolds ==
    ASSUME ExpiresAssumption
    PROVE  RefreshInit => RefreshInv
  <1> HAVE RefreshInit
  <1>1. Asleep = [at |-> "asleep", for |-> interval, minted |-> 0]
    BY DEF Asleep, interval
  <1>2. interval \in Nat /\ MaxBuild \in Nat
    BY IntervalLeavesRoom DEF ExpiresAssumption
  <1>3. Asleep \in Loops
    BY <1>1, <1>2 DEF Loops, Steps
  <1> QED
    <2>1. age \in Nat /\ age <= MaxBuild
      BY <1>2 DEF RefreshInit
    <2>2. Types
      BY <1>3, <2>1 DEF RefreshInit, Types
    <2>3. /\ loop.at = "asleep" /\ loop.for = interval
          /\ age + loop.for <= interval + MaxBuild
      BY <1>1, <1>2, <2>1 DEF RefreshInit
    <2> QED  BY <2>2, <2>3 DEF RefreshInv, OnSchedule

LEMMA RefreshStepHolds ==
    ASSUME ExpiresAssumption
    PROVE  RefreshInv /\ [RefreshNext]_RefreshVars => RefreshInv'
  <1> SUFFICES ASSUME RefreshInv, [RefreshNext]_RefreshVars
               PROVE  RefreshInv'
    OBVIOUS
  <1> USE DEF RefreshInv, Types, OnSchedule, Loops, Steps
  <1>0. /\ interval \in Nat /\ MaxBuild \in Nat /\ expires_secs \in Nat
        /\ Asleep = [at |-> "asleep", for |-> interval, minted |-> 0]
    BY IntervalLeavesRoom DEF ExpiresAssumption, Asleep, interval
  <1>1. CASE time_passes
    <2>1. age' \in Nat /\ age' <= age + 1
      BY <1>0, <1>1 DEF time_passes, smaller
    <2>2. CASE loop.at = "asleep"
      BY <1>0, <1>1, <2>1, <2>2 DEF time_passes
    <2>3. CASE loop.at = "building"
      BY <1>0, <1>1, <2>1, <2>3 DEF time_passes
    <2>4. CASE loop.at = "ended"
      BY <1>0, <1>1, <2>1, <2>4 DEF time_passes
    <2> QED  BY <2>2, <2>3, <2>4
  <1>2. CASE wakes
    <2>1. CASE held
      <3>1. /\ UNCHANGED <<age, missed, held>>
            /\ loop' = [loop EXCEPT !.at = "building", !.minted = 0]
            /\ loop.at = "asleep" /\ loop.for = 0
        BY <1>2, <2>1 DEF wakes, adapter_gone
      <3>2. loop' \in Loops /\ loop'.at = "building" /\ loop'.minted = 0
        <4>1. loop.for \in 0 .. interval /\ 0 \in 0 .. MaxBuild
          BY <1>0
        <4>2. loop' = [at |-> "building", for |-> loop.for, minted |-> 0]
          BY <3>1
        <4> QED  BY <4>1, <4>2
      <3>3. ~missed => age <= interval + MaxBuild
        BY <1>0, <3>1
      <3> QED  BY <1>0, <3>1, <3>2, <3>3
    <2>2. CASE ~held
      BY <1>0, <1>2, <2>2 DEF wakes, adapter_gone
    <2> QED  BY <2>1, <2>2
  <1>3. CASE build_dsql_pool
    <2>1. CASE held
      <3>1. /\ age' = loop.minted /\ missed' = FALSE /\ held' = held
            /\ loop' = [at |-> "asleep", for |-> interval, minted |-> 0]
        BY <1>0, <1>3, <2>1 DEF build_dsql_pool, adapter_gone
      <3>2. loop.minted \in Nat /\ loop.minted <= MaxBuild
        BY <1>0
      <3>3. loop' \in Loops
        BY <1>0, <3>1
      <3>4. age' \in Nat /\ age' + loop'.for <= interval + MaxBuild
        BY <1>0, <3>1, <3>2
      <3> QED  BY <3>1, <3>3, <3>4
    <2>2. CASE ~held
      BY <1>0, <1>3, <2>2 DEF build_dsql_pool, adapter_gone
    <2> QED  BY <2>1, <2>2
  <1>4. CASE build_fails
    BY <1>0, <1>4 DEF build_fails, after_a_failure
  <1>5. CASE drop_adapter
    BY <1>5 DEF drop_adapter
  <1>6. CASE UNCHANGED <<age, missed, loop, held>>
    BY <1>6
  <1>7. ASSUME NEW c \in Callers, call_step(c)
        PROVE  UNCHANGED <<age, missed, loop, held>>
    BY <1>7 DEF call_step, current, finishes, acquire
  <1> QED
    BY <1>1, <1>2, <1>3, <1>4, <1>5, <1>6, <1>7 DEF RefreshNext, refresh_step, RefreshVars

\* While no mint has failed since the last swap, whoever still holds the
\* adapter dials with a token that has not expired, whenever the task sleeps,
\* mints or swaps (lib.rs, spawn_token_refresh; dsql_auth.rs, refresh_interval).
THEOREM TokensAreCurrentWhileMintsSucceed ==
    ASSUME ExpiresAssumption
    PROVE  RefreshSpec => []CurrentWhileMintsSucceed
  <1>1. RefreshInv => CurrentWhileMintsSucceed
    BY IntervalLeavesRoom
    DEF RefreshInv, Types, OnSchedule, Loops, Steps, CurrentWhileMintsSucceed, ExpiresAssumption
  <1> QED
    BY <1>1, RefreshInitHolds, RefreshStepHolds, PTL DEF RefreshSpec

-------------------------------------------------------------------------------
(***************************************************************************)
(* Results: for any limits and any number of rows a statement may have.    *)
(***************************************************************************)
\* Limits are natural numbers.
LimitsOfAResult ==
    MaxRows \in Nat /\ MAX_RESULT_ROWS \in Nat /\ DEFAULT_MAX_ROWS \in Nat /\ MAX_MAX_ROWS \in Nat

Counted(n) == [i \in 1 .. n |-> i]

LEMMA FirstOfCounted ==
    ASSUME NEW n \in Nat, NEW m \in Nat
    PROVE  /\ first(Counted(n), m) = Counted(IF m < n THEN m ELSE n)
           /\ Len(Counted(n)) = n /\ Counted(n) \in Seq(Nat)
           /\ Append(Counted(n), n + 1) = Counted(n + 1)
           /\ m <= n => first(Counted(n), m) = Counted(m)
           /\ n <= m => first(Counted(n), m) = Counted(n)
<1>1. Len(Counted(n)) = n /\ Counted(n) \in Seq(Nat)
  BY DEF Counted
<1>2. Append(Counted(n), n + 1) = Counted(n + 1)
  BY <1>1 DEF Counted
<1>3. first(Counted(n), m) = Counted(IF m < n THEN m ELSE n)
  BY <1>1 DEF Counted, first
<1>4. (m <= n => first(Counted(n), m) = Counted(m)) /\ (n <= m => first(Counted(n), m) = Counted(n))
  BY <1>1 DEF Counted, first
<1>5. QED
  BY <1>1, <1>2, <1>3, <1>4

\* What the server has to say, as ResultInit has it.
Statements ==
    {s \in [engine : Engines, word : Words, rows : Nat, affected : Nat, bad : Nat,
            failure : Failures, fails_after : Nat] :
        /\ s.word # "insert" => s.affected = 0
        /\ s.word = "insert" => s.rows = 0
        /\ s.bad <= s.rows}

Paths == {"run_capped", "fetch_via_cursor", "fetch_capped_stream", "run_select_capped", "query",
          "run_select", "run_execute", "post_raw"}
Fetches ==
    [op : Operations \union {"none"}, path : Paths \union {"none"}, limit : Nat, probe : Nat,
     at : Nat, rows : Seq(Nat), affected : Nat, truncated : BOOLEAN,
     error : {Unset, "query", "connection", "type", "schema"},
     result : {"idle", "running", "ok", "failed"}]

\* A call under way has the rows so far, none of them undecodable where each is decoded as
\* it comes, and no more than its path lets it take.
Underway ==
    /\ fetch.op \in Operations /\ fetch.path = path(fetch.op) /\ fetch.probe = fetch.limit + 1
    /\ fetch.rows = Counted(fetch.at) /\ fetch.at <= statement.rows
    /\ fetch.op # "query" => statement.word # "insert"
    /\ fetch.path \in {"query", "run_select"} => fetch.at <= MAX_RESULT_ROWS
    /\ fetch.path \in {"fetch_capped_stream", "run_select_capped"} => fetch.at <= fetch.probe

ResultInv ==
    /\ statement \in Statements /\ fetch \in Fetches
    /\ fetch.result = "running" => Underway
    /\ QueryIsWhole /\ ReadIsCutHonestly /\ ConnectionErrorsAreTold

\* A read comes by a path that stops, everything else by one that does not.
LEMMA PathsOfAnOperation ==
    ASSUME statement \in Statements, NEW op \in Operations
    PROVE  /\ path(op) \in Paths
           /\ op = "run_read_query" =>
                 path(op) \in {"run_capped", "fetch_via_cursor", "fetch_capped_stream",
                               "run_select_capped", "post_raw"}
           /\ op # "run_read_query" => path(op) \in {"query", "run_select", "run_execute", "post_raw"}
           /\ path(op) = "run_execute" => statement.word = "insert"
           /\ path(op) = "post_raw" => statement.engine = "d1"
           /\ path(op) \in {"run_select_capped", "run_select", "run_execute"} => statement.engine = "turso"
<1>1. PICK engine, word : engine = statement.engine /\ word = statement.word
  OBVIOUS
<1>2. engine \in Engines /\ word \in Words
  BY <1>1 DEF Statements
<1>3. CASE engine = "d1"
  BY <1>1, <1>3 DEF path, Paths
<1>4. CASE engine = "turso"
  BY <1>1, <1>4 DEF path, reads_by, queries_by, Streaming, Operations, Paths, is_row_returning
<1>5. CASE engine = "postgres"
  BY <1>1, <1>5 DEF path, reads_by, queries_by, Streaming, Operations, Paths
<1>6. CASE engine \in {"aurora-dsql", "mysql"}
  BY <1>1, <1>6 DEF path, reads_by, queries_by, Streaming, Operations, Paths
<1>7. QED
  BY <1>2, <1>3, <1>4, <1>5, <1>6 DEF Engines

\* What an answer of these rows is.
LEMMA AnAnswer ==
    ASSUME ResultInv, fetch.result = "running", UNCHANGED statement, NEW n \in Nat, n <= statement.rows,
           NEW affected \in Nat, answer(Counted(n), affected),
           fetch.op = "run_read_query" => n >= fetch.probe \/ n = statement.rows,
           fetch.op # "run_read_query" =>
               n = statement.rows /\ n <= MAX_RESULT_ROWS /\ affected = statement.affected
    PROVE  ResultInv'
<1>1. Underway /\ fetch \in Fetches /\ statement \in Statements /\ statement.rows \in Nat
      /\ fetch.limit \in Nat /\ fetch.probe = fetch.limit + 1
  BY DEF ResultInv, Underway, Fetches, Statements
<1>2. CASE fetch.op = "run_read_query"
  <2>0. PICK m, k : m = (IF fetch.probe < n THEN fetch.probe ELSE n)
                     /\ k = (IF fetch.limit < m THEN fetch.limit ELSE m)
    OBVIOUS
  <2>1. m \in Nat /\ k \in Nat
    BY <1>1, <2>0
  <2>2. first(Counted(n), fetch.probe) = Counted(m) /\ Len(Counted(m)) = m
    <3>1. first(Counted(n), fetch.probe) = Counted(m)
      <4>1. PICK l \in Nat : l = fetch.probe
        BY <1>1
      <4>2. QED
        BY <2>0, <4>1, FirstOfCounted
    <3>2. Len(Counted(m)) = m
      BY <2>1, FirstOfCounted
    <3>3. QED
      BY <3>1, <3>2
  <2>3. first(Counted(m), fetch.limit) = Counted(k) /\ Counted(k) \in Seq(Nat)
    <3>1. first(Counted(m), fetch.limit) = Counted(k)
      BY <1>1, <2>0, <2>1, FirstOfCounted
    <3>2. Counted(k) \in Seq(Nat)
      BY <2>1, FirstOfCounted
    <3>3. QED
      BY <3>1, <3>2
  <2>35. PICK rows, cut : rows = Counted(k) /\ cut = (m > fetch.limit)
    OBVIOUS
  <2>36. rows \in Seq(Nat) /\ cut \in BOOLEAN
    BY <2>3, <2>35
  <2>4. fetch' = [fetch EXCEPT !.rows = rows, !.truncated = cut, !.result = "ok"]
    <3>1. fetch' = [fetch EXCEPT !.rows = first(Counted(m), fetch.limit),
                                 !.truncated = Len(Counted(m)) > fetch.limit, !.result = "ok"]
      BY <1>2, <2>2 DEF answer
    <3>2. QED
      BY <2>2, <2>3, <2>35, <3>1
  <2>5. all_rows = Counted(statement.rows)
    BY DEF all_rows, Counted
  <2>6. first(all_rows, fetch.limit) = Counted(IF fetch.limit < statement.rows THEN fetch.limit ELSE statement.rows)
    BY <1>1, <2>5, FirstOfCounted
  <2>7. k = (IF fetch.limit < statement.rows THEN fetch.limit ELSE statement.rows)
        /\ (m > fetch.limit <=> statement.rows > fetch.limit)
    BY <1>1, <1>2, <2>0
  <2>8. fetch' \in Fetches /\ fetch'.result = "ok" /\ fetch'.op = "run_read_query" /\ fetch'.rows = Counted(k)
        /\ fetch'.limit = fetch.limit /\ (fetch'.truncated <=> m > fetch.limit)
    <3>1. fetch' \in Fetches
      BY <1>1, <2>36, <2>4 DEF Fetches
    <3>2. /\ fetch'.rows = rows /\ fetch'.truncated = cut /\ fetch'.result = "ok"
          /\ fetch'.op = fetch.op /\ fetch'.limit = fetch.limit
      BY <1>1, <2>4 DEF Fetches
    <3>3. QED
      BY <1>2, <2>35, <3>1, <3>2
  <2>9. ReadIsCutHonestly'
    BY <2>6, <2>7, <2>8 DEF ReadIsCutHonestly, first, all_rows
  <2>10. QED
    BY <1>1, <2>8, <2>9 DEF ResultInv, QueryIsWhole, ConnectionErrorsAreTold
<1>3. CASE fetch.op # "run_read_query"
  <2>1. fetch' = [fetch EXCEPT !.rows = Counted(n), !.affected = affected, !.result = "ok"]
    BY <1>3 DEF answer
  <2>2. Counted(n) \in Seq(Nat) /\ Len(Counted(n)) = n
    BY FirstOfCounted
  <2>3. fetch' \in Fetches /\ fetch'.result = "ok" /\ fetch'.op = fetch.op /\ fetch'.rows = Counted(n)
        /\ fetch'.affected = affected
    BY <1>1, <2>1, <2>2 DEF Fetches
  <2>4. QueryIsWhole'
    BY <1>3, <2>2, <2>3 DEF QueryIsWhole, all_rows, Counted
  <2>5. QED
    BY <1>1, <1>3, <2>3, <2>4 DEF ResultInv, ReadIsCutHonestly, ConnectionErrorsAreTold
<1>4. QED
  BY <1>2, <1>3

LEMMA NotBoth == \A m, n \in Nat : ~ (m <= n /\ m > n)
  OBVIOUS

\* What a failure is told as.
LEMMA AFailure ==
    ASSUME ResultInv, fetch.result = "running", UNCHANGED statement,
           NEW error \in {"query", "connection", "type"}, fail(error), LimitsOfAResult,
           statement.engine # "turso" =>
               \/ error = "connection" <=> statement.failure \in {"io", "pool closed"}
               \/ error # "connection" /\ (statement.bad # 0 \/ statement.rows > MAX_RESULT_ROWS)
    PROVE  ResultInv'
<1>1. Underway /\ fetch \in Fetches /\ statement \in Statements
  BY DEF ResultInv
<1>2. PICK e : e = (IF fetch.op = "list_tables" THEN reclassify_schema(error) ELSE error)
  OBVIOUS
<1>3. e \in {"query", "connection", "type", "schema"} /\ (e = "connection" <=> error = "connection")
  BY <1>2 DEF reclassify_schema
<1>4. fetch' = [fetch EXCEPT !.result = "failed", !.error = e]
  BY <1>2 DEF fail
<1>5. fetch' \in Fetches /\ fetch'.result = "failed" /\ fetch'.error = e
  BY <1>1, <1>3, <1>4 DEF Fetches
<1>6. ConnectionErrorsAreTold'
  <2>1. SUFFICES ASSUME statement.engine # "turso"
                 PROVE  /\ e = "connection" => statement.failure \in {"io", "pool closed"}
                        /\ statement.failure \in {"io", "pool closed"} /\ statement.bad = 0
                              /\ statement.rows <= MAX_RESULT_ROWS => e = "connection"
    BY <1>5 DEF ConnectionErrorsAreTold
  <2>2. ~ (statement.rows <= MAX_RESULT_ROWS /\ statement.rows > MAX_RESULT_ROWS)
    <3>1. statement.rows \in Nat
      BY <1>1 DEF Statements
    <3>2. MAX_RESULT_ROWS \in Nat
      BY DEF LimitsOfAResult
    <3>3. QED
      BY <3>1, <3>2, NotBoth
  <2>3. error = "connection" => statement.failure \in {"io", "pool closed"}
    BY <2>1
  <2>4. QED
    BY <1>3, <2>1, <2>2, <2>3
<1>7. QED
  BY <1>1, <1>5, <1>6 DEF ResultInv, QueryIsWhole, ReadIsCutHonestly

\* The error of a failing statement tells the connection's from the server's.
LEMMA ErrorsOfAFailure ==
    ASSUME statement \in Statements, failing
    PROVE  /\ error_of(statement.failure) \in {"query", "connection"}
           /\ statement.engine # "turso" =>
                 (error_of(statement.failure) = "connection" <=> statement.failure \in {"io", "pool closed"})
           /\ statement.engine = "d1" =>
                 error_from_response(statement.failure) = error_of(statement.failure)
  BY DEF Statements, failing, Failures, error_of, Engines, Streaming, classify_error, turso_error,
         error_from_response

\* One more row.
LEMMA OneMoreRow ==
    ASSUME ResultInv, fetch.result = "running", UNCHANGED statement, keep, more,
           fetch.path \in {"query", "run_select"} => fetch.at < MAX_RESULT_ROWS,
           fetch.path \in {"fetch_capped_stream", "run_select_capped"} => fetch.at < fetch.probe,
           LimitsOfAResult
    PROVE  ResultInv'
<1>1. Underway /\ fetch \in Fetches /\ statement \in Statements /\ fetch.at \in Nat
  BY DEF ResultInv, Fetches
<1>2. PICK n : n = fetch.at
  OBVIOUS
<1>3. n \in Nat /\ n < statement.rows /\ statement.rows \in Nat /\ fetch.probe \in Nat
  BY <1>1, <1>2 DEF more, Statements, Fetches
<1>4. Append(fetch.rows, n + 1) = Counted(n + 1) /\ Counted(n + 1) \in Seq(Nat)
  <2>1. fetch.rows = Counted(n)
    BY <1>2 DEF ResultInv, Underway
  <2>2. n + 1 \in Nat
    BY <1>3
  <2>3. Append(Counted(n), n + 1) = Counted(n + 1)
    BY <1>3, FirstOfCounted
  <2>4. Counted(n + 1) \in Seq(Nat)
    BY <2>2, FirstOfCounted
  <2>5. QED
    BY <2>1, <2>3, <2>4
<1>5. PICK rows \in Seq(Nat), reached \in Nat : rows = Counted(n + 1) /\ reached = n + 1
  BY <1>3, <1>4
<1>55. fetch' = [fetch EXCEPT !.rows = rows, !.at = reached]
  <2>1. fetch' = [fetch EXCEPT !.rows = Append(fetch.rows, n + 1), !.at = n + 1]
    BY <1>2 DEF keep, next_row
  <2>2. QED
    BY <1>4, <1>5, <2>1
<1>6. /\ fetch' \in Fetches /\ fetch'.rows = Counted(n + 1) /\ fetch'.at = n + 1
      /\ fetch'.op = fetch.op /\ fetch'.path = fetch.path /\ fetch'.probe = fetch.probe
      /\ fetch'.limit = fetch.limit /\ fetch'.result = "running"
  <2>1. fetch' \in Fetches
    BY <1>1, <1>55 DEF Fetches
  <2>2. QED
    BY <1>1, <1>5, <1>55, <2>1 DEF Fetches
<1>7. path(fetch.op)' = path(fetch.op)
  BY <1>6 DEF path, reads_by, queries_by, is_row_returning
<1>8. Underway'
  BY <1>1, <1>2, <1>3, <1>6, <1>7 DEF Underway, LimitsOfAResult
<1>9. QED
  BY <1>1, <1>6, <1>8 DEF ResultInv, QueryIsWhole, ReadIsCutHonestly, ConnectionErrorsAreTold

LEMMA ResultsSafe ==
    ASSUME LimitsOfAResult
    PROVE  ResultSpec => []ResultInv
<1>1. ResultInit => ResultInv
  <2> SUFFICES ASSUME ResultInit PROVE ResultInv
    OBVIOUS
  <2>1. statement \in Statements
    BY DEF ResultInit, Statements, LimitsOfAResult
  <2>2. fetch \in Fetches /\ fetch.result = "idle"
    BY DEF ResultInit, NoFetch, Fetches
  <2>3. QED
    BY <2>1, <2>2 DEF ResultInv, QueryIsWhole, ReadIsCutHonestly, ConnectionErrorsAreTold
<1>2. ASSUME ResultInv, [ResultNext]_ResultVars PROVE ResultInv'
  <2>0. fetch \in Fetches /\ statement \in Statements
    BY <1>2 DEF ResultInv
  <2>1. CASE UNCHANGED ResultVars
    BY <1>2, <2>1 DEF ResultVars, ResultInv, Underway, QueryIsWhole, ReadIsCutHonestly, ConnectionErrorsAreTold,
                      path, reads_by, queries_by, is_row_returning, first, all_rows
  <2>2. ASSUME NEW op \in Operations, NEW max_rows \in {Unset} \cup 0 .. MAX_MAX_ROWS + 1, start(op, max_rows)
        PROVE  ResultInv'
    <3>1. PICK limit : limit = effective(max_rows)
      OBVIOUS
    <3>2. limit \in Nat
      BY <1>2, <2>2, <3>1 DEF effective, LimitsOfAResult
    <3>3. fetch' = [NoFetch EXCEPT !.op = op, !.path = path(op), !.limit = limit, !.probe = limit + 1,
                                   !.result = "running"] /\ UNCHANGED statement
      BY <2>2, <3>1 DEF start, probe
    <3>4. path(op) \in Paths
      BY <2>0, PathsOfAnOperation
    <3>5. /\ fetch' \in Fetches /\ fetch'.op = op /\ fetch'.path = path(op) /\ fetch'.limit = limit
          /\ fetch'.probe = limit + 1 /\ fetch'.result = "running" /\ fetch'.at = 0 /\ fetch'.rows = <<>>
      <4>1. NoFetch \in Fetches
        BY DEF NoFetch, Fetches
      <4>2. PICK p : p = path(op) /\ p \in Paths
        BY <3>4
      <4>25. PICK n \in Nat : n = limit + 1
        BY <3>2
      <4>3. fetch' = [NoFetch EXCEPT !.op = op, !.path = p, !.limit = limit, !.probe = n,
                                     !.result = "running"]
        BY <3>3, <4>2, <4>25
      <4>4. NoFetch.at = 0 /\ NoFetch.rows = <<>>
        BY DEF NoFetch
      <4>5. QED
        <5>1. fetch' \in Fetches
          BY <3>2, <4>1, <4>2, <4>3 DEF Fetches
        <5>2. QED
          BY <4>1, <4>2, <4>25, <4>3, <4>4, <5>1 DEF Fetches
    <3>6. path(op)' = path(op)
      BY <3>3 DEF path, reads_by, queries_by, is_row_returning
    <3>7. Counted(0) = <<>>
      BY DEF Counted
    <3>8. Underway'
      BY <2>0, <2>2, <3>2, <3>3, <3>5, <3>6, <3>7 DEF Underway, start, LimitsOfAResult, Statements
    <3>9. QED
      BY <2>0, <3>3, <3>5, <3>8 DEF ResultInv, QueryIsWhole, ReadIsCutHonestly, ConnectionErrorsAreTold
  <2>3. CASE query_streams \/ run_execute \/ fetch_capped_stream \/ fetch_batch \/ post_raw
    <3>1. fetch.result = "running" /\ UNCHANGED statement
      BY <2>3 DEF query_streams, run_execute, fetch_capped_stream, fetch_batch, post_raw, fetching
    <3>2. /\ Underway /\ fetch.rows = Counted(fetch.at) /\ Len(fetch.rows) = fetch.at /\ fetch.at \in Nat
          /\ fetch.at <= statement.rows /\ fetch.op \in Operations /\ fetch.path = path(fetch.op)
          /\ statement.rows \in Nat /\ statement.bad \in Nat /\ statement.affected \in Nat
          /\ fetch.probe \in Nat /\ fetch.limit \in Nat
      BY <1>2, <2>0, <3>1, FirstOfCounted DEF ResultInv, Underway, Fetches, Statements
    <3>3. all_rows = Counted(statement.rows) /\ Len(all_rows) = statement.rows
      BY <3>2, FirstOfCounted DEF all_rows, Counted
    <3>4. CASE query_streams
      <4>1. fetch.path \in {"query", "run_select"} /\ fetch.op # "run_read_query"
            /\ fetch.at <= MAX_RESULT_ROWS
        BY <2>0, <3>2, <3>4, PathsOfAnOperation DEF query_streams, fetching, Underway
      <4>2. CASE fails_now
        <5>1. fail(error_of(statement.failure)) /\ failing
          BY <3>4, <4>2 DEF query_streams, fails_now
        <5>2. QED
          BY <1>2, <2>0, <3>1, <5>1, ErrorsOfAFailure, AFailure
      <4>3. CASE ~ fails_now /\ more
        <5>1. take_row /\ fetch.at + 1 <= statement.rows
          BY <3>2, <3>4, <4>3 DEF query_streams, more
        <5>2. CASE Len(fetch.rows) >= MAX_RESULT_ROWS
          <6>1. fail("query") /\ statement.rows > MAX_RESULT_ROWS
            BY <3>2, <5>1, <5>2 DEF take_row, too_many_rows_error, LimitsOfAResult
          <6>2. QED
            BY <1>2, <3>1, <6>1, AFailure
        <5>3. CASE Len(fetch.rows) < MAX_RESULT_ROWS /\ ~ decodable(next_row)
          <6>1. fail("type") /\ statement.bad # 0
            BY <3>2, <5>1, <5>3 DEF take_row, decodable, next_row, LimitsOfAResult
          <6>2. QED
            BY <1>2, <3>1, <6>1, AFailure
        <5>4. CASE Len(fetch.rows) < MAX_RESULT_ROWS /\ decodable(next_row)
          <6>1. keep /\ fetch.at < MAX_RESULT_ROWS
            BY <3>2, <5>1, <5>4 DEF take_row, LimitsOfAResult
          <6>2. fetch.path \notin {"fetch_capped_stream", "run_select_capped"}
            BY <4>1
          <6>3. QED
            BY <1>2, <3>1, <4>3, <6>1, <6>2, OneMoreRow
        <5>5. QED
          BY <3>2, <5>2, <5>3, <5>4 DEF LimitsOfAResult
      <4>4. CASE ~ fails_now /\ ~ more
        <5>1. completed /\ fetch.at = statement.rows
          BY <3>2, <3>4, <4>4 DEF query_streams, more
        <5>2. PICK n : n = (IF fetch.rows = <<>> THEN statement.affected ELSE 0)
          OBVIOUS
        <5>3. n = statement.affected
          <6>1. CASE fetch.rows = <<>>
            BY <5>2, <6>1
          <6>2. CASE fetch.rows # <<>>
            <7>1. fetch.at # 0
              BY <3>2, <6>2 DEF Counted
            <7>2. statement.affected = 0
              BY <2>0, <5>1, <7>1 DEF Statements
            <7>3. QED
              BY <5>2, <6>2, <7>2
          <6>3. QED
            BY <6>1, <6>2
        <5>4. answer(Counted(fetch.at), n)
          BY <3>2, <5>1, <5>2 DEF completed
        <5>5. QED
          BY <1>2, <3>1, <3>2, <4>1, <5>1, <5>3, <5>4, AnAnswer
      <4>5. QED
        BY <4>2, <4>3, <4>4
    <3>5. CASE run_execute
      <4>1. statement.word = "insert" /\ statement.rows = 0 /\ statement.engine = "turso"
            /\ fetch.op # "run_read_query"
        BY <2>0, <3>2, <3>5, PathsOfAnOperation DEF run_execute, fetching, Statements
      <4>2. CASE failing
        <5>1. fail("query")
          BY <3>5, <4>2 DEF run_execute, turso_error
        <5>2. QED
          BY <1>2, <3>1, <4>1, <5>1, AFailure
      <4>3. CASE ~ failing
        <5>1. Counted(0) = <<>>
          BY DEF Counted
        <5>2. answer(Counted(0), statement.affected)
          BY <3>5, <4>3, <5>1 DEF run_execute
        <5>3. QED
          BY <1>2, <3>1, <3>2, <4>1, <5>2, AnAnswer DEF LimitsOfAResult
      <4>4. QED
        BY <4>2, <4>3
    <3>6. CASE fetch_capped_stream
      <4>1. fetch.path \in {"fetch_capped_stream", "run_select_capped"} /\ fetch.op = "run_read_query"
            /\ fetch.at <= fetch.probe
        BY <2>0, <3>2, <3>6, PathsOfAnOperation DEF fetch_capped_stream, fetching, Underway
      <4>2. CASE Len(fetch.rows) >= fetch.probe \/ (~ fails_now /\ ~ more)
        <5>1. fetch.at >= fetch.probe \/ fetch.at = statement.rows
          BY <3>2, <4>2 DEF more
        <5>2. CASE statement.bad \in 1 .. Len(fetch.rows)
          <6>1. fail("type") /\ statement.bad # 0
            BY <3>2, <3>6, <4>2, <5>2 DEF fetch_capped_stream
          <6>2. QED
            BY <1>2, <3>1, <6>1, AFailure
        <5>3. CASE statement.bad \notin 1 .. Len(fetch.rows)
          <6>1. answer(Counted(fetch.at), 0)
            BY <3>2, <3>6, <4>2, <5>3 DEF fetch_capped_stream
          <6>2. QED
            BY <1>2, <3>1, <3>2, <4>1, <5>1, <6>1, AnAnswer
        <5>4. QED
          BY <5>2, <5>3
      <4>3. CASE ~ (Len(fetch.rows) >= fetch.probe \/ (~ fails_now /\ ~ more)) /\ fails_now
        <5>1. fail(error_of(statement.failure)) /\ failing
          BY <3>6, <4>3 DEF fetch_capped_stream, fails_now
        <5>2. QED
          BY <1>2, <2>0, <3>1, <5>1, ErrorsOfAFailure, AFailure
      <4>4. CASE ~ (Len(fetch.rows) >= fetch.probe \/ (~ fails_now /\ ~ more)) /\ ~ fails_now
        <5>1. keep /\ more /\ fetch.at < fetch.probe /\ fetch.path \notin {"query", "run_select"}
          BY <3>2, <3>6, <4>1, <4>4 DEF fetch_capped_stream
        <5>2. QED
          BY <1>2, <3>1, <5>1, OneMoreRow
      <4>5. QED
        BY <4>2, <4>3, <4>4
    <3>7. CASE fetch_batch \/ post_raw
      <4>1. fetch_batch => fetch.op = "run_read_query"
        BY <2>0, <3>2, PathsOfAnOperation DEF fetch_batch, fetching
      <4>2. post_raw => statement.engine = "d1"
        BY <2>0, <3>2, PathsOfAnOperation DEF post_raw, fetching
      <4>3. PICK n : n = (IF ((post_raw /\ fetch.op = "run_read_query") \/ fetch.path = "fetch_via_cursor")
                             /\ fetch.probe < statement.rows THEN fetch.probe ELSE statement.rows)
        OBVIOUS
      <4>4. n \in Nat /\ n <= statement.rows /\ Len(Counted(n)) = n
            /\ (fetch.op = "run_read_query" => n >= fetch.probe \/ n = statement.rows)
        <5>1. n \in Nat /\ n <= statement.rows
          BY <3>2, <4>3
        <5>2. fetch.op = "run_read_query" => n >= fetch.probe \/ n = statement.rows
          BY <3>2, <4>3
        <5>3. QED
          BY <5>1, <5>2, FirstOfCounted
      <4>5. first(all_rows, fetch.probe) =
               Counted(IF fetch.probe < statement.rows THEN fetch.probe ELSE statement.rows)
        BY <3>2, <3>3, FirstOfCounted
      <4>6. CASE fetch_batch /\ ~ post_raw
        <5>1. (IF fetch.path = "fetch_via_cursor" THEN first(all_rows, fetch.probe) ELSE all_rows) = Counted(n)
          BY <3>3, <4>3, <4>5, <4>6
        <5>2. IF failing /\ statement.fails_after <= n THEN fail(error_of(statement.failure))
              ELSE IF statement.bad \in 1 .. n THEN fail("type") ELSE answer(Counted(n), 0)
          BY <4>4, <4>6, <5>1 DEF fetch_batch
        <5>3. CASE failing /\ statement.fails_after <= n
          BY <1>2, <2>0, <3>1, <5>2, <5>3, ErrorsOfAFailure, AFailure
        <5>4. CASE ~ (failing /\ statement.fails_after <= n) /\ statement.bad \in 1 .. n
          <6>1. fail("type") /\ statement.bad # 0
            BY <4>4, <5>2, <5>4
          <6>2. QED
            BY <1>2, <3>1, <6>1, AFailure
        <5>5. CASE ~ (failing /\ statement.fails_after <= n) /\ statement.bad \notin 1 .. n
          <6>1. answer(Counted(n), 0)
            BY <5>2, <5>5
          <6>2. QED
            BY <1>2, <3>1, <4>1, <4>4, <4>6, <6>1, AnAnswer
        <5>6. QED
          BY <5>3, <5>4, <5>5
      <4>7. CASE post_raw
        <5>1. fetch.path = "post_raw" /\ fetch.path # "fetch_via_cursor"
          BY <4>7 DEF post_raw, fetching
        <5>2. (IF fetch.op = "run_read_query" THEN first(all_rows, fetch.probe) ELSE all_rows) = Counted(n)
          BY <3>3, <4>3, <4>5, <4>7, <5>1
        <5>3. IF failing THEN fail(error_from_response(statement.failure))
              ELSE IF n > MAX_RESULT_ROWS THEN fail("query")
              ELSE IF statement.bad \in 1 .. n THEN fail("type") ELSE answer(Counted(n), statement.affected)
          BY <4>4, <4>7, <5>2 DEF post_raw, too_many_rows_error
        <5>4. CASE failing
          <6>1. fail(error_of(statement.failure))
            BY <2>0, <4>2, <4>7, <5>3, <5>4, ErrorsOfAFailure
          <6>2. QED
            BY <1>2, <2>0, <3>1, <5>4, <6>1, ErrorsOfAFailure, AFailure
        <5>5. CASE ~ failing /\ n > MAX_RESULT_ROWS
          <6>1. fail("query") /\ statement.rows > MAX_RESULT_ROWS
            BY <3>2, <4>4, <5>3, <5>5 DEF LimitsOfAResult
          <6>2. QED
            BY <1>2, <3>1, <6>1, AFailure
        <5>6. CASE ~ failing /\ ~ n > MAX_RESULT_ROWS /\ statement.bad \in 1 .. n
          <6>1. fail("type") /\ statement.bad # 0
            BY <4>4, <5>3, <5>6
          <6>2. QED
            BY <1>2, <3>1, <6>1, AFailure
        <5>7. CASE ~ failing /\ ~ n > MAX_RESULT_ROWS /\ statement.bad \notin 1 .. n
          <6>1. answer(Counted(n), statement.affected) /\ n <= MAX_RESULT_ROWS
            BY <4>4, <5>3, <5>7 DEF LimitsOfAResult
          <6>2. fetch.op # "run_read_query" => n = statement.rows
            BY <4>3, <5>1
          <6>3. QED
            BY <1>2, <3>1, <3>2, <4>4, <6>1, <6>2, AnAnswer
        <5>8. QED
          BY <5>4, <5>5, <5>6, <5>7
      <4>8. QED
        BY <3>7, <4>6, <4>7
    <3>8. QED
      BY <2>3, <3>4, <3>5, <3>6, <3>7
  <2>4. QED
    BY <1>2, <2>1, <2>2, <2>3 DEF ResultNext
<1>3. QED
  BY <1>1, <1>2, PTL DEF ResultSpec

(***************************************************************************)
(* A query that succeeds has every row of its statement, on every engine,  *)
(* for any number of rows and any cap, wherever a link fails               *)
(* (query, limits.rs).                                                     *)
(***************************************************************************)
THEOREM QueriesAreWhole ==
    ASSUME LimitsOfAResult
    PROVE  ResultSpec => []QueryIsWhole
<1>1. ResultInv => QueryIsWhole
  BY DEF ResultInv
<1>2. QED
  BY <1>1, ResultsSafe, PTL

(***************************************************************************)
(* A read has the first rows, as many as were asked for, and says that it  *)
(* was cut exactly when there are more, for any limit (run_read_query).    *)
(***************************************************************************)
THEOREM ReadsAreCutHonestly ==
    ASSUME LimitsOfAResult
    PROVE  ResultSpec => []ReadIsCutHonestly
<1>1. ResultInv => ReadIsCutHonestly
  BY DEF ResultInv
<1>2. QED
  BY <1>1, ResultsSafe, PTL

(***************************************************************************)
(* A connection that failed is told as one, and a refusal of the server    *)
(* never is, where the driver tells them apart (classify_error).           *)
(***************************************************************************)
THEOREM FailedLinksAreTold ==
    ASSUME LimitsOfAResult
    PROVE  ResultSpec => []ConnectionErrorsAreTold
<1>1. ResultInv => ConnectionErrorsAreTold
  BY DEF ResultInv
<1>2. QED
  BY <1>1, ResultsSafe, PTL
=============================================================================
