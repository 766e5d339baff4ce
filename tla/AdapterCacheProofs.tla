-------------------------- MODULE AdapterCacheProofs --------------------------
(***************************************************************************)
(* What the adapter cache guarantees for every set of connections,         *)
(* databases, processes, callers and editors, whatever their number, and   *)
(* what the routes from a configuration to an adapter do for every one.    *)
(***************************************************************************)
EXTENDS AdapterCache, Routes, TLAPS, WellFoundedInduction

-------------------------------------------------------------------------------
(***************************************************************************)
(* The invariant the others rest on.  Who checks or builds an adapter has  *)
(* the lock of its process, so the adapter it is about to ping is still    *)
(* there; who asks the keyring or the engine has read an entry.            *)
(***************************************************************************)
Building == {"ping", "file", "keyring", "connect"}
HasTheLock == \A p \in Callers : call[p].at \in Building => lock[server(p)] = p
Prepared ==
    \A p \in Callers :
        /\ call[p].at = "ping" => cached(p) # NotCached
        /\ call[p].at \in {"keyring", "connect"} => call[p].built \in Adapters
EditsSomething == \A e \in Editors : editor[e].at # "idle" => editor[e].conn \in Conns
Shape == TypeOK /\ HasTheLock /\ Prepared /\ EditsSomething

LEMMA HostType == \A p \in Callers : server(p) \in Servers
  BY ServerAssumption DEF server

LEMMA InitShape == Init => Shape
  <1> SUFFICES ASSUME Init PROVE Shape
    OBVIOUS
  <1>1. TypeOK
    <2>1. PICK k \in Keys :
            call = [p \in Callers |-> [ at |-> "idle", job |-> "none", key |-> k,
                                        built |-> Nobody, lostFor |-> 0,
                                        vers |-> {}, secs |-> {}, allowed |-> FALSE ]]
      BY DEF Init
    <2>2. call \in [Callers -> Calls]
      BY <2>1, BoundAssumption DEF Calls, Resting
    <2>3. entry \in [Conns -> Entries]
      BY DEF Init, Entries, Versions
    <2>4. cache \in [Servers -> [Keys -> Cached \cup {NotCached}]]
      BY DEF Init
    <2>5. editor \in [Editors -> [at: {"idle", "stored", "purging", "saved"},
                              kind: {"none", "add", "update", "import", "delete"},
                              conn: Conns \cup {Nobody}, kept: Versions]]
      BY DEF Init, NoEdit, Versions
    <2>6. recent \in [Conns -> [vers: SUBSET Versions, secs: SUBSET Versions]]
      BY DEF Init, Versions
    <2> QED  BY <2>2, <2>3, <2>4, <2>5, <2>6 DEF Init, TypeOK, Versions
  <1>2. \A p \in Callers : call[p].at = "idle"
    BY DEF Init
  <1>3. \A e \in Editors : editor[e].at = "idle"
    BY DEF Init, NoEdit
  <1> QED  BY <1>1, <1>2, <1>3 DEF Shape, HasTheLock, Prepared, EditsSomething, Building

\* What Observe makes of the calls: only their histories change, and a call on
\* the connection learns of a permission that is on.
LEMMA Observed ==
    ASSUME TypeOK, NEW e \in Editors, NEW c \in Conns, Observe(e, c),
           entry' \in [Conns -> Entries], secret' \in [Conns -> Versions]
    PROVE  /\ recent' \in [Conns -> [vers: SUBSET Versions, secs: SUBSET Versions]]
           /\ call' \in [Callers -> Calls]
           /\ \A p \in Callers :
                /\ call'[p].at = call[p].at /\ call'[p].job = call[p].job
                /\ call'[p].key = call[p].key /\ call'[p].built = call[p].built
                /\ call'[p].lostFor = call[p].lostFor
                /\ call[p].allowed => call'[p].allowed
                /\ call[p].at \notin Resting /\ conn(p) = c /\ permits(entry'[c]) =>
                      call'[p].allowed
  <1> DEFINE now == [vers |-> {entry'[c].ver}, secs |-> {secret'[c]}]
  <1>1. now \in [vers: SUBSET Versions, secs: SUBSET Versions]
    BY DEF Entries
  <1>2. recent' \in [Conns -> [vers: SUBSET Versions, secs: SUBSET Versions]]
    BY <1>1 DEF Observe, TypeOK
  <1>3. permits(entry'[c]) \in BOOLEAN
    BY WriteAssumption DEF permits, Entries
  <1>4. call' = [p \in Callers |->
              IF call[p].at \in Resting \/ conn(p) # c THEN call[p]
              ELSE [call[p] EXCEPT
                      !.vers = @ \cup {entry'[c].ver}, !.secs = @ \cup {secret'[c]},
                      !.allowed = @ \/ permits(entry'[c])]]
    BY DEF Observe
  <1>5. \A p \in Callers : call[p] \in Calls
    BY DEF TypeOK
  <1>6. ASSUME NEW p \in Callers
        PROVE  /\ call'[p] \in Calls
               /\ call'[p].at = call[p].at /\ call'[p].job = call[p].job
               /\ call'[p].key = call[p].key /\ call'[p].built = call[p].built
               /\ call'[p].lostFor = call[p].lostFor
               /\ call[p].allowed => call'[p].allowed
               /\ call[p].at \notin Resting /\ conn(p) = c /\ permits(entry'[c]) =>
                     call'[p].allowed
    <2>1. CASE call[p].at \in Resting \/ conn(p) # c
      BY <1>4, <1>5, <2>1
    <2>2. CASE ~(call[p].at \in Resting \/ conn(p) # c)
      <3>1. call'[p] = [call[p] EXCEPT
                      !.vers = @ \cup {entry'[c].ver}, !.secs = @ \cup {secret'[c]},
                      !.allowed = @ \/ permits(entry'[c])]
        BY <1>4, <2>2
      <3>2. /\ call[p].vers \cup {entry'[c].ver} \in SUBSET Versions
            /\ call[p].secs \cup {secret'[c]} \in SUBSET Versions
        BY <1>1, <1>5 DEF Calls
      <3>3. (call[p].allowed \/ permits(entry'[c])) \in BOOLEAN
        OBVIOUS
      <3>4. call'[p] \in Calls
        BY <3>1, <3>2, <3>3, <1>5 DEF Calls
      <3>5. /\ call'[p].at = call[p].at /\ call'[p].job = call[p].job
            /\ call'[p].key = call[p].key /\ call'[p].built = call[p].built
            /\ call'[p].lostFor = call[p].lostFor
            /\ call'[p].allowed = (call[p].allowed \/ permits(entry'[c]))
        BY <3>1, <1>5 DEF Calls
      <3> QED  BY <3>4, <3>5
    <2> QED  BY <2>1, <2>2
  <1>7. call' \in [Callers -> Calls]
    <2> DEFINE next(p) == IF call[p].at \in Resting \/ conn(p) # c THEN call[p]
              ELSE [call[p] EXCEPT
                      !.vers = @ \cup {entry'[c].ver}, !.secs = @ \cup {secret'[c]},
                      !.allowed = @ \/ permits(entry'[c])]
    <2>1. call' = [p \in Callers |-> next(p)]
      BY <1>4
    <2> HIDE DEF next
    <2>2. \A p \in Callers : call'[p] = next(p)
      BY <2>1
    <2> QED  BY <1>6, <2>1, <2>2
  <1>8. ASSUME NEW p \in Callers
        PROVE  /\ call'[p].at = call[p].at /\ call'[p].job = call[p].job
               /\ call'[p].key = call[p].key /\ call'[p].built = call[p].built
               /\ call'[p].lostFor = call[p].lostFor
               /\ call[p].allowed => call'[p].allowed
               /\ call[p].at \notin Resting /\ conn(p) = c /\ permits(entry'[c]) =>
                     call'[p].allowed
    BY <1>6
  <1> QED  BY <1>2, <1>7, <1>8, Zenon

\* A step of p that leaves alone what others have locked leaves their calls as
\* they were prepared.
Respects(p) ==
    /\ \A q \in Callers \ {p} : call'[q] = call[q]
    /\ \A s \in Servers :
          lock[s] \notin {Nobody, p} => lock'[s] = lock[s] /\ cache'[s] = cache[s]

Ready(p) ==
    /\ call[p].at \in Building => lock[server(p)] = p
    /\ call[p].at = "ping" => cached(p) # NotCached
    /\ call[p].at \in {"keyring", "connect"} => call[p].built \in Adapters

LEMMA OthersReady ==
    ASSUME Shape, NEW p \in Callers, Respects(p), Ready(p)'
    PROVE  HasTheLock' /\ Prepared'
  <1> SUFFICES ASSUME NEW q \in Callers PROVE Ready(q)'
    BY DEF Ready, HasTheLock, Prepared
  <1>1. CASE q = p
    BY <1>1
  <1>2. CASE q # p
    <2>1. call'[q] = call[q] /\ Ready(q)
      BY <1>2 DEF Respects, Shape, HasTheLock, Prepared, Ready
    <2>2. CASE call[q].at \in Building
      <3>1. lock[server(q)] = q /\ lock[server(q)] \notin {Nobody, p}
        BY <1>2, <2>1, <2>2, NobodyAssumption DEF Ready
      <3>2. lock'[server(q)] = lock[server(q)] /\ cache'[server(q)] = cache[server(q)]
        BY <3>1, HostType DEF Respects
      <3> QED  BY <2>1, <3>1, <3>2 DEF Ready, cached, server
    <2>3. CASE call[q].at \notin Building
      BY <2>1, <2>3 DEF Ready, Building
    <2> QED  BY <2>2, <2>3
  <1> QED  BY <1>1, <1>2

\* What a step of a call leaves alone, and what is then left to show.
LEMMA CallKeepsShape ==
    ASSUME Shape, NEW p \in Callers, UNCHANGED <<stores, editor, links>>,
           call' \in [Callers -> Calls], lock' \in [Servers -> Callers \cup {Nobody}],
           cache' \in [Servers -> [Keys -> Cached \cup {NotCached}]],
           Respects(p), Ready(p)'
    PROVE  Shape'
  <1>1. TypeOK'
    BY DEF Shape, TypeOK, stores, links
  <1>2. EditsSomething'
    BY DEF Shape, EditsSomething
  <1> QED  BY <1>1, <1>2, OthersReady DEF Shape

LEMMA CallTypes ==
    ASSUME Shape, NEW p \in Callers
    PROVE  /\ call[p] \in Calls /\ call[p].key \in Keys /\ conn(p) \in Conns
           /\ server(p) \in Servers
           /\ cached(p) \in Cached \cup {NotCached}
           /\ lock \in [Servers -> Callers \cup {Nobody}]
           /\ call \in [Callers -> Calls]
           /\ cache \in [Servers -> [Keys -> Cached \cup {NotCached}]]
           /\ Ready(p)
  <1>1. call[p] \in Calls /\ call[p].key \in Keys
    BY DEF Shape, TypeOK, Calls
  <1> QED  BY <1>1, HostType
           DEF Shape, TypeOK, Keys, conn, cached, Ready, HasTheLock, Prepared

\* Only the place of the call changes.
LEMMA AdvanceType ==
    ASSUME Shape, NEW p \in Callers, NEW at,
           at \in Resting \cup {"gate", "evict", "want", "ping", "file", "keyring",
                               "connect", "handed"},
           Advance(p, at)
    PROVE  /\ call' \in [Callers -> Calls]
           /\ \A q \in Callers \ {p} : call'[q] = call[q]
           /\ call'[p] = [call[p] EXCEPT !.at = at] /\ call'[p].at = at
           /\ call'[p].key = call[p].key /\ call'[p].built = call[p].built
           /\ call'[p].job = call[p].job /\ call'[p].allowed = call[p].allowed
           /\ call'[p].lostFor = call[p].lostFor
  <1>1. call[p] \in Calls /\ call \in [Callers -> Calls]
    BY CallTypes
  <1>2. call'[p] = [call[p] EXCEPT !.at = at]
    BY <1>1 DEF Advance
  <1>3. [call[p] EXCEPT !.at = at] \in Calls
    BY <1>1 DEF Calls
  <1>4. \A q \in Callers \ {p} : call'[q] = call[q]
    BY <1>1 DEF Advance
  <1>5. call' \in [Callers -> Calls]
    BY <1>1, <1>3 DEF Advance
  <1> QED  BY <1>1, <1>2, <1>4, <1>5 DEF Calls

\* The call gets the adapter of c.
LEMMA HandBackType ==
    ASSUME Shape, NEW p \in Callers, NEW c \in Cached, hand_back(p, c)
    PROVE  /\ call' \in [Callers -> Calls]
           /\ \A q \in Callers \ {p} : call'[q] = call[q]
           /\ call'[p].at = "handed" /\ call'[p].lostFor = c.lostFor
           /\ call'[p].key = call[p].key /\ call'[p].built = c.adapter
           /\ call'[p].job = call[p].job /\ call'[p].allowed = call[p].allowed
  <1>1. call[p] \in Calls /\ call \in [Callers -> Calls]
    BY CallTypes
  <1> DEFINE next == [call[p] EXCEPT !.at = "handed", !.built = c.adapter,
                                     !.lostFor = c.lostFor]
  <1>2. call' = [call EXCEPT ![p] = next]
    BY <1>1 DEF hand_back
  <1>3. c.adapter \in Adapters /\ c.lostFor \in 0 .. Idle
    BY DEF Cached
  <1>4. next \in Calls
    BY <1>1, <1>3 DEF Calls
  <1>5. call'[p] = next
    BY <1>1, <1>2
  <1>6. /\ next.at = "handed" /\ next.lostFor = c.lostFor
        /\ next.key = call[p].key /\ next.built = c.adapter
        /\ next.job = call[p].job /\ next.allowed = call[p].allowed
    BY <1>1 DEF Calls
  <1> HIDE DEF next
  <1> QED  BY <1>1, <1>2, <1>4, <1>5, <1>6

LEMMA FailKeepsShape ==
    ASSUME Shape, NEW p \in Callers, fail(p), call[p].at \in Building,
           UNCHANGED <<stores, editor, links>>
    PROVE  Shape'
  <1>1. "failed" \in Resting
    BY DEF Resting
  <1>2. /\ call' \in [Callers -> Calls]
        /\ \A q \in Callers \ {p} : call'[q] = call[q]
        /\ call'[p].at = "failed"
    BY <1>1, AdvanceType DEF fail
  <1>3. lock[server(p)] = p /\ server(p) \in Servers
        /\ lock \in [Servers -> Callers \cup {Nobody}]
        /\ cache \in [Servers -> [Keys -> Cached \cup {NotCached}]]
    BY CallTypes DEF Ready
  <1>4. lock' = [lock EXCEPT ![server(p)] = Nobody] /\ cache' = cache
    BY DEF fail, release
  <1>5. Respects(p)
    BY <1>2, <1>3, <1>4 DEF Respects
  <1>6. Ready(p)'
    BY <1>2 DEF Ready, Building
  <1> QED  BY <1>2, <1>3, <1>4, <1>5, <1>6, CallKeepsShape

LEMMA BeginType ==
    ASSUME Shape, NEW p \in Callers, begin(p)
    PROVE  /\ call' \in [Callers -> Calls]
           /\ \A q \in Callers \ {p} : call'[q] = call[q]
           /\ call'[p].at \in {"gate", "evict", "want"}
           /\ call'[p].job = "write" => call'[p].at = "gate"
           /\ call'[p].allowed = permits(entry[call'[p].key[1]])
  <1>1. PICK job \in Jobs, key \in Keys :
          call' = [call EXCEPT
               ![p] = [ at |-> FirstStep(job), job |-> job, key |-> key, built |-> Nobody,
                        lostFor |-> 0, vers |-> recent[key[1]].vers,
                        secs |-> recent[key[1]].secs, allowed |-> permits(entry[key[1]]) ]]
    BY DEF begin
  <1> DEFINE next == [ at |-> FirstStep(job), job |-> job, key |-> key, built |-> Nobody,
                       lostFor |-> 0, vers |-> recent[key[1]].vers,
                       secs |-> recent[key[1]].secs, allowed |-> permits(entry[key[1]]) ]
  <1>2. call \in [Callers -> Calls] /\ key[1] \in Conns
    BY CallTypes DEF Keys
  <1>3. entry[key[1]] \in Entries /\ recent[key[1]] \in [vers: SUBSET Versions, secs: SUBSET Versions]
    BY <1>2 DEF Shape, TypeOK
  <1>4. permits(entry[key[1]]) \in BOOLEAN
    BY <1>3, WriteAssumption DEF permits, Entries
  <1>5. FirstStep(job) \in {"gate", "evict", "want"} /\ (job = "write" => FirstStep(job) = "gate")
    BY JobAssumption DEF FirstStep
  <1>6. next \in Calls
    BY <1>3, <1>4, <1>5, BoundAssumption DEF Calls
  <1>7. call' = [call EXCEPT ![p] = next] /\ call'[p] = next
    BY <1>1, <1>2
  <1>8. /\ next.at = FirstStep(job) /\ next.job = job
        /\ next.allowed = permits(entry[next.key[1]])
    OBVIOUS
  <1> HIDE DEF next
  <1> QED  BY <1>2, <1>5, <1>6, <1>7, <1>8

\* What the adapters of a connection's keys become when they are evicted.
LEMMA EvictedType ==
    ASSUME Shape, NEW s \in Servers, NEW c \in Conns
    PROVE  /\ evicted(s, c) \in [Servers -> [Keys -> Cached \cup {NotCached}]]
           /\ \A t \in Servers \ {s} : evicted(s, c)[t] = cache[t]
           /\ \A k \in Keys : evicted(s, c)[s][k] =
                 IF key_belongs_to(k, c) THEN NotCached ELSE cache[s][k]
  BY DEF Shape, TypeOK, evicted

LEMMA CallersKeepShape ==
    ASSUME Shape, NEW p \in Callers, begin(p) \/ Proceed(p)
    PROVE  Shape'
  <1> USE CallTypes
  <1>1. CASE begin(p)
    <2>1. UNCHANGED <<stores, editor, cache, lock, links>>
      BY <1>1 DEF begin
    <2>2. Respects(p) /\ Ready(p)'
      BY <1>1, <2>1, BeginType DEF Respects, Ready, Building
    <2> QED  BY <1>1, <2>1, <2>2, BeginType, CallKeepsShape
  <1>2. CASE require_mcp_write(p)
    <2>1. Advance(p, "want") \/ Advance(p, "failed")
      BY <1>2 DEF require_mcp_write
    <2>2. /\ call' \in [Callers -> Calls]
          /\ \A q \in Callers \ {p} : call'[q] = call[q]
          /\ call'[p].at \in {"want", "failed"}
      BY <2>1, AdvanceType DEF Resting
    <2>3. UNCHANGED <<stores, editor, cache, lock, links>>
      BY <1>2 DEF require_mcp_write
    <2>4. Respects(p) /\ Ready(p)'
      BY <2>2, <2>3 DEF Respects, Ready, Building
    <2> QED  BY <2>2, <2>3, <2>4, CallKeepsShape
  <1>3. CASE evict(p)
    <2>1. /\ call' \in [Callers -> Calls]
          /\ \A q \in Callers \ {p} : call'[q] = call[q]
          /\ call'[p].at = "want"
      BY <1>3, AdvanceType DEF evict
    <2>2. free(server(p)) /\ cache' = evicted(server(p), conn(p)) /\ lock' = lock
          /\ UNCHANGED <<stores, editor, links>>
      BY <1>3 DEF evict
    <2>3. \A s \in Servers \ {server(p)} : cache'[s] = cache[s]
      BY <2>2, EvictedType
    <2>4. Respects(p)
      BY <2>1, <2>2, <2>3 DEF Respects, free
    <2>5. Ready(p)'
      BY <2>1 DEF Ready, Building
    <2>6. cache' \in [Servers -> [Keys -> Cached \cup {NotCached}]]
      BY <2>2, EvictedType
    <2> QED  BY <2>1, <2>2, <2>6, <2>4, <2>5, CallKeepsShape
  <1>4. CASE hit(p)
    <2>1. cached(p) \in Cached /\ hand_back(p, cached(p))
          /\ UNCHANGED <<stores, editor, cache, lock, links>>
      BY <1>4 DEF hit
    <2>2. Respects(p) /\ Ready(p)'
      BY <2>1, HandBackType DEF Respects, Ready, Building
    <2> QED  BY <2>1, <2>2, HandBackType, CallKeepsShape
  <1>5. CASE miss(p)
    <2>1. free(server(p)) /\ lock' = [lock EXCEPT ![server(p)] = p]
          /\ UNCHANGED <<stores, editor, cache, links>>
      BY <1>5 DEF miss, acquire
    <2>2. \/ Advance(p, "file")
          \/ cached(p) # NotCached /\ Advance(p, "ping")
      BY <1>5 DEF miss
    <2>3. /\ call' \in [Callers -> Calls]
          /\ \A q \in Callers \ {p} : call'[q] = call[q]
          /\ call'[p].key = call[p].key
          /\ \/ call'[p].at = "file"
             \/ cached(p) # NotCached /\ call'[p].at = "ping"
      BY <2>2, AdvanceType
    <2>4. Respects(p)
      BY <2>1, <2>3 DEF Respects, free
    <2>5. Ready(p)'
      BY <2>1, <2>3 DEF Ready, Building, cached, server
    <2> QED  BY <2>1, <2>3, <2>4, <2>5, CallKeepsShape
  <1>6. CASE ping(p)
    <2>1. /\ cached(p) \in Cached /\ lock[server(p)] = p
          /\ UNCHANGED <<stores, editor, links>>
      BY <1>6 DEF ping, Ready, Building
    <2>2. CASE /\ cache' = [cache EXCEPT ![server(p)][call[p].key].age = 0]
               /\ hand_back(p, cached(p)) /\ release(p)
      <3>1. [cached(p) EXCEPT !.age = 0] \in Cached
        BY <2>1, BoundAssumption DEF Cached
      <3>2. cache' = [cache EXCEPT ![server(p)] =
                        [@ EXCEPT ![call[p].key] = [cached(p) EXCEPT !.age = 0]]]
        BY <2>2 DEF cached
      <3>3. cache' \in [Servers -> [Keys -> Cached \cup {NotCached}]]
        BY <3>1, <3>2
      <3>4. lock' = [lock EXCEPT ![server(p)] = Nobody]
        BY <2>2 DEF release
      <3>5. Respects(p) /\ Ready(p)'
        BY <2>1, <2>2, <3>2, <3>4, HandBackType DEF Respects, Ready, Building
      <3> QED  BY <2>1, <2>2, <3>3, <3>4, <3>5, HandBackType, CallKeepsShape
    <2>3. CASE /\ cache' = [cache EXCEPT ![server(p)][call[p].key] = NotCached]
               /\ Advance(p, "file") /\ lock' = lock
      <3>1. cache' \in [Servers -> [Keys -> Cached \cup {NotCached}]]
        BY <2>3
      <3>2. /\ call' \in [Callers -> Calls]
            /\ \A q \in Callers \ {p} : call'[q] = call[q]
            /\ call'[p].at = "file"
        BY <2>3, AdvanceType
      <3>3. Respects(p) /\ Ready(p)'
        BY <2>1, <2>3, <3>2 DEF Respects, Ready, Building, server
      <3> QED  BY <2>1, <2>3, <3>1, <3>2, <3>3, CallKeepsShape
    <2> QED  BY <1>6, <2>2, <2>3 DEF ping
  <1>7. CASE load(p)
    <2> DEFINE made == [key |-> call[p].key, ver |-> entry[conn(p)].ver, sec |-> 0]
    <2>1. UNCHANGED <<stores, editor, links>> /\ call[p].at = "file"
      BY <1>7 DEF load
    <2>2. CASE /\ call' = [call EXCEPT ![p].at = "keyring", ![p].built = made]
               /\ UNCHANGED <<cache, lock>>
      <3>1. made \in Adapters
        BY DEF Adapters, Shape, TypeOK, Entries, Versions
      <3> HIDE DEF made
      <3>2. [call[p] EXCEPT !.at = "keyring", !.built = made] \in Calls
        BY <3>1 DEF Calls
      <3>3. call' = [call EXCEPT ![p] = [call[p] EXCEPT !.at = "keyring", !.built = made]]
        BY <2>2
      <3>4. /\ call' \in [Callers -> Calls]
            /\ \A q \in Callers \ {p} : call'[q] = call[q]
            /\ call'[p] = [call[p] EXCEPT !.at = "keyring", !.built = made]
        BY <3>2, <3>3
      <3>5. call'[p].at = "keyring" /\ call'[p].built = made
        BY <3>4 DEF Calls
      <3>6. Respects(p) /\ Ready(p)'
        BY <2>1, <2>2, <3>1, <3>4, <3>5 DEF Respects, Ready, Building, server
      <3> QED  BY <2>1, <2>2, <3>4, <3>6, CallKeepsShape
    <2>3. CASE fail(p)
      BY <2>1, <2>3, FailKeepsShape DEF Building
    <2> QED  BY <1>7, <2>2, <2>3 DEF load
  <1>8. CASE keyring(p)
    <2>1. UNCHANGED <<stores, editor, links>> /\ call[p].at = "keyring"
      BY <1>8 DEF keyring
    <2>2. CASE /\ call' = [call EXCEPT ![p].at = "connect", ![p].built.sec = secret[conn(p)]]
               /\ UNCHANGED <<cache, lock>>
      <3> DEFINE made == [call[p].built EXCEPT !.sec = secret[conn(p)]]
      <3>1. made \in Adapters
        BY <2>1 DEF Ready, Adapters, Shape, TypeOK
      <3>2. call' = [call EXCEPT ![p] = [call[p] EXCEPT !.at = "connect", !.built = made]]
        BY <2>2
      <3> HIDE DEF made
      <3>3. [call[p] EXCEPT !.at = "connect", !.built = made] \in Calls
        BY <3>1 DEF Calls
      <3>4. /\ call' \in [Callers -> Calls]
            /\ \A q \in Callers \ {p} : call'[q] = call[q]
            /\ call'[p] = [call[p] EXCEPT !.at = "connect", !.built = made]
        BY <3>2, <3>3
      <3>5. call'[p].at = "connect" /\ call'[p].built = made
        BY <3>4 DEF Calls
      <3>6. Respects(p) /\ Ready(p)'
        BY <2>1, <2>2, <3>1, <3>4, <3>5 DEF Respects, Ready, Building, server
      <3> QED  BY <2>1, <2>2, <3>4, <3>6, CallKeepsShape
    <2>3. CASE fail(p)
      BY <2>1, <2>3, FailKeepsShape DEF Building
    <2> QED  BY <1>8, <2>2, <2>3 DEF keyring
  <1>9. CASE connect(p)
    <2>1. UNCHANGED <<stores, editor, links>> /\ call[p].at = "connect"
          /\ lock[server(p)] = p
      BY <1>9 DEF connect, Ready, Building
    <2> DEFINE c == connected(call[p].built)
    <2>2. CASE /\ cache' = [cache EXCEPT ![server(p)][call[p].key] = c]
               /\ hand_back(p, c) /\ release(p)
      <3>1. c \in Cached
        BY <2>1, BoundAssumption DEF Ready, connected, Cached
      <3> HIDE DEF c
      <3>2. cache' \in [Servers -> [Keys -> Cached \cup {NotCached}]]
        BY <2>2, <3>1
      <3>3. lock' = [lock EXCEPT ![server(p)] = Nobody]
        BY <2>2 DEF release
      <3>4. Respects(p) /\ Ready(p)'
        BY <2>1, <2>2, <3>1, <3>3, HandBackType DEF Respects, Ready, Building
      <3> QED  BY <2>1, <2>2, <3>1, <3>2, <3>3, <3>4, HandBackType, CallKeepsShape
    <2>3. CASE fail(p)
      BY <2>1, <2>3, FailKeepsShape DEF Building
    <2> QED  BY <1>9, <2>2, <2>3 DEF connect
  <1>10. CASE use(p)
    <2>1. /\ call' \in [Callers -> Calls]
          /\ \A q \in Callers \ {p} : call'[q] = call[q]
          /\ call'[p].at = "done"
      BY <1>10, AdvanceType DEF use, Resting
    <2>2. UNCHANGED <<stores, editor, cache, lock, links>>
      BY <1>10 DEF use
    <2>3. Respects(p) /\ Ready(p)'
      BY <2>1, <2>2 DEF Respects, Ready, Building
    <2> QED  BY <2>1, <2>2, <2>3, CallKeepsShape
  <1> QED  BY <1>1, <1>2, <1>3, <1>4, <1>5, <1>6, <1>7, <1>8, <1>9, <1>10 DEF Proceed

(***************************************************************************)
(* Edits and the world.                                                    *)
(***************************************************************************)
\* A step that leaves the place, key and adapter of every call alone, and what
\* is locked, keeps every call prepared.
LEMMA OthersStayReady ==
    ASSUME Shape, lock' = lock,
           \A p \in Callers : /\ call'[p].at = call[p].at /\ call'[p].key = call[p].key
                              /\ call'[p].built = call[p].built,
           \A p \in Callers : call[p].at = "ping" /\ cached(p) # NotCached =>
              cache'[server(p)][call[p].key] # NotCached
    PROVE  HasTheLock' /\ Prepared'
  <1>1. HasTheLock'
    BY DEF Shape, HasTheLock, server
  <1>2. Prepared'
    BY DEF Shape, Prepared, cached, server
  <1> QED  BY <1>1, <1>2

\* An edit of c at its stores.
LEMMA StoresKeepShape ==
    ASSUME Shape, NEW e \in Editors, NEW c \in Conns, Observe(e, c),
           entry' \in [Conns -> Entries], secret' \in [Conns -> Versions], edits' \in Nat,
           NEW next \in [at: {"idle", "stored", "purging", "saved"},
                         kind: {"none", "add", "update", "import", "delete"},
                         conn: Conns \cup {Nobody}, kept: Versions],
           next.at # "idle" => next.conn \in Conns,
           editor' = [editor EXCEPT ![e] = next],
           UNCHANGED <<cache, lock, links>>
    PROVE  Shape'
  <1>1. TypeOK
    BY DEF Shape
  <1>2. TypeOK'
    BY <1>1, Observed DEF TypeOK, links
  <1>3. HasTheLock' /\ Prepared'
    BY <1>1, Observed, OthersStayReady DEF cached
  <1>4. EditsSomething'
    BY DEF Shape, TypeOK, EditsSomething
  <1> QED  BY <1>2, <1>3, <1>4 DEF Shape

LEMMA EditorTypes ==
    ASSUME Shape, NEW e \in Editors
    PROVE  /\ editor[e] \in [at: {"idle", "stored", "purging", "saved"},
                             kind: {"none", "add", "update", "import", "delete"},
                             conn: Conns \cup {Nobody}, kept: Versions]
           /\ editor[e].at # "idle" => editor[e].conn \in Conns
           /\ NoEdit \in [at: {"idle", "stored", "purging", "saved"},
                          kind: {"none", "add", "update", "import", "delete"},
                          conn: Conns \cup {Nobody}, kept: Versions]
           /\ NoEdit.at = "idle"
           /\ entry \in [Conns -> Entries] /\ secret \in [Conns -> Versions] /\ edits \in Nat
           /\ \A c \in Conns : secret[c] \in Versions /\ entry[c] \in Entries
           /\ \A at \in {"idle", "stored", "purging", "saved"} :
                 Stand(e, at) => editor' = [editor EXCEPT ![e] = [editor[e] EXCEPT !.at = at]]
  BY DEF Shape, TypeOK, EditsSomething, NoEdit, Versions, Stand

LEMMA EditsKeepShape ==
    ASSUME Shape, NEW e \in Editors, Edit(e)
    PROVE  Shape'
  <1> USE EditorTypes
  <1> DEFINE States == [at: {"idle", "stored", "purging", "saved"},
                        kind: {"none", "add", "update", "import", "delete"},
                        conn: Conns \cup {Nobody}, kept: Versions]
  <1>0. /\ edits \in Nat /\ edits + 1 \in Nat /\ edits + 2 \in Versions /\ 0 \in Versions
        /\ secret \in [Conns -> Versions] /\ entry \in [Conns -> Entries]
        /\ \A m \in MayWrite : [ver |-> edits + 2, mcp_write |-> m] \in Entries
        /\ \A c \in Conns : [entry[c] EXCEPT !.ver = 0] \in Entries
    BY DEF Versions, Entries
  <1>1. CASE write_secret(e)
    <2>1. PICK c \in Conns, kind \in Edits \cap {"add", "update", "import"} :
             /\ secret' = [secret EXCEPT ![c] = edits + 2]
             /\ editor' = [editor EXCEPT
                   ![e] = [at |-> "stored", kind |-> kind, conn |-> c, kept |-> secret[c]]]
             /\ UNCHANGED entry
             /\ Observe(e, c)
      BY <1>1 DEF write_secret
    <2> DEFINE next == [at |-> "stored", kind |-> kind, conn |-> c, kept |-> secret[c]]
    <2>2. next \in States /\ next.conn = c
      OBVIOUS
    <2>3. secret' \in [Conns -> Versions] /\ entry' \in [Conns -> Entries]
      BY <1>0, <2>1
    <2>4. edits' \in Nat /\ UNCHANGED <<cache, lock, links>>
      BY <1>1 DEF write_secret
    <2>5. editor' = [editor EXCEPT ![e] = next] /\ Observe(e, c) /\ c \in Conns
      BY <2>1
    <2> HIDE DEF next
    <2> QED  BY <2>2, <2>3, <2>4, <2>5, StoresKeepShape
  <1>2. CASE save_entry(e)
    <2>1. PICK mcp_write \in MayWrite :
            entry' = [entry EXCEPT ![editor[e].conn] = [ver |-> edits + 2, mcp_write |-> mcp_write]]
      BY <1>2 DEF save_entry
    <2>2. entry' \in [Conns -> Entries]
      BY <1>0, <2>1
    <2>3. /\ secret' = secret /\ edits' \in Nat /\ editor[e].conn \in Conns
          /\ Observe(e, editor[e].conn) /\ UNCHANGED <<cache, lock, links>>
      BY <1>2 DEF save_entry
    <2>4. Stand(e, "saved") \/ Over(e)
      BY <1>2 DEF save_entry
    <2>5. PICK next \in States :
            editor' = [editor EXCEPT ![e] = next] /\ (next.at # "idle" => next.conn \in Conns)
      <3>1. [editor[e] EXCEPT !.at = "saved"] \in States
            /\ [editor[e] EXCEPT !.at = "saved"].conn = editor[e].conn
        OBVIOUS
      <3> QED  BY <2>3, <2>4, <3>1 DEF Over
    <2> QED  BY <2>2, <2>3, <2>5, StoresKeepShape
  <1>3. CASE save_fails(e)
    <2>1. /\ editor[e].conn \in Conns /\ edits' = edits + 1
          /\ secret' = [secret EXCEPT ![editor[e].conn] = editor[e].kept]
          /\ entry' = entry /\ Observe(e, editor[e].conn)
          /\ UNCHANGED <<cache, lock, links>>
          /\ editor' = [editor EXCEPT ![e] = NoEdit]
      BY <1>3 DEF save_fails, Over
    <2>2. editor[e].kept \in Versions /\ NoEdit \in States /\ NoEdit.at = "idle"
      OBVIOUS
    <2>3. /\ secret' \in [Conns -> Versions] /\ edits' \in Nat /\ entry' \in [Conns -> Entries]
      BY <1>0, <2>1, <2>2
    <2> QED  BY <2>1, <2>2, <2>3, StoresKeepShape
  <1>4. CASE update_entry(e)
    <2>1. PICK c \in Conns, mcp_write \in MayWrite :
             /\ entry' = [entry EXCEPT ![c] = [ver |-> edits + 2, mcp_write |-> mcp_write]]
             /\ editor' = [editor EXCEPT
                   ![e] = [at |-> "saved", kind |-> "update", conn |-> c, kept |-> 0]]
             /\ UNCHANGED secret
             /\ Observe(e, c)
      BY <1>4 DEF update_entry
    <2> DEFINE next == [at |-> "saved", kind |-> "update", conn |-> c, kept |-> 0]
    <2>2. next \in States /\ next.conn = c
      BY DEF Versions
    <2>3. secret' \in [Conns -> Versions] /\ entry' \in [Conns -> Entries]
      BY <1>0, <2>1
    <2>4. edits' \in Nat /\ UNCHANGED <<cache, lock, links>>
      BY <1>0, <1>4 DEF update_entry
    <2>5. editor' = [editor EXCEPT ![e] = next] /\ Observe(e, c) /\ c \in Conns
      BY <2>1
    <2> HIDE DEF next
    <2> QED  BY <2>2, <2>3, <2>4, <2>5, StoresKeepShape
  <1>5. CASE delete(e)
    <2>1. PICK c \in Conns :
             /\ entry' = [entry EXCEPT ![c].ver = 0]
             /\ editor' = [editor EXCEPT
                   ![e] = [at |-> "purging", kind |-> "delete", conn |-> c, kept |-> 0]]
             /\ UNCHANGED secret
             /\ Observe(e, c)
      BY <1>5 DEF delete
    <2> DEFINE next == [at |-> "purging", kind |-> "delete", conn |-> c, kept |-> 0]
    <2>2. next \in States /\ next.conn = c
      BY DEF Versions
    <2>3. secret' \in [Conns -> Versions] /\ entry' \in [Conns -> Entries]
      BY <1>0, <2>1
    <2>4. edits' \in Nat /\ UNCHANGED <<cache, lock, links>>
      BY <1>0, <1>5 DEF delete
    <2>5. editor' = [editor EXCEPT ![e] = next] /\ Observe(e, c) /\ c \in Conns
      BY <2>1
    <2> HIDE DEF next
    <2> QED  BY <2>2, <2>3, <2>4, <2>5, StoresKeepShape
  <1>6. CASE purge(e)
    <2>1. /\ editor[e].conn \in Conns /\ secret' \in [Conns -> Versions] /\ edits' \in Nat
          /\ entry' = entry /\ Observe(e, editor[e].conn)
          /\ UNCHANGED <<cache, lock, links>>
          /\ editor' = [editor EXCEPT ![e] = [editor[e] EXCEPT !.at = "saved"]]
      BY <1>6 DEF purge, Versions
    <2>2. [editor[e] EXCEPT !.at = "saved"] \in States
          /\ [editor[e] EXCEPT !.at = "saved"].conn = editor[e].conn
      OBVIOUS
    <2> QED  BY <2>1, <2>2, StoresKeepShape
  <1>7. CASE invalidate(e)
    <2> DEFINE c == editor[e].conn
    <2>1. /\ c \in Conns /\ Observe(e, c) /\ free(Desktop) /\ cache' = evicted(Desktop, c)
          /\ UNCHANGED <<entry, secret, edits, lock, links>>
          /\ editor' = [editor EXCEPT ![e] = NoEdit]
      BY <1>7 DEF invalidate, Over
    <2> HIDE DEF c
    <2>2. /\ cache' \in [Servers -> [Keys -> Cached \cup {NotCached}]]
          /\ \A s \in Servers \ {Desktop} : cache'[s] = cache[s]
      BY <2>1, ServerAssumption, EvictedType
    <2>3. /\ recent' \in [Conns -> [vers: SUBSET Versions, secs: SUBSET Versions]]
          /\ call' \in [Callers -> Calls]
          /\ \A p \in Callers : /\ call'[p].at = call[p].at /\ call'[p].key = call[p].key
                                 /\ call'[p].built = call[p].built
      BY <2>1, Observed DEF Shape
    <2>4. TypeOK'
      BY <2>1, <2>2, <2>3 DEF Shape, TypeOK, links
    <2>5. \A p \in Callers : call[p].at = "ping" => server(p) \in Servers \ {Desktop}
      BY <2>1, HostType, NobodyAssumption DEF free, Shape, HasTheLock, Building
    <2>6. HasTheLock' /\ Prepared'
      BY <2>1, <2>2, <2>3, <2>5, OthersStayReady DEF cached
    <2>7. EditsSomething'
      BY <2>1 DEF Shape, TypeOK, EditsSomething
    <2> QED  BY <2>4, <2>6, <2>7 DEF Shape
  <1> QED  BY <1>1, <1>2, <1>3, <1>4, <1>5, <1>6, <1>7 DEF Edit

\* What time and a lost link make of an adapter.
LEMMA OlderType ==
    ASSUME NEW c \in Cached
    PROVE  /\ Older(c) \in Cached /\ Older(c) # NotCached /\ c # NotCached
           /\ [c EXCEPT !.lost = TRUE] \in Cached /\ [c EXCEPT !.lost = TRUE] # NotCached
           /\ Older(c).lost = c.lost
           /\ Older(c).age = IF c.age < Idle THEN c.age + 1 ELSE c.age
           /\ Older(c).lostFor = IF c.lost /\ c.lostFor < Idle THEN c.lostFor + 1 ELSE c.lostFor
           /\ [c EXCEPT !.lost = TRUE].lostFor = c.lostFor
           /\ [c EXCEPT !.lost = TRUE].age = c.age
  <1>1. c # NotCached
    BY NotCachedAssumption DEF NotCached
  <1>2. /\ c.age \in 0 .. Idle /\ c.lostFor \in 0 .. Idle /\ c.lost \in BOOLEAN
        /\ Idle \in Nat
    BY BoundAssumption DEF Cached
  <1> DEFINE age == IF c.age < Idle THEN c.age + 1 ELSE c.age
             lostFor == IF c.lost /\ c.lostFor < Idle THEN c.lostFor + 1 ELSE c.lostFor
  <1>3. age \in 0 .. Idle /\ lostFor \in 0 .. Idle
    BY <1>2
  <1>4. Older(c) = [c EXCEPT !.age = age, !.lostFor = lostFor]
    BY <1>1 DEF Older
  <1> HIDE DEF age, lostFor
  <1>5. Older(c) \in Cached /\ [c EXCEPT !.lost = TRUE] \in Cached
    BY <1>3, <1>4 DEF Cached
  <1>6. Older(c).lost = c.lost /\ Older(c).age = age /\ Older(c).lostFor = lostFor
    BY <1>4 DEF Cached
  <1> USE DEF age, lostFor
  <1> QED  BY <1>1, <1>5, <1>6, NotCachedAssumption DEF NotCached, Cached

LEMMA WorldKeepsShape ==
    ASSUME Shape, tick \/ \E c \in Conns : drop(c) \/ restore(c)
    PROVE  Shape'
  <1>1. cache \in [Servers -> [Keys -> Cached \cup {NotCached}]]
    BY DEF Shape, TypeOK
  <1>2. CASE tick
    <2>1. cache' = [s \in Servers |-> [k \in Keys |-> Older(cache[s][k])]]
          /\ UNCHANGED <<stores, editor, lock, call, links>>
      BY <1>2 DEF tick
    <2>2. \A s \in Servers, k \in Keys :
             /\ Older(cache[s][k]) \in Cached \cup {NotCached}
             /\ cache[s][k] # NotCached => Older(cache[s][k]) # NotCached
      <3>1. Older(NotCached) = NotCached
        BY DEF Older
      <3>2. ASSUME NEW s \in Servers, NEW k \in Keys
            PROVE  /\ Older(cache[s][k]) \in Cached \cup {NotCached}
                   /\ cache[s][k] # NotCached => Older(cache[s][k]) # NotCached
        <4>1. CASE cache[s][k] = NotCached
          BY <3>1, <4>1
        <4>2. CASE cache[s][k] \in Cached
          BY <4>2, OlderType
        <4> QED  BY <1>1, <4>1, <4>2
      <3> QED  BY <3>2
    <2>3. TypeOK'
      BY <2>1, <2>2 DEF Shape, TypeOK, stores, links
    <2>4. HasTheLock' /\ Prepared'
      <3>1. \A p \in Callers : call[p].at = "ping" /\ cached(p) # NotCached =>
              cache'[server(p)][call[p].key] # NotCached
        BY <2>1, <2>2, CallTypes DEF cached
      <3> QED  BY <2>1, <3>1, OthersStayReady
    <2> QED  BY <2>1, <2>3, <2>4 DEF Shape, EditsSomething
  <1>3. ASSUME NEW c \in Conns, drop(c) PROVE Shape'
    <2> DEFINE after(s, k) == IF cache[s][k] # NotCached /\ key_belongs_to(k, c)
                              THEN [cache[s][k] EXCEPT !.lost = TRUE] ELSE cache[s][k]
    <2>1. cache' = [s \in Servers |-> [k \in Keys |-> after(s, k)]]
          /\ UNCHANGED <<stores, editor, lock, call>>
          /\ reach' \subseteq reach /\ drops' = drops + 1
      BY <1>3 DEF drop
    <2>2. ASSUME NEW s \in Servers, NEW k \in Keys
          PROVE  /\ after(s, k) \in Cached \cup {NotCached}
                 /\ cache[s][k] # NotCached => after(s, k) # NotCached
      <3>1. CASE cache[s][k] = NotCached
        BY <3>1
      <3>2. CASE cache[s][k] \in Cached
        BY <3>2, OlderType
      <3> QED  BY <1>1, <3>1, <3>2
    <2> HIDE DEF after
    <2>3. TypeOK'
      BY <2>1, <2>2 DEF Shape, TypeOK, stores
    <2>4. HasTheLock' /\ Prepared'
      <3>1. \A p \in Callers : call[p].at = "ping" /\ cached(p) # NotCached =>
              cache'[server(p)][call[p].key] # NotCached
        BY <2>1, <2>2, CallTypes DEF cached
      <3> QED  BY <2>1, <3>1, OthersStayReady
    <2> QED  BY <2>1, <2>3, <2>4 DEF Shape, EditsSomething
  <1>4. ASSUME NEW c \in Conns, restore(c) PROVE Shape'
    <2>1. /\ UNCHANGED <<stores, editor, cache, lock, call, drops>>
          /\ reach' = reach \cup {c}
      BY <1>4 DEF restore
    <2> QED  BY <2>1 DEF Shape, TypeOK, HasTheLock, Prepared, EditsSomething, stores, cached,
                 server
  <1> QED  BY <1>2, <1>3, <1>4

LEMMA NextKeepsShape == Shape /\ [Next]_vars => Shape'
  <1> SUFFICES ASSUME Shape, [Next]_vars PROVE Shape'
    OBVIOUS
  <1>1. CASE UNCHANGED vars
    BY <1>1 DEF vars, Shape, TypeOK, HasTheLock, Prepared, EditsSomething, cached, server
  <1>2. CASE Next
    BY <1>2, CallersKeepShape, EditsKeepShape, WorldKeepsShape DEF Next
  <1> QED  BY <1>1, <1>2

(***************************************************************************)
(* Every variable keeps its shape, whoever has the lock of a cache is the  *)
(* one who builds in it, and an adapter that is about to be pinged is      *)
(* still there (adapter_for_target holds the lock across both).            *)
(***************************************************************************)
THEOREM ShapeHolds == Spec => []Shape
  BY InitShape, NextKeepsShape, PTL DEF Spec

-------------------------------------------------------------------------------
\* The same of a step to any place.
LEMMA AdvanceFrame ==
    ASSUME Shape, NEW p \in Callers, NEW at, Advance(p, at)
    PROVE  /\ \A q \in Callers \ {p} : call'[q] = call[q]
           /\ call'[p].at = at /\ call'[p].key = call[p].key
           /\ call'[p].job = call[p].job /\ call'[p].allowed = call[p].allowed
  BY CallTypes DEF Advance, Calls

(***************************************************************************)
(* What every step of a call keeps and where it may lead.                  *)
(***************************************************************************)
LEMMA ProceedFrame ==
    ASSUME Shape, NEW p \in Callers, Proceed(p)
    PROVE  /\ \A q \in Callers \ {p} : call'[q] = call[q]
           /\ call'[p].key = call[p].key /\ call'[p].job = call[p].job
           /\ call'[p].allowed = call[p].allowed
           /\ call[p].at \notin Resting /\ call'[p].at # "gate"
           /\ call[p].at = "gate" => call'[p].at \in Resting \/ permits(entry[conn(p)])
           /\ entry' = entry
  <1> USE DEF Resting
  <1>0. call \in [Callers -> Calls] /\ call[p] \in Calls
    BY CallTypes
  <1>1. CASE require_mcp_write(p)
    <2>1. entry' = entry /\ call[p].at = "gate"
      BY <1>1 DEF require_mcp_write, stores
    <2>2. CASE permits(entry[conn(p)]) /\ Advance(p, "want")
      BY <2>1, <2>2, AdvanceFrame
    <2>3. CASE Advance(p, "failed")
      BY <2>1, <2>3, AdvanceFrame
    <2> QED  BY <1>1, <2>2, <2>3 DEF require_mcp_write
  <1>2. CASE evict(p)
    BY <1>2, AdvanceFrame DEF evict, stores
  <1>3. CASE hit(p)
    <2>1. cached(p) \in Cached /\ hand_back(p, cached(p))
      BY <1>3, CallTypes DEF hit
    <2> QED  BY <1>3, <2>1, HandBackType DEF hit, stores
  <1>4. CASE miss(p)
    BY <1>4, AdvanceFrame DEF miss, stores
  <1>5. CASE ping(p)
    <2>1. cached(p) \in Cached
      BY <1>5, CallTypes DEF ping, Ready
    <2>2. entry' = entry /\ call[p].at = "ping"
      BY <1>5 DEF ping, stores
    <2>3. CASE hand_back(p, cached(p))
      BY <2>1, <2>2, <2>3, HandBackType
    <2>4. CASE Advance(p, "file")
      BY <2>2, <2>4, AdvanceFrame
    <2> QED  BY <1>5, <2>3, <2>4 DEF ping
  <1>6. CASE load(p)
    <2> DEFINE next(made) == [call[p] EXCEPT !.at = "keyring", !.built = made]
    <2>1. entry' = entry /\ call[p].at = "file"
      BY <1>6 DEF load, stores
    <2>2. CASE fail(p)
      BY <2>1, <2>2, AdvanceFrame DEF fail
    <2>3. ASSUME NEW made, call' = [call EXCEPT ![p].at = "keyring", ![p].built = made]
          PROVE  /\ \A q \in Callers \ {p} : call'[q] = call[q]
                 /\ call'[p].key = call[p].key /\ call'[p].job = call[p].job
                 /\ call'[p].allowed = call[p].allowed /\ call'[p].at = "keyring"
      BY <1>0, <2>3 DEF Calls
    <2>4. CASE \E made : call' = [call EXCEPT ![p].at = "keyring", ![p].built = made]
      BY <2>1, <2>3, <2>4
    <2> QED  BY <1>6, <2>2, <2>4 DEF load
  <1>7. CASE keyring(p)
    <2>1. entry' = entry /\ call[p].at = "keyring"
      BY <1>7 DEF keyring, stores
    <2>2. CASE fail(p)
      BY <2>1, <2>2, AdvanceFrame DEF fail
    <2>3. CASE call' = [call EXCEPT ![p].at = "connect", ![p].built.sec = secret[conn(p)]]
      BY <1>0, <2>1, <2>3 DEF Calls
    <2> QED  BY <1>7, <2>2, <2>3 DEF keyring
  <1>8. CASE connect(p)
    <2>1. connected(call[p].built) \in Cached
      BY <1>8, CallTypes, BoundAssumption DEF connect, Ready, connected, Cached
    <2>2. entry' = entry /\ call[p].at = "connect"
      BY <1>8 DEF connect, stores
    <2>3. CASE hand_back(p, connected(call[p].built))
      BY <2>1, <2>2, <2>3, HandBackType
    <2>4. CASE fail(p)
      BY <2>2, <2>4, AdvanceFrame DEF fail
    <2> QED  BY <1>8, <2>3, <2>4 DEF connect
  <1>9. CASE use(p)
    BY <1>9, AdvanceFrame DEF use, stores
  <1> QED  BY <1>1, <1>2, <1>3, <1>4, <1>5, <1>6, <1>7, <1>8, <1>9 DEF Proceed

\* What every step of an edit makes of the calls.
LEMMA EditFrame ==
    ASSUME Shape, NEW e \in Editors, Edit(e)
    PROVE  \E c \in Conns :
             /\ Observe(e, c)
             /\ \A d \in Conns \ {c} : entry'[d] = entry[d]
             /\ entry' \in [Conns -> Entries] /\ secret' \in [Conns -> Versions]
  <1>1. Shape'
    BY EditsKeepShape
  <1>2. entry' \in [Conns -> Entries] /\ secret' \in [Conns -> Versions]
        /\ entry \in [Conns -> Entries]
    BY <1>1 DEF Shape, TypeOK
  <1>3. editor[e].at # "idle" => editor[e].conn \in Conns
    BY DEF Shape, EditsSomething
  <1>4. CASE write_secret(e)
    BY <1>2, <1>4 DEF write_secret
  <1>5. CASE save_entry(e)
    BY <1>2, <1>3, <1>5 DEF save_entry
  <1>6. CASE save_fails(e)
    BY <1>2, <1>3, <1>6 DEF save_fails
  <1>7. CASE update_entry(e)
    BY <1>2, <1>7 DEF update_entry
  <1>8. CASE delete(e)
    BY <1>2, <1>8 DEF delete
  <1>9. CASE purge(e)
    BY <1>2, <1>3, <1>9 DEF purge
  <1>10. CASE invalidate(e)
    BY <1>2, <1>3, <1>10 DEF invalidate
  <1> QED  BY <1>4, <1>5, <1>6, <1>7, <1>8, <1>9, <1>10 DEF Edit

-------------------------------------------------------------------------------
(***************************************************************************)
(* Permissions.  A write that has passed the gate was allowed when it      *)
(* passed; one that has not passed it knows what connections.toml said     *)
(* since it began, so that it is allowed if it is going to pass.           *)
(***************************************************************************)
GateIsHonest ==
    \A p \in Callers : call[p].job = "write" =>
        /\ call[p].at = "gate" /\ permits(entry[conn(p)]) => call[p].allowed
        /\ call[p].at \notin Resting \cup {"gate"} => call[p].allowed

LEMMA NextKeepsTheGateHonest == Shape /\ GateIsHonest /\ [Next]_vars => GateIsHonest'
  <1> SUFFICES ASSUME Shape, GateIsHonest, [Next]_vars PROVE GateIsHonest'
    OBVIOUS
  <1>1. ASSUME NEW p \in Callers, begin(p) PROVE GateIsHonest'
    <2>1. entry' = entry
      BY <1>1 DEF begin, stores
    <2> QED  BY <1>1, <2>1, BeginType DEF GateIsHonest, conn, Resting
  <1>2. ASSUME NEW p \in Callers, Proceed(p) PROVE GateIsHonest'
    <2> SUFFICES ASSUME NEW q \in Callers, call'[q].job = "write"
                 PROVE  /\ call'[q].at = "gate" /\ permits(entry'[conn(q)']) => call'[q].allowed
                        /\ call'[q].at \notin Resting \cup {"gate"} => call'[q].allowed
      BY DEF GateIsHonest
    <2>1. CASE q # p
      BY <1>2, <2>1, ProceedFrame DEF GateIsHonest, conn
    <2>2. CASE q = p
      BY <1>2, <2>2, ProceedFrame DEF GateIsHonest, conn
    <2> QED  BY <2>1, <2>2
  <1>3. ASSUME NEW e \in Editors, Edit(e) PROVE GateIsHonest'
    <2>1. PICK c \in Conns :
             /\ Observe(e, c)
             /\ \A d \in Conns \ {c} : entry'[d] = entry[d]
             /\ entry' \in [Conns -> Entries] /\ secret' \in [Conns -> Versions]
      BY <1>3, EditFrame
    <2> SUFFICES ASSUME NEW q \in Callers, call'[q].job = "write"
                 PROVE  /\ call'[q].at = "gate" /\ permits(entry'[conn(q)']) => call'[q].allowed
                        /\ call'[q].at \notin Resting \cup {"gate"} => call'[q].allowed
      BY DEF GateIsHonest
    <2>2. /\ call'[q].at = call[q].at /\ call'[q].job = call[q].job /\ call'[q].key = call[q].key
          /\ call[q].allowed => call'[q].allowed
          /\ call[q].at \notin Resting /\ conn(q) = c /\ permits(entry'[c]) => call'[q].allowed
      BY <2>1, Observed DEF Shape
    <2>3. conn(q)' = conn(q) /\ conn(q) \in Conns
      BY <2>2, CallTypes DEF conn
    <2>4. CASE conn(q) = c
      BY <2>2, <2>3, <2>4 DEF GateIsHonest, Resting
    <2>5. CASE conn(q) # c
      BY <2>1, <2>2, <2>3, <2>5 DEF GateIsHonest
    <2> QED  BY <2>4, <2>5
  <1>4. CASE tick \/ \E c \in Conns : drop(c) \/ restore(c)
    <2>1. call' = call /\ entry' = entry
      BY <1>4 DEF tick, drop, restore, stores
    <2> QED  BY <2>1 DEF GateIsHonest, conn
  <1>5. CASE UNCHANGED vars
    BY <1>5 DEF vars, GateIsHonest, conn
  <1> QED  BY <1>1, <1>2, <1>3, <1>4, <1>5 DEF Next

(***************************************************************************)
(* A write reaches an engine only if its connection permitted writes at    *)
(* some moment of the call, for any edits and any other calls beside it    *)
(* (require_mcp_write in run_write).                                       *)
(***************************************************************************)
THEOREM WritesNeedPermission == Spec => []WritesWereAllowed
  <1>1. Init => GateIsHonest
    BY DEF Init, GateIsHonest
  <1>2. GateIsHonest => WritesWereAllowed
    BY DEF GateIsHonest, WritesWereAllowed, Resting
  <1> QED  BY <1>1, <1>2, NextKeepsTheGateHonest, ShapeHolds, PTL DEF Spec

-------------------------------------------------------------------------------
(***************************************************************************)
(* Dead links.  An adapter's link has not been lost for longer than the    *)
(* adapter has not answered: using it does not make it young.              *)
(***************************************************************************)
Ages(c) == c.lostFor <= c.age /\ (c.lost \/ c.lostFor = 0)
DeadMeansSilent ==
    \A s \in Servers, k \in Keys : cache[s][k] # NotCached => Ages(cache[s][k])

LEMMA AgesStand ==
    ASSUME NEW c \in Cached, Ages(c)
    PROVE  Ages(Older(c)) /\ Ages([c EXCEPT !.lost = TRUE])
  <1>1. /\ c.age \in 0 .. Idle /\ c.lostFor \in 0 .. Idle /\ Idle \in Nat
    BY BoundAssumption DEF Cached
  <1>2. [c EXCEPT !.lost = TRUE].lost
    BY DEF Cached
  <1>3. Older(c).lostFor <= Older(c).age
    <2>1. Older(c).age = IF c.age < Idle THEN c.age + 1 ELSE c.age
      BY OlderType
    <2>2. \/ Older(c).lostFor = c.lostFor
          \/ c.lostFor < Idle /\ Older(c).lostFor = c.lostFor + 1
      BY OlderType
    <2>3. c.lostFor <= c.age
      BY DEF Ages
    <2> QED  BY <1>1, <2>1, <2>2, <2>3
  <1>4. Older(c).lost \/ Older(c).lostFor = 0
    <2>1. CASE c.lost
      <3>1. Older(c).lost = c.lost
        BY OlderType
      <3> QED  BY <2>1, <3>1
    <2>2. CASE ~c.lost
      <3>1. c.lostFor = 0
        BY <2>2 DEF Ages
      <3>2. Older(c).lostFor = c.lostFor
        BY <2>2, OlderType
      <3> QED  BY <3>1, <3>2
    <2> QED  BY <2>1, <2>2
  <1>5. [c EXCEPT !.lost = TRUE].lostFor <= [c EXCEPT !.lost = TRUE].age
    BY OlderType DEF Ages
  <1> QED  BY <1>2, <1>3, <1>4, <1>5 DEF Ages

\* Where a step of a call leaves its caller and the caches.
LEMMA ProceedKeepsAges ==
    ASSUME Shape, DeadMeansSilent, NEW p \in Callers, Proceed(p)
    PROVE  /\ DeadMeansSilent'
           /\ call'[p].at = "handed" => call'[p].lostFor < Idle
  <1>0. /\ cache \in [Servers -> [Keys -> Cached \cup {NotCached}]]
        /\ server(p) \in Servers /\ call[p].key \in Keys /\ conn(p) \in Conns
        /\ cached(p) # NotCached => Ages(cached(p)) /\ cached(p) \in Cached
        /\ Idle \in Nat \ {0}
    BY CallTypes, BoundAssumption DEF DeadMeansSilent, cached
  <1>1. CASE require_mcp_write(p)
    <2>1. cache' = cache /\ (Advance(p, "want") \/ Advance(p, "failed"))
      BY <1>1 DEF require_mcp_write
    <2> QED  BY <2>1, AdvanceFrame DEF DeadMeansSilent, Resting
  <1>2. CASE evict(p)
    <2>1. cache' = evicted(server(p), conn(p)) /\ call'[p].at = "want"
      BY <1>2, AdvanceFrame DEF evict
    <2>2. ASSUME NEW s \in Servers, NEW k \in Keys
          PROVE  cache'[s][k] \in {cache[s][k], NotCached}
      <3>1. CASE s = server(p)
        <4>1. evicted(server(p), conn(p))[server(p)][k] =
                 IF key_belongs_to(k, conn(p)) THEN NotCached ELSE cache[server(p)][k]
          BY <1>0, EvictedType
        <4> QED  BY <2>1, <3>1, <4>1
      <3>2. CASE s # server(p)
        <4>1. evicted(server(p), conn(p))[s] = cache[s]
          BY <1>0, <3>2, EvictedType
        <4> QED  BY <2>1, <4>1
      <3> QED  BY <3>1, <3>2
    <2> QED  BY <2>1, <2>2 DEF DeadMeansSilent
  <1>3. CASE hit(p)
    <2>1. cached(p) \in Cached /\ hand_back(p, cached(p)) /\ cached(p).age < Idle
          /\ Ages(cached(p)) /\ cache' = cache
      BY <1>0, <1>3 DEF hit
    <2>2. call'[p].lostFor = cached(p).lostFor
      BY <2>1, HandBackType
    <2>3. cached(p).lostFor < Idle
      BY <1>0, <2>1 DEF Ages, Cached
    <2> QED  BY <2>1, <2>2, <2>3 DEF DeadMeansSilent
  <1>4. CASE miss(p)
    <2>1. cache' = cache /\ (Advance(p, "file") \/ Advance(p, "ping"))
      BY <1>4 DEF miss
    <2> QED  BY <2>1, AdvanceFrame DEF DeadMeansSilent
  <1>5. CASE ping(p)
    <2>1. cached(p) \in Cached /\ Ages(cached(p))
      BY <1>0, <1>5, CallTypes DEF ping, Ready
    <2>2. CASE /\ ~cached(p).lost /\ hand_back(p, cached(p))
               /\ cache' = [cache EXCEPT ![server(p)][call[p].key].age = 0]
      <3>1. cached(p).lostFor = 0
        BY <2>1, <2>2 DEF Ages
      <3> DEFINE young == [cached(p) EXCEPT !.age = 0]
      <3>2. young.lostFor = 0 /\ young.age = 0
        BY <2>1, <3>1 DEF Cached
      <3>3. cache' = [cache EXCEPT ![server(p)] = [@ EXCEPT ![call[p].key] = young]]
        BY <2>2 DEF cached
      <3>4. Ages(young)
        BY <3>2 DEF Ages
      <3> HIDE DEF young
      <3>5. \A s \in Servers, k \in Keys : cache'[s][k] \in {cache[s][k], young}
        BY <1>0, <3>3
      <3>6. DeadMeansSilent'
        BY <3>4, <3>5 DEF DeadMeansSilent
      <3>7. call'[p].lostFor = 0
        BY <2>1, <2>2, <3>1, HandBackType
      <3> QED  BY <1>0, <3>6, <3>7
    <2>3. CASE /\ cache' = [cache EXCEPT ![server(p)][call[p].key] = NotCached]
               /\ Advance(p, "file")
      <3>1. \A s \in Servers, k \in Keys : cache'[s][k] \in {cache[s][k], NotCached}
        BY <1>0, <2>3
      <3> QED  BY <2>3, <3>1, AdvanceFrame DEF DeadMeansSilent
    <2> QED  BY <1>5, <2>2, <2>3 DEF ping
  <1>6. CASE load(p)
    <2>1. cache' = cache
      BY <1>6 DEF load, fail
    <2>2. CASE fail(p)
      BY <2>1, <2>2, AdvanceFrame DEF fail, DeadMeansSilent, Resting
    <2>3. ASSUME NEW made, call' = [call EXCEPT ![p].at = "keyring", ![p].built = made]
          PROVE  call'[p].at = "keyring"
      BY <2>3, CallTypes DEF Calls
    <2>4. CASE \E made : call' = [call EXCEPT ![p].at = "keyring", ![p].built = made]
      BY <2>1, <2>3, <2>4 DEF DeadMeansSilent
    <2> QED  BY <1>6, <2>2, <2>4 DEF load
  <1>7. CASE keyring(p)
    <2>1. cache' = cache
      BY <1>7 DEF keyring, fail
    <2>2. CASE fail(p)
      BY <2>1, <2>2, AdvanceFrame DEF fail, DeadMeansSilent, Resting
    <2>3. CASE call' = [call EXCEPT ![p].at = "connect", ![p].built.sec = secret[conn(p)]]
      <3>1. call'[p].at = "connect"
        BY <2>3, CallTypes DEF Calls
      <3> QED  BY <2>1, <3>1 DEF DeadMeansSilent
    <2> QED  BY <1>7, <2>2, <2>3 DEF keyring
  <1>8. CASE connect(p)
    <2> DEFINE c == connected(call[p].built)
    <2>1. c \in Cached /\ c.lostFor = 0 /\ c.age = 0
      BY <1>8, CallTypes, BoundAssumption DEF connect, Ready, connected, Cached
    <2>2. CASE /\ cache' = [cache EXCEPT ![server(p)][call[p].key] = c] /\ hand_back(p, c)
      <3> HIDE DEF c
      <3>1. \A s \in Servers, k \in Keys : cache'[s][k] \in {cache[s][k], c}
        BY <1>0, <2>2
      <3>2. Ages(c)
        BY <2>1 DEF Ages
      <3>3. DeadMeansSilent'
        BY <3>1, <3>2 DEF DeadMeansSilent
      <3> QED  BY <1>0, <2>1, <2>2, <3>3, HandBackType
    <2>3. CASE fail(p)
      BY <2>3, AdvanceFrame DEF fail, DeadMeansSilent, Resting
    <2> QED  BY <1>8, <2>2, <2>3 DEF connect
  <1>9. CASE use(p)
    BY <1>9, AdvanceFrame DEF use, DeadMeansSilent, Resting
  <1> QED  BY <1>1, <1>2, <1>3, <1>4, <1>5, <1>6, <1>7, <1>8, <1>9 DEF Proceed

LEMMA NextKeepsAges ==
    Shape /\ DeadMeansSilent /\ WedgeIsBounded /\ [Next]_vars =>
        DeadMeansSilent' /\ WedgeIsBounded'
  <1> SUFFICES ASSUME Shape, DeadMeansSilent, WedgeIsBounded, [Next]_vars
               PROVE  DeadMeansSilent' /\ WedgeIsBounded'
    OBVIOUS
  <1>0. cache \in [Servers -> [Keys -> Cached \cup {NotCached}]]
    BY DEF Shape, TypeOK
  <1>1. ASSUME NEW p \in Callers, begin(p) PROVE DeadMeansSilent' /\ WedgeIsBounded'
    <2>1. cache' = cache
      BY <1>1 DEF begin
    <2> QED  BY <1>1, <2>1, BeginType DEF DeadMeansSilent, WedgeIsBounded
  <1>2. ASSUME NEW p \in Callers, Proceed(p) PROVE DeadMeansSilent' /\ WedgeIsBounded'
    BY <1>2, ProceedFrame, ProceedKeepsAges DEF WedgeIsBounded
  <1>3. ASSUME NEW e \in Editors, Edit(e) PROVE DeadMeansSilent' /\ WedgeIsBounded'
    <2>1. PICK c \in Conns :
             /\ Observe(e, c)
             /\ entry' \in [Conns -> Entries] /\ secret' \in [Conns -> Versions]
      BY <1>3, EditFrame
    <2>2. WedgeIsBounded'
      BY <2>1, Observed DEF Shape, WedgeIsBounded
    <2>3. \A s \in Servers, k \in Keys : cache'[s][k] \in {cache[s][k], NotCached}
      <3>1. CASE invalidate(e)
        <4>1. cache' = evicted(Desktop, editor[e].conn) /\ editor[e].conn \in Conns
          BY <3>1 DEF invalidate, Shape, EditsSomething
        <4> QED  BY <1>0, <4>1, ServerAssumption, EvictedType
      <3>2. CASE cache' = cache
        BY <3>2
      <3> QED  BY <1>3, <3>1, <3>2
               DEF Edit, write_secret, save_entry, save_fails, update_entry, delete, purge
    <2> QED  BY <2>2, <2>3 DEF DeadMeansSilent
  <1>4. CASE tick
    <2>1. call' = call /\ cache' = [s \in Servers |-> [k \in Keys |-> Older(cache[s][k])]]
      BY <1>4 DEF tick
    <2>2. ASSUME NEW s \in Servers, NEW k \in Keys, cache'[s][k] # NotCached
          PROVE  Ages(cache'[s][k])
      <3>1. cache'[s][k] = Older(cache[s][k])
        BY <2>1
      <3>2. cache[s][k] # NotCached
        BY <2>2, <3>1 DEF Older
      <3> QED  BY <1>0, <3>1, <3>2, AgesStand DEF DeadMeansSilent
    <2> QED  BY <2>1, <2>2 DEF DeadMeansSilent, WedgeIsBounded
  <1>5. ASSUME NEW c \in Conns, drop(c) PROVE DeadMeansSilent' /\ WedgeIsBounded'
    <2>1. call' = call /\ cache' = [s \in Servers |-> [k \in Keys |->
              IF cache[s][k] # NotCached /\ key_belongs_to(k, c)
              THEN [cache[s][k] EXCEPT !.lost = TRUE] ELSE cache[s][k]]]
      BY <1>5 DEF drop
    <2>2. ASSUME NEW s \in Servers, NEW k \in Keys, cache'[s][k] # NotCached
          PROVE  Ages(cache'[s][k])
      <3>1. \/ cache'[s][k] = cache[s][k]
            \/ cache[s][k] # NotCached /\ cache'[s][k] = [cache[s][k] EXCEPT !.lost = TRUE]
        BY <2>1
      <3> QED  BY <1>0, <2>2, <3>1, AgesStand DEF DeadMeansSilent
    <2> QED  BY <2>1, <2>2 DEF DeadMeansSilent, WedgeIsBounded
  <1>6. ASSUME NEW c \in Conns, restore(c) PROVE DeadMeansSilent' /\ WedgeIsBounded'
    BY <1>6 DEF restore, DeadMeansSilent, WedgeIsBounded
  <1>7. CASE UNCHANGED vars
    BY <1>7 DEF vars, DeadMeansSilent, WedgeIsBounded
  <1> QED  BY <1>1, <1>2, <1>3, <1>4, <1>5, <1>6, <1>7 DEF Next

(***************************************************************************)
(* An adapter whose link is dead is handed to nobody once the link has     *)
(* been dead for the idle limit, however many callers keep it busy         *)
(* (CachedAdapter, adapter_for_target).                                    *)
(***************************************************************************)
THEOREM WedgeEnds == Spec => []WedgeIsBounded
  <1>1. Init => DeadMeansSilent /\ WedgeIsBounded
    BY DEF Init, DeadMeansSilent, WedgeIsBounded
  <1> QED  BY <1>1, NextKeepsAges, ShapeHolds, PTL DEF Spec

-------------------------------------------------------------------------------
(***************************************************************************)
(* What an adapter is made of: nothing but connect puts one into a cache,  *)
(* and that one was made of the entry and the secret as they were read.    *)
(***************************************************************************)
LEMMA WhereAdaptersComeFrom ==
    ASSUME Shape, NEW p \in Callers, Proceed(p), NEW s \in Servers, NEW k \in Keys,
           cache'[s][k] # NotCached
    PROVE  \/ /\ cache[s][k] # NotCached
              /\ cache'[s][k].adapter = cache[s][k].adapter
           \/ /\ s = server(p) /\ k = call[p].key /\ call[p].at = "connect"
              /\ cache'[s][k].adapter = call[p].built
  <1>0. /\ cache \in [Servers -> [Keys -> Cached \cup {NotCached}]]
        /\ server(p) \in Servers /\ call[p].key \in Keys /\ conn(p) \in Conns
    BY CallTypes
  <1>1. CASE cache' = cache
    BY <1>1
  <1>2. CASE evict(p)
    <2>1. cache' = evicted(server(p), conn(p))
      BY <1>2 DEF evict
    <2>2. cache'[s][k] \in {cache[s][k], NotCached}
      BY <1>0, <2>1, EvictedType
    <2> QED  BY <2>2
  <1>3. CASE ping(p)
    <2>1. cached(p) \in Cached
      BY <1>3, CallTypes DEF ping, Ready
    <2>2. CASE cache' = [cache EXCEPT ![server(p)][call[p].key].age = 0]
      <3> DEFINE young == [cached(p) EXCEPT !.age = 0]
      <3>1. young.adapter = cached(p).adapter /\ cached(p) # NotCached
        BY <2>1, OlderType DEF Cached
      <3>2. cache' = [cache EXCEPT ![server(p)] = [@ EXCEPT ![call[p].key] = young]]
        BY <2>2 DEF cached
      <3> HIDE DEF young
      <3>3. CASE s = server(p) /\ k = call[p].key
        BY <1>0, <3>1, <3>2, <3>3 DEF cached
      <3>4. CASE ~(s = server(p) /\ k = call[p].key)
        BY <1>0, <3>2, <3>4
      <3> QED  BY <3>3, <3>4
    <2>3. CASE cache' = [cache EXCEPT ![server(p)][call[p].key] = NotCached]
      <3>1. cache'[s][k] \in {cache[s][k], NotCached}
        BY <1>0, <2>3
      <3> QED  BY <3>1
    <2> QED  BY <1>3, <2>2, <2>3 DEF ping
  <1>4. CASE connect(p)
    <2> DEFINE c == connected(call[p].built)
    <2>1. c.adapter = call[p].built /\ call[p].at = "connect"
      BY <1>4 DEF connected, connect
    <2>2. CASE cache' = [cache EXCEPT ![server(p)][call[p].key] = c]
      <3> HIDE DEF c
      <3>1. CASE s = server(p) /\ k = call[p].key
        BY <1>0, <2>1, <2>2, <3>1
      <3>2. CASE ~(s = server(p) /\ k = call[p].key)
        BY <1>0, <2>2, <3>2
      <3> QED  BY <3>1, <3>2
    <2> QED  BY <1>1, <1>4, <2>2 DEF connect, fail
  <1> QED  BY <1>1, <1>2, <1>3, <1>4
           DEF Proceed, require_mcp_write, hit, miss, load, keyring, fail, use

LEMMA WhatIsBuilt ==
    ASSUME Shape, NEW p \in Callers, Proceed(p)
    PROVE  /\ call'[p].at = "keyring" =>
                 call'[p].built.ver = entry[conn(p)].ver /\ entry[conn(p)].ver # 0
           /\ call'[p].at = "connect" =>
                 /\ call[p].at = "keyring" /\ call'[p].built.ver = call[p].built.ver
                 /\ call'[p].built.sec = secret[conn(p)]
  <1>0. call \in [Callers -> Calls] /\ call[p] \in Calls
    BY CallTypes
  <1>1. CASE \/ \E at \in {"want", "failed", "file", "ping", "done"} : Advance(p, at)
             \/ fail(p)
    BY <1>1, AdvanceFrame DEF fail
  <1>2. CASE load(p) /\ ~fail(p)
    <2> DEFINE made == [key |-> call[p].key, ver |-> entry[conn(p)].ver, sec |-> 0]
    <2>1. entry[conn(p)].ver # 0
          /\ call' = [call EXCEPT ![p].at = "keyring", ![p].built = made]
      BY <1>2 DEF load
    <2>2. made.ver = entry[conn(p)].ver
      OBVIOUS
    <2> HIDE DEF made
    <2>3. call'[p].at = "keyring" /\ call'[p].built = made
      BY <1>0, <2>1 DEF Calls
    <2> QED  BY <2>1, <2>2, <2>3
  <1>3. CASE keyring(p) /\ ~fail(p)
    <2> DEFINE made == [call[p].built EXCEPT !.sec = secret[conn(p)]]
    <2>1. call[p].at = "keyring" /\ call[p].built \in Adapters
      BY <1>3, CallTypes DEF keyring, Ready
    <2>2. call' = [call EXCEPT ![p] = [call[p] EXCEPT !.at = "connect", !.built = made]]
      <3>1. call' = [call EXCEPT ![p].at = "connect", ![p].built.sec = secret[conn(p)]]
        BY <1>3 DEF keyring
      <3> QED  BY <3>1
    <2>3. made.ver = call[p].built.ver /\ made.sec = secret[conn(p)]
      BY <2>1 DEF Adapters
    <2> HIDE DEF made
    <2>4. call'[p].at = "connect" /\ call'[p].built = made
      BY <1>0, <2>2 DEF Calls
    <2> QED  BY <2>1, <2>3, <2>4
  <1>4. CASE \E c : hand_back(p, c)
    BY <1>0, <1>4 DEF hand_back, Calls
  <1> QED  BY <1>1, <1>2, <1>3, <1>4
           DEF Proceed, require_mcp_write, evict, hit, miss, ping, load, keyring, connect, use

-------------------------------------------------------------------------------
(***************************************************************************)
(* Currency.  An edit that replaces or deletes an entry is not over before *)
(* it has evicted; one that adds an entry evicts nothing, so that an       *)
(* adapter must not have been there before: while only adds of c are under *)
(* way, what is cached has the entry of c as it stands, which for an add   *)
(* is none.                                                                *)
(***************************************************************************)
EditsEvict == Edits \subseteq {"add", "update", "delete"}

OneAtTheStores ==
    \A e, f \in Editors : editor[e].at \in Storing /\ editor[f].at \in Storing => e = f
adding(e) == editor[e].at = "stored" /\ editor[e].kind = "add"
AddsAreNew == \A e \in Editors : adding(e) => entry[editor[e].conn].ver = 0
StoredKinds ==
    \A e \in Editors : editor[e].at = "stored" => editor[e].kind \in {"add", "update"}

onlyAdded(c) == \A e \in pending(c) : adding(e)
still(c) == pending(c) = {}

\* What the desktop keeps, and what it is making, is of the entry and the secret
\* that are stored.
Kept(c) ==
    \A k \in Keys : key_belongs_to(k, c) /\ cache[Desktop][k] # NotCached =>
        /\ cache[Desktop][k].adapter.ver # 0
        /\ onlyAdded(c) => cache[Desktop][k].adapter.ver = entry[c].ver
        /\ still(c) => cache[Desktop][k].adapter.sec = secret[c]
Made(c) ==
    \A p \in Callers : server(p) = Desktop /\ conn(p) = c =>
        /\ call[p].at \in {"keyring", "connect"} =>
              /\ call[p].built.ver # 0
              /\ onlyAdded(c) => call[p].built.ver = entry[c].ver
        /\ call[p].at = "connect" /\ still(c) => call[p].built.sec = secret[c]
Current == \A c \in Conns : Kept(c) /\ Made(c)

EditInv == OneAtTheStores /\ AddsAreNew /\ StoredKinds

LEMMA CallsKeepCurrent ==
    ASSUME Shape, Current, NEW p \in Callers, begin(p) \/ Proceed(p)
    PROVE  Current'
  <1>1. UNCHANGED <<entry, secret, editor>>
    BY DEF begin, Proceed, require_mcp_write, evict, hit, miss, ping, load, keyring, connect,
           use, stores
  <1> SUFFICES ASSUME NEW c \in Conns PROVE Kept(c)' /\ Made(c)'
    BY DEF Current
  <1>2. Kept(c) /\ Made(c)
    BY DEF Current
  <1>3. onlyAdded(c)' = onlyAdded(c) /\ still(c)' = still(c)
    BY <1>1 DEF onlyAdded, still, pending, adding
  <1>4. CASE begin(p)
    <2>1. cache' = cache
      BY <1>4 DEF begin
    <2> QED  BY <1>1, <1>2, <1>3, <1>4, <2>1, BeginType DEF Kept, Made, conn, server
  <1>5. CASE Proceed(p)
    <2>1. Kept(c)'
      <3> SUFFICES ASSUME NEW k \in Keys, key_belongs_to(k, c), cache'[Desktop][k] # NotCached
                   PROVE  /\ cache'[Desktop][k].adapter.ver # 0
                          /\ onlyAdded(c) => cache'[Desktop][k].adapter.ver = entry[c].ver
                          /\ still(c) => cache'[Desktop][k].adapter.sec = secret[c]
        BY <1>1, <1>3 DEF Kept
      <3>1. CASE /\ cache[Desktop][k] # NotCached
                 /\ cache'[Desktop][k].adapter = cache[Desktop][k].adapter
        BY <1>2, <3>1 DEF Kept
      <3>2. CASE /\ Desktop = server(p) /\ k = call[p].key /\ call[p].at = "connect"
                 /\ cache'[Desktop][k].adapter = call[p].built
        <4>1. conn(p) = c
          BY <3>2 DEF conn, key_belongs_to
        <4> QED  BY <1>2, <3>2, <4>1 DEF Made
      <3> QED  BY <1>5, <3>1, <3>2, ServerAssumption, WhereAdaptersComeFrom
    <2>2. Made(c)'
      <3> SUFFICES ASSUME NEW q \in Callers, server(q) = Desktop, conn(q)' = c
                   PROVE  /\ call'[q].at \in {"keyring", "connect"} =>
                                /\ call'[q].built.ver # 0
                                /\ onlyAdded(c) => call'[q].built.ver = entry[c].ver
                          /\ call'[q].at = "connect" /\ still(c) =>
                                call'[q].built.sec = secret[c]
        BY <1>1, <1>3 DEF Made, server
      <3>1. CASE q # p
        <4>1. call'[q] = call[q]
          BY <1>5, <3>1, ProceedFrame
        <4> QED  BY <1>2, <4>1 DEF Made, conn
      <3>2. CASE q = p
        <4>1. conn(p) = c
          BY <1>5, <3>2, ProceedFrame DEF conn
        <4> QED  BY <1>2, <1>5, <3>2, <4>1, WhatIsBuilt DEF Made
      <3> QED  BY <3>1, <3>2
    <2> QED  BY <2>1, <2>2
  <1> QED  BY <1>4, <1>5

\* Time and the links change no adapter and put none in a cache.
LEMMA WorldKeepsAdapters ==
    ASSUME Shape, tick \/ \E c \in Conns : drop(c) \/ restore(c),
           NEW k \in Keys, cache'[Desktop][k] # NotCached
    PROVE  cache[Desktop][k] # NotCached
           /\ cache'[Desktop][k].adapter = cache[Desktop][k].adapter
  <1>1. cache[Desktop][k] \in Cached \cup {NotCached}
    BY ServerAssumption DEF Shape, TypeOK
  <1>2. CASE cache'[Desktop][k] = cache[Desktop][k]
    BY <1>2
  <1>3. CASE cache'[Desktop][k] = Older(cache[Desktop][k])
    <2>1. cache[Desktop][k] # NotCached
      BY <1>3 DEF Older
    <2> QED  BY <1>1, <1>3, <2>1 DEF Older, Cached
  <1>4. CASE /\ cache[Desktop][k] # NotCached
             /\ cache'[Desktop][k] = [cache[Desktop][k] EXCEPT !.lost = TRUE]
    BY <1>1, <1>4 DEF Cached
  <1>5. CASE tick
    <2>1. cache'[Desktop][k] = Older(cache[Desktop][k])
      BY <1>5, ServerAssumption DEF tick
    <2> QED  BY <1>3, <2>1
  <1>6. ASSUME NEW d \in Conns, drop(d)
        PROVE  \/ cache'[Desktop][k] = cache[Desktop][k]
               \/ /\ cache[Desktop][k] # NotCached
                  /\ cache'[Desktop][k] = [cache[Desktop][k] EXCEPT !.lost = TRUE]
    BY <1>6, ServerAssumption DEF drop
  <1>7. ASSUME NEW d \in Conns, restore(d) PROVE cache'[Desktop][k] = cache[Desktop][k]
    BY <1>7 DEF restore
  <1> QED  BY <1>2, <1>4, <1>5, <1>6, <1>7

LEMMA WorldKeepsCurrent ==
    ASSUME Shape, Current, tick \/ \E c \in Conns : drop(c) \/ restore(c)
    PROVE  Current'
  <1>1. UNCHANGED <<entry, secret, editor, call>>
    BY DEF tick, drop, restore, stores
  <1>2. \A k \in Keys : cache'[Desktop][k] # NotCached =>
          cache[Desktop][k] # NotCached /\ cache'[Desktop][k].adapter = cache[Desktop][k].adapter
    BY WorldKeepsAdapters
  <1>3. ASSUME NEW c \in Conns PROVE Kept(c)' /\ Made(c)'
    <2>1. onlyAdded(c)' = onlyAdded(c) /\ still(c)' = still(c)
      BY <1>1 DEF onlyAdded, still, pending, adding
    <2>2. Kept(c) /\ Made(c)
      BY DEF Current
    <2>3. Made(c)'
      BY <1>1, <2>1, <2>2 DEF Made, conn, server
    <2>4. Kept(c)'
      BY <1>1, <1>2, <2>1, <2>2 DEF Kept
    <2> QED  BY <2>3, <2>4
  <1> QED  BY <1>3 DEF Current

(***************************************************************************)
(* A step of an edit of c, as far as currency is concerned: it begins, it  *)
(* saves, it goes on, or it evicts and is over.                            *)
(***************************************************************************)
begins(e, c, next) ==
    /\ editor[e].at = "idle" /\ admin_free
    /\ next.at = "stored" /\ next.kind \in {"add", "update"} /\ next.conn = c
    /\ next.kind = "add" => entry[c].ver = 0
    /\ entry' = entry /\ cache' = cache
saves(e, c, next) ==
    /\ editor[e].at = "stored" /\ cache' = cache
    /\ \/ next.at = "idle" /\ editor[e].kind = "add"
       \/ next.at = "saved" /\ next.conn = c
goes_on(e, c, next) ==
    /\ next.conn = c /\ cache' = cache
    /\ \/ editor[e].at = "idle" /\ admin_free /\ next.at \in {"saved", "purging"}
       \/ editor[e].at = "purging" /\ next.at = "saved" /\ entry' = entry
evicts(e, c, next) ==
    /\ editor[e].at = "saved" /\ next.at = "idle" /\ entry' = entry
    /\ free(Desktop) /\ cache' = evicted(Desktop, c)
EditOf(e, c, next) ==
    /\ Observe(e, c)
    /\ editor' = [editor EXCEPT ![e] = next]
    /\ editor[e].at = "idle" \/ editor[e].conn = c
    /\ \A d \in Conns \ {c} : entry'[d] = entry[d] /\ secret'[d] = secret[d]
    /\ begins(e, c, next) \/ saves(e, c, next) \/ goes_on(e, c, next) \/ evicts(e, c, next)

LEMMA EditCases ==
    ASSUME Shape, EditsEvict, StoredKinds, NEW e \in Editors, Edit(e)
    PROVE  \E c \in Conns : \E next : EditOf(e, c, next)
  <1>0. /\ entry \in [Conns -> Entries] /\ secret \in [Conns -> Versions]
        /\ editor[e].at # "idle" => editor[e].conn \in Conns
        /\ NoEdit.at = "idle"
    BY EditorTypes
  <1>1. CASE write_secret(e)
    <2>1. PICK c \in Conns, kind \in Edits \cap {"add", "update", "import"} :
             /\ kind = "add" <=> entry[c].ver = 0
             /\ secret' = [secret EXCEPT ![c] = edits + 2]
             /\ editor' = [editor EXCEPT
                   ![e] = [at |-> "stored", kind |-> kind, conn |-> c, kept |-> secret[c]]]
             /\ UNCHANGED entry
             /\ Observe(e, c)
      BY <1>1 DEF write_secret
    <2>2. kind \in {"add", "update"} /\ editor[e].at = "idle" /\ admin_free /\ cache' = cache
      BY <1>1 DEF EditsEvict, write_secret
    <2>3. begins(e, c, [at |-> "stored", kind |-> kind, conn |-> c, kept |-> secret[c]])
      BY <2>1, <2>2 DEF begins
    <2> QED  BY <1>0, <2>1, <2>2, <2>3 DEF EditOf
  <1>2. CASE save_entry(e)
    <2> DEFINE c == editor[e].conn
    <2>1. PICK mcp_write \in MayWrite :
            entry' = [entry EXCEPT ![c] = [ver |-> edits + 2, mcp_write |-> mcp_write]]
      BY <1>2 DEF save_entry
    <2>2. /\ c \in Conns /\ editor[e].at = "stored" /\ secret' = secret /\ cache' = cache
          /\ Observe(e, c) /\ editor[e].kind \in {"add", "update"}
          /\ IF editor[e].kind = "update" THEN Stand(e, "saved") ELSE Over(e)
      BY <1>0, <1>2 DEF save_entry, StoredKinds
    <2>3. PICK next : editor' = [editor EXCEPT ![e] = next] /\ saves(e, c, next)
      <3>1. CASE editor[e].kind = "update"
        <4> DEFINE after == [editor[e] EXCEPT !.at = "saved"]
        <4>1. editor' = [editor EXCEPT ![e] = after] /\ after.at = "saved" /\ after.conn = c
          BY <2>2, <3>1, EditorTypes
        <4> HIDE DEF after
        <4> QED  BY <2>2, <4>1 DEF saves
      <3>2. CASE editor[e].kind = "add"
        BY <1>0, <2>2, <3>2 DEF Over, saves
      <3> QED  BY <2>2, <3>1, <3>2
    <2>4. \A d \in Conns \ {c} : entry'[d] = entry[d] /\ secret'[d] = secret[d]
      BY <1>0, <2>1, <2>2
    <2> HIDE DEF c
    <2>5. editor[e].conn = c
      BY DEF c
    <2> QED  BY <2>2, <2>3, <2>4, <2>5 DEF EditOf
  <1>3. CASE save_fails(e)
    BY <1>3 DEF save_fails, EditsEvict
  <1>4. CASE update_entry(e)
    <2>1. PICK c \in Conns, mcp_write \in MayWrite :
             /\ entry' = [entry EXCEPT ![c] = [ver |-> edits + 2, mcp_write |-> mcp_write]]
             /\ editor' = [editor EXCEPT
                   ![e] = [at |-> "saved", kind |-> "update", conn |-> c, kept |-> 0]]
             /\ UNCHANGED secret
             /\ Observe(e, c)
      BY <1>4 DEF update_entry
    <2>2. editor[e].at = "idle" /\ admin_free /\ cache' = cache
      BY <1>4 DEF update_entry
    <2>3. goes_on(e, c, [at |-> "saved", kind |-> "update", conn |-> c, kept |-> 0])
      BY <2>2 DEF goes_on
    <2>4. \A d \in Conns \ {c} : entry'[d] = entry[d] /\ secret'[d] = secret[d]
      BY <1>0, <2>1
    <2> QED  BY <2>1, <2>2, <2>3, <2>4 DEF EditOf
  <1>5. CASE delete(e)
    <2>1. PICK c \in Conns :
             /\ entry' = [entry EXCEPT ![c].ver = 0]
             /\ editor' = [editor EXCEPT
                   ![e] = [at |-> "purging", kind |-> "delete", conn |-> c, kept |-> 0]]
             /\ UNCHANGED secret
             /\ Observe(e, c)
      BY <1>5 DEF delete
    <2>2. editor[e].at = "idle" /\ admin_free /\ cache' = cache
      BY <1>5 DEF delete
    <2>3. goes_on(e, c, [at |-> "purging", kind |-> "delete", conn |-> c, kept |-> 0])
      BY <2>2 DEF goes_on
    <2>4. \A d \in Conns \ {c} : entry'[d] = entry[d] /\ secret'[d] = secret[d]
      BY <1>0, <2>1
    <2> QED  BY <2>1, <2>2, <2>3, <2>4 DEF EditOf
  <1>6. CASE purge(e)
    <2> DEFINE after == [editor[e] EXCEPT !.at = "saved"]
               c == editor[e].conn
    <2>1. /\ c \in Conns /\ editor[e].at = "purging" /\ entry' = entry /\ cache' = cache
          /\ Observe(e, c) /\ secret' = [secret EXCEPT ![c] = 0]
      BY <1>0, <1>6 DEF purge
    <2>2. editor' = [editor EXCEPT ![e] = after] /\ after.at = "saved" /\ after.conn = c
      BY <1>6, EditorTypes DEF purge
    <2> HIDE DEF after
    <2>3. goes_on(e, c, after)
      BY <2>1, <2>2 DEF goes_on
    <2>4. \A d \in Conns \ {c} : entry'[d] = entry[d] /\ secret'[d] = secret[d]
      BY <1>0, <2>1
    <2> QED  BY <2>1, <2>2, <2>3, <2>4 DEF EditOf
  <1>7. CASE invalidate(e)
    <2> DEFINE c == editor[e].conn
    <2>1. /\ c \in Conns /\ evicts(e, c, NoEdit) /\ Observe(e, c)
          /\ editor' = [editor EXCEPT ![e] = NoEdit] /\ entry' = entry /\ secret' = secret
      BY <1>0, <1>7 DEF invalidate, Over, evicts
    <2> QED  BY <2>1 DEF EditOf
  <1> QED  BY <1>1, <1>2, <1>3, <1>4, <1>5, <1>6, <1>7 DEF Edit

\* The edits keep apart at the stores, and adds find nothing there.
LEMMA EditsKeepEditInv ==
    ASSUME Shape, EditInv, NEW e \in Editors, NEW c \in Conns, NEW next, EditOf(e, c, next)
    PROVE  EditInv'
  <1>1. /\ editor'[e] = next /\ \A f \in Editors \ {e} : editor'[f] = editor[f]
    BY DEF Shape, TypeOK, EditOf
  <1>2. OneAtTheStores'
    <2> SUFFICES ASSUME NEW f \in Editors \ {e}, next.at \in Storing PROVE editor[f].at \notin Storing
      BY <1>1 DEF OneAtTheStores, EditInv
    <2> QED  BY DEF EditOf, begins, saves, goes_on, evicts, admin_free, Storing
  <1>3. ASSUME NEW f \in Editors, adding(f)' PROVE entry'[editor'[f].conn].ver = 0
    <2>1. CASE f = e
      BY <1>1, <1>3, <2>1 DEF adding, EditOf, begins, saves, goes_on, evicts
    <2>2. CASE f # e
      <3>1. adding(f) /\ editor'[f] = editor[f] /\ entry[editor[f].conn].ver = 0
        BY <1>1, <1>3, <2>2 DEF adding, EditInv, AddsAreNew
      <3>2. editor[f].at \in Storing
        BY <3>1 DEF adding, Storing
      <3>3. entry' = entry
        BY <2>2, <3>2 DEF EditOf, begins, saves, goes_on, evicts, admin_free, EditInv,
              OneAtTheStores, Storing
      <3> QED  BY <3>1, <3>3
    <2> QED  BY <2>1, <2>2
  <1>4. StoredKinds'
    BY <1>1 DEF StoredKinds, EditInv, EditOf, begins, saves, goes_on, evicts
  <1> QED  BY <1>2, <1>3, <1>4 DEF EditInv, AddsAreNew

LEMMA EditsKeepCurrent ==
    ASSUME Shape, EditInv, Current, NEW e \in Editors, NEW c \in Conns, NEW next,
           EditOf(e, c, next), Edit(e)
    PROVE  Current'
  <1>1. /\ editor'[e] = next /\ \A f \in Editors \ {e} : editor'[f] = editor[f]
    BY DEF Shape, TypeOK, EditOf
  <1>2. \A p \in Callers :
           /\ call'[p].at = call[p].at /\ call'[p].key = call[p].key
           /\ call'[p].built = call[p].built /\ conn(p)' = conn(p) /\ server(p)' = server(p)
    <2>1. entry' \in [Conns -> Entries] /\ secret' \in [Conns -> Versions]
      BY EditFrame
    <2>2. Observe(e, c)
      BY DEF EditOf
    <2> QED  BY <2>1, <2>2, Observed DEF Shape, conn, server
  <1>3. cache' = cache \/ evicts(e, c, next)
    BY DEF EditOf, begins, saves, goes_on
  <1>4. ASSUME NEW d \in Conns \ {c} PROVE Kept(d)' /\ Made(d)'
    <2>1. Kept(d) /\ Made(d) /\ entry'[d] = entry[d] /\ secret'[d] = secret[d]
      BY DEF Current, EditOf
    <2>2. e \notin pending(d) /\ e \notin pending(d)'
      BY <1>1 DEF pending, EditOf, begins, saves, goes_on, evicts
    <2>3. pending(d)' = pending(d)
      BY <1>1, <2>2 DEF pending
    <2>4. \A f \in pending(d) : adding(f)' = adding(f)
      BY <1>1, <2>2 DEF adding, pending
    <2>5. onlyAdded(d)' = onlyAdded(d) /\ still(d)' = still(d)
      BY <2>3, <2>4 DEF onlyAdded, still
    <2>6. \A k \in Keys : key_belongs_to(k, d) => cache'[Desktop][k] = cache[Desktop][k]
      <3>1. CASE cache' = cache
        BY <3>1
      <3>2. CASE evicts(e, c, next)
        BY <3>2, ServerAssumption, EvictedType DEF evicts, key_belongs_to
      <3> QED  BY <1>3, <3>1, <3>2
    <2>7. Kept(d)'
      BY <2>1, <2>5, <2>6 DEF Kept
    <2>8. Made(d)'
      BY <1>2, <2>1, <2>5 DEF Made
    <2> QED  BY <2>7, <2>8
  <1>5. Kept(c) /\ Made(c)
    BY DEF Current
  <1>6. still(c)' => onlyAdded(c)'
    BY DEF still, onlyAdded
  <1>7. CASE begins(e, c, next)
    <2>1. e \in pending(c)' /\ ~still(c)' /\ e \notin pending(c)
      BY <1>1, <1>7 DEF pending, still, begins
    <2>2. onlyAdded(c)' => onlyAdded(c)
      <3> SUFFICES ASSUME onlyAdded(c)', NEW f \in pending(c) PROVE adding(f)
        BY DEF onlyAdded
      <3>1. f # e /\ f \in Editors
        BY <2>1 DEF pending
      <3>2. f \in pending(c)' /\ editor'[f] = editor[f]
        BY <1>1, <3>1 DEF pending
      <3> QED  BY <3>2 DEF onlyAdded, adding
    <2>3. entry' = entry /\ cache' = cache
      BY <1>7 DEF begins
    <2>4. Kept(c)'
      BY <1>5, <2>1, <2>2, <2>3 DEF Kept
    <2>5. Made(c)'
      BY <1>2, <1>5, <2>1, <2>2, <2>3 DEF Made
    <2> QED  BY <1>4, <2>4, <2>5 DEF Current
  <1>8. CASE ~onlyAdded(c)' /\ cache' = cache
    <2>1. Kept(c)'
      BY <1>5, <1>6, <1>8 DEF Kept
    <2>2. Made(c)'
      BY <1>2, <1>5, <1>6, <1>8 DEF Made
    <2> QED  BY <1>4, <2>1, <2>2 DEF Current
  <1>9. CASE saves(e, c, next) /\ onlyAdded(c)'
    <2>1. next.at = "idle" /\ adding(e) /\ editor[e].conn = c
      BY <1>1, <1>9 DEF saves, onlyAdded, adding, pending, EditOf
    <2>2. onlyAdded(c)
      <3> SUFFICES ASSUME NEW f \in pending(c) PROVE adding(f)
        BY DEF onlyAdded
      <3>1. CASE f = e
        BY <2>1, <3>1
      <3>2. CASE f # e
        <4>1. f \in pending(c)' /\ editor'[f] = editor[f]
          BY <1>1, <3>2 DEF pending
        <4> QED  BY <1>9, <4>1 DEF onlyAdded, adding
      <3> QED  BY <3>1, <3>2
    <2>3. entry[c].ver = 0
      BY <2>1 DEF EditInv, AddsAreNew
    <2>4. \A k \in Keys : key_belongs_to(k, c) => cache[Desktop][k] = NotCached
      BY <1>5, <2>2, <2>3 DEF Kept
    <2>5. \A p \in Callers : server(p) = Desktop /\ conn(p) = c =>
            call[p].at \notin {"keyring", "connect"}
      BY <1>5, <2>2, <2>3 DEF Made
    <2>6. cache' = cache
      BY <1>9 DEF saves
    <2>7. Kept(c)'
      BY <2>4, <2>6 DEF Kept
    <2>8. Made(c)'
      BY <1>2, <2>5 DEF Made
    <2> QED  BY <1>4, <2>7, <2>8 DEF Current
  <1>10. CASE goes_on(e, c, next)
    <2>1. e \in pending(c)' /\ ~adding(e)' /\ cache' = cache
      BY <1>1, <1>10 DEF goes_on, pending, adding
    <2> QED  BY <1>8, <2>1 DEF onlyAdded
  <1>11. CASE evicts(e, c, next)
    <2>1. \A k \in Keys : key_belongs_to(k, c) => cache'[Desktop][k] = NotCached
      BY <1>11, ServerAssumption, EvictedType DEF evicts
    <2>2. \A p \in Callers : server(p) = Desktop => call[p].at \notin {"keyring", "connect"}
      BY <1>11, NobodyAssumption DEF evicts, free, Shape, HasTheLock, Building
    <2>3. Kept(c)'
      BY <2>1 DEF Kept
    <2>4. Made(c)'
      BY <1>2, <2>2 DEF Made
    <2> QED  BY <1>4, <2>3, <2>4 DEF Current
  <1>12. CASE saves(e, c, next) /\ ~onlyAdded(c)'
    BY <1>8, <1>12 DEF saves
  <1> QED  BY <1>7, <1>9, <1>10, <1>11, <1>12 DEF EditOf

LEMMA NextKeepsCurrent ==
    ASSUME EditsEvict, Shape, EditInv, Current, [Next]_vars
    PROVE  EditInv' /\ Current'
  <1>1. ASSUME NEW p \in Callers, begin(p) \/ Proceed(p) PROVE EditInv' /\ Current'
    <2>1. UNCHANGED <<entry, secret, editor>>
      BY <1>1 DEF begin, Proceed, require_mcp_write, evict, hit, miss, ping, load, keyring,
              connect, use, stores
    <2> QED  BY <1>1, <2>1, CallsKeepCurrent
             DEF EditInv, OneAtTheStores, AddsAreNew, StoredKinds, adding
  <1>2. ASSUME NEW e \in Editors, Edit(e) PROVE EditInv' /\ Current'
    <2>1. PICK c \in Conns : \E next : EditOf(e, c, next)
      BY <1>2, EditCases DEF EditInv
    <2>2. PICK next : EditOf(e, c, next)
      BY <2>1
    <2> QED  BY <1>2, <2>2, EditsKeepEditInv, EditsKeepCurrent
  <1>3. CASE tick \/ \E c \in Conns : drop(c) \/ restore(c)
    <2>1. UNCHANGED <<entry, editor>>
      BY <1>3 DEF tick, drop, restore, stores
    <2> QED  BY <1>3, <2>1, WorldKeepsCurrent
             DEF EditInv, OneAtTheStores, AddsAreNew, StoredKinds, adding
  <1>4. CASE UNCHANGED vars
    <2>1. UNCHANGED <<entry, secret, editor, cache, call>>
      BY <1>4 DEF vars
    <2>2. EditInv'
      BY <2>1 DEF EditInv, OneAtTheStores, AddsAreNew, StoredKinds, adding
    <2>3. Current'
      BY <2>1 DEF Current, Kept, Made, onlyAdded, still, pending, adding, conn, server
    <2> QED  BY <2>2, <2>3
  <1> QED  BY <1>1, <1>2, <1>3, <1>4 DEF Next

LEMMA EditsKeepTheCacheCurrent ==
    ASSUME EditsEvict
    PROVE  Spec => [](EditInv /\ Current)
  <1>1. Init => EditInv /\ Current
    <2> SUFFICES ASSUME Init PROVE EditInv /\ Current
      OBVIOUS
    <2>1. \A e \in Editors : editor[e].at = "idle"
      BY DEF Init, NoEdit
    <2>2. \A k \in Keys : cache[Desktop][k] = NotCached
      BY ServerAssumption DEF Init
    <2>3. \A p \in Callers : call[p].at = "idle"
      BY DEF Init
    <2> QED  BY <2>1, <2>2, <2>3 DEF EditInv, OneAtTheStores, AddsAreNew, StoredKinds, adding,
                Storing, Current, Kept, Made
  <1>2. Shape /\ EditInv /\ Current /\ [Next]_vars => EditInv' /\ Current'
    BY NextKeepsCurrent
  <1> QED  BY <1>1, <1>2, ShapeHolds, PTL DEF Spec

(***************************************************************************)
(* While no edit of a connection is under way, what the desktop has cached *)
(* for it, and what it is building, is what the two stores hold: every     *)
(* edit evicts after it saved, and the lock is held across a build         *)
(* (invalidate, adapter_for_target).  An import evicts nothing, and a save *)
(* that fails evicts nothing either; both are left out by name.            *)
(***************************************************************************)
THEOREM CacheFollowsTheStores ==
    ASSUME EditsEvict
    PROVE  Spec => []CacheIsCurrent
  <1>1. Current => CacheIsCurrent
    <2> SUFFICES ASSUME Current, NEW c \in Conns, pending(c) = {}
                 PROVE  /\ \A k \in Keys : key_belongs_to(k, c) /\ cache[Desktop][k] # NotCached =>
                              /\ cache[Desktop][k].adapter.ver = entry[c].ver
                              /\ cache[Desktop][k].adapter.sec = secret[c]
                        /\ \A p \in Callers : server(p) = Desktop /\ conn(p) = c =>
                              /\ call[p].at \in {"keyring", "connect"} =>
                                    call[p].built.ver = entry[c].ver
                              /\ call[p].at = "connect" => call[p].built.sec = secret[c]
      BY DEF CacheIsCurrent
    <2>1. onlyAdded(c) /\ still(c) /\ Kept(c) /\ Made(c)
      BY DEF Current, onlyAdded, still
    <2> QED  BY <2>1 DEF Kept, Made
  <1> QED  BY <1>1, EditsKeepTheCacheCurrent, PTL

-------------------------------------------------------------------------------
(***************************************************************************)
(* What a call may have seen.  What is stored now is part of what was      *)
(* stored since the connection was last at rest, and a call knows of all   *)
(* of that.  What the desktop has cached, and what it builds, was stored   *)
(* in that time as well: when the time starts anew, the cache has just     *)
(* been evicted, with nobody building, or the entry was only now added.    *)
(***************************************************************************)
Stored(c) == entry[c].ver \in recent[c].vers /\ secret[c] \in recent[c].secs
CachedSince(c) ==
    \A k \in Keys : key_belongs_to(k, c) /\ cache[Desktop][k] # NotCached =>
        /\ cache[Desktop][k].adapter.ver \in recent[c].vers
        /\ cache[Desktop][k].adapter.sec \in recent[c].secs
MadeSince(c) ==
    \A p \in Callers : server(p) = Desktop /\ conn(p) = c =>
        /\ call[p].at \in {"keyring", "connect"} => call[p].built.ver \in recent[c].vers
        /\ call[p].at = "connect" => call[p].built.sec \in recent[c].secs
KnowsOf(p) ==
    call[p].at \notin Resting =>
        /\ recent[conn(p)].vers \subseteq call[p].vers
        /\ recent[conn(p)].secs \subseteq call[p].secs
HandedInTime(p) ==
    server(p) = Desktop /\ call[p].at = "handed" =>
        call[p].built.ver \in call[p].vers /\ call[p].built.sec \in call[p].secs
Seen ==
    /\ \A c \in Conns : Stored(c) /\ CachedSince(c) /\ MadeSince(c)
    /\ \A p \in Callers : KnowsOf(p) /\ HandedInTime(p)

\* What a step of a call does to its history and where it gets its adapter.
LEMMA WhatIsHanded ==
    ASSUME Shape, NEW p \in Callers, Proceed(p)
    PROVE  /\ call'[p].vers = call[p].vers /\ call'[p].secs = call[p].secs
           /\ call'[p].at = "handed" =>
                 \/ cached(p) # NotCached /\ call'[p].built = cached(p).adapter
                 \/ call[p].at = "connect" /\ call'[p].built = call[p].built
  <1>0. call \in [Callers -> Calls] /\ call[p] \in Calls
    BY CallTypes
  <1>1. ASSUME NEW at, at # "handed", Advance(p, at)
        PROVE  /\ call'[p].vers = call[p].vers /\ call'[p].secs = call[p].secs
               /\ call'[p].at = at
    BY <1>0, <1>1 DEF Advance, Calls
  <1>2. CASE \/ \E at \in {"want", "failed", "file", "ping", "done"} : Advance(p, at)
             \/ fail(p)
    BY <1>1, <1>2 DEF fail
  <1>3. ASSUME NEW c, hand_back(p, c)
        PROVE  /\ call'[p].vers = call[p].vers /\ call'[p].secs = call[p].secs
               /\ call'[p].built = c.adapter
    <2> DEFINE next == [call[p] EXCEPT !.at = "handed", !.built = c.adapter,
                                       !.lostFor = c.lostFor]
    <2>1. call' = [call EXCEPT ![p] = next]
      BY <1>0, <1>3 DEF hand_back
    <2>2. next.vers = call[p].vers /\ next.secs = call[p].secs /\ next.built = c.adapter
      BY <1>0 DEF Calls
    <2> HIDE DEF next
    <2> QED  BY <1>0, <2>1, <2>2
  <1>4. CASE hit(p)
    BY <1>3, <1>4 DEF hit
  <1>5. CASE ping(p) /\ hand_back(p, cached(p))
    BY <1>3, <1>5, CallTypes DEF ping, Ready
  <1>6. CASE connect(p) /\ hand_back(p, connected(call[p].built))
    <2>1. connected(call[p].built).adapter = call[p].built
      BY DEF connected
    <2> QED  BY <1>3, <1>6, <2>1 DEF connect
  <1>7. CASE load(p) /\ ~fail(p)
    <2> DEFINE made == [key |-> call[p].key, ver |-> entry[conn(p)].ver, sec |-> 0]
    <2>1. call' = [call EXCEPT ![p].at = "keyring", ![p].built = made]
      BY <1>7 DEF load
    <2> HIDE DEF made
    <2> QED  BY <1>0, <2>1 DEF Calls
  <1>8. CASE keyring(p) /\ ~fail(p)
    <2> DEFINE made == [call[p].built EXCEPT !.sec = secret[conn(p)]]
    <2>1. call' = [call EXCEPT ![p].at = "connect", ![p].built.sec = secret[conn(p)]]
      BY <1>8 DEF keyring
    <2>2. call' = [call EXCEPT ![p] = [call[p] EXCEPT !.at = "connect", !.built = made]]
      BY <2>1
    <2> HIDE DEF made
    <2> QED  BY <1>0, <2>2 DEF Calls
  <1> QED  BY <1>2, <1>4, <1>5, <1>6, <1>7, <1>8
           DEF Proceed, require_mcp_write, evict, miss, ping, load, keyring, connect, use

\* A call that begins knows of all that is recent.
LEMMA BeginKnows ==
    ASSUME Shape, NEW p \in Callers, begin(p)
    PROVE  /\ call'[p].vers = recent[call'[p].key[1]].vers
           /\ call'[p].secs = recent[call'[p].key[1]].secs
  <1>0. call \in [Callers -> Calls]
    BY CallTypes
  <1>1. PICK job \in Jobs, key \in Keys :
          call' = [call EXCEPT
               ![p] = [ at |-> FirstStep(job), job |-> job, key |-> key, built |-> Nobody,
                        lostFor |-> 0, vers |-> recent[key[1]].vers,
                        secs |-> recent[key[1]].secs, allowed |-> permits(entry[key[1]]) ]]
    BY DEF begin
  <1> QED  BY <1>0, <1>1

LEMMA CallsKeepSeen ==
    ASSUME Shape, Seen, NEW p \in Callers, begin(p) \/ Proceed(p)
    PROVE  Seen'
  <1>1. UNCHANGED stores
    BY DEF begin, Proceed, require_mcp_write, evict, hit, miss, ping, load, keyring, connect, use
  <1>2. UNCHANGED <<entry, secret, recent>>
    BY <1>1 DEF stores
  <1>3. ASSUME NEW c \in Conns PROVE Stored(c)'
    BY <1>2 DEF Seen, Stored
  <1>4. conn(p) \in Conns /\ call[p].key \in Keys
    BY CallTypes
  <1>5. \A q \in Callers \ {p} : call'[q] = call[q]
    BY BeginType, ProceedFrame
  <1>6. ASSUME NEW q \in Callers \ {p}
        PROVE  KnowsOf(q)' /\ HandedInTime(q)'
    <2>1. call'[q] = call[q] /\ KnowsOf(q) /\ HandedInTime(q)
      BY <1>5 DEF Seen
    <2> QED  BY <1>2, <2>1 DEF KnowsOf, HandedInTime, conn, server
  <1>7. CASE begin(p)
    <2>1. cache' = cache
      BY <1>7 DEF begin
    <2>2. ASSUME NEW c \in Conns PROVE CachedSince(c)'
      BY <1>2, <2>1 DEF Seen, CachedSince
    <2>3. call'[p].at \in {"gate", "evict", "want"}
      BY <1>7, BeginType
    <2>4. ASSUME NEW c \in Conns PROVE MadeSince(c)'
      <3>1. MadeSince(c)
        BY DEF Seen
      <3> QED  BY <1>2, <1>5, <2>3, <3>1 DEF MadeSince, conn, server
    <2>5. KnowsOf(p)' /\ HandedInTime(p)'
      BY <1>2, <1>7, <2>3, BeginKnows DEF KnowsOf, HandedInTime, conn
    <2> QED  BY <1>3, <1>6, <2>2, <2>4, <2>5 DEF Seen
  <1>8. CASE Proceed(p)
    <2>1. call'[p].key = call[p].key /\ call[p].at \notin Resting
      BY <1>8, ProceedFrame
    <2>2. Stored(conn(p)) /\ CachedSince(conn(p)) /\ MadeSince(conn(p)) /\ KnowsOf(p)
      BY <1>4 DEF Seen
    <2>3. ASSUME NEW c \in Conns PROVE CachedSince(c)'
      <3> SUFFICES ASSUME NEW k \in Keys, key_belongs_to(k, c), cache'[Desktop][k] # NotCached
                   PROVE  /\ cache'[Desktop][k].adapter.ver \in recent[c].vers
                          /\ cache'[Desktop][k].adapter.sec \in recent[c].secs
        BY <1>2 DEF CachedSince
      <3>1. CASE /\ cache[Desktop][k] # NotCached
                 /\ cache'[Desktop][k].adapter = cache[Desktop][k].adapter
        BY <3>1 DEF Seen, CachedSince
      <3>2. CASE /\ Desktop = server(p) /\ k = call[p].key /\ call[p].at = "connect"
                 /\ cache'[Desktop][k].adapter = call[p].built
        <4>1. conn(p) = c
          BY <3>2 DEF conn, key_belongs_to
        <4> QED  BY <2>2, <3>2, <4>1 DEF MadeSince
      <3> QED  BY <1>8, <3>1, <3>2, ServerAssumption, WhereAdaptersComeFrom
    <2>4. ASSUME NEW c \in Conns PROVE MadeSince(c)'
      <3>1. MadeSince(c)
        BY DEF Seen
      <3>2. ASSUME conn(p) = c, server(p) = Desktop
            PROVE  /\ call'[p].at \in {"keyring", "connect"} =>
                         call'[p].built.ver \in recent[c].vers
                   /\ call'[p].at = "connect" => call'[p].built.sec \in recent[c].secs
        BY <1>8, <2>2, <3>2, WhatIsBuilt DEF Stored, MadeSince
      <3>3. conn(p)' = conn(p) /\ server(p)' = server(p)
        BY <2>1 DEF conn, server
      <3> QED  BY <1>2, <1>5, <3>1, <3>2, <3>3 DEF MadeSince, conn, server
    <2>5. KnowsOf(p)'
      BY <1>2, <1>8, <2>1, <2>2, WhatIsHanded DEF KnowsOf, conn
    <2>6. HandedInTime(p)'
      <3> SUFFICES ASSUME server(p) = Desktop, call'[p].at = "handed"
                   PROVE  call'[p].built.ver \in call[p].vers /\ call'[p].built.sec \in call[p].secs
        BY <1>8, WhatIsHanded DEF HandedInTime, server
      <3>1. CASE cached(p) # NotCached /\ call'[p].built = cached(p).adapter
        BY <1>4, <2>1, <2>2, <3>1 DEF CachedSince, KnowsOf, cached, key_belongs_to, conn
      <3>2. CASE call[p].at = "connect" /\ call'[p].built = call[p].built
        BY <2>1, <2>2, <3>2 DEF MadeSince, KnowsOf
      <3> QED  BY <1>8, <3>1, <3>2, WhatIsHanded
    <2> QED  BY <1>3, <1>6, <2>3, <2>4, <2>5, <2>6 DEF Seen
  <1> QED  BY <1>7, <1>8

LEMMA WorldKeepsSeen ==
    ASSUME Shape, Seen, tick \/ \E c \in Conns : drop(c) \/ restore(c)
    PROVE  Seen'
  <1>1. UNCHANGED <<entry, secret, recent, call>>
    BY DEF tick, drop, restore, stores
  <1>2. ASSUME NEW c \in Conns PROVE CachedSince(c)'
    BY <1>1, WorldKeepsAdapters DEF Seen, CachedSince
  <1>3. ASSUME NEW c \in Conns PROVE Stored(c)' /\ MadeSince(c)'
    BY <1>1 DEF Seen, Stored, MadeSince, conn, server
  <1>4. ASSUME NEW p \in Callers PROVE KnowsOf(p)' /\ HandedInTime(p)'
    BY <1>1 DEF Seen, KnowsOf, HandedInTime, conn, server
  <1> QED  BY <1>2, <1>3, <1>4 DEF Seen

\* What Observe makes of the histories.
LEMMA ObservedHistory ==
    ASSUME TypeOK, NEW e \in Editors, NEW c \in Conns, Observe(e, c),
           entry' \in [Conns -> Entries], secret' \in [Conns -> Versions]
    PROVE  /\ \A d \in Conns \ {c} : recent'[d] = recent[d]
           /\ recent'[c].vers \subseteq recent[c].vers \cup {entry'[c].ver}
           /\ recent'[c].secs \subseteq recent[c].secs \cup {secret'[c]}
           /\ entry'[c].ver \in recent'[c].vers /\ secret'[c] \in recent'[c].secs
           /\ \/ editor'[e] = NoEdit /\ pending(c) \subseteq {e}
              \/ recent[c].vers \subseteq recent'[c].vers /\ recent[c].secs \subseteq recent'[c].secs
           /\ \A p \in Callers : call[p].at \notin Resting =>
                 /\ call[p].vers \subseteq call'[p].vers /\ call[p].secs \subseteq call'[p].secs
                 /\ conn(p) = c => entry'[c].ver \in call'[p].vers /\ secret'[c] \in call'[p].secs
  <1> DEFINE now == [vers |-> {entry'[c].ver}, secs |-> {secret'[c]}]
             both == [vers |-> recent[c].vers \cup now.vers, secs |-> recent[c].secs \cup now.secs]
  <1>1. recent' = [recent EXCEPT ![c] =
              IF editor'[e] = NoEdit /\ pending(c) \subseteq {e} THEN now ELSE both]
    BY DEF Observe
  <1>2. recent \in [Conns -> [vers: SUBSET Versions, secs: SUBSET Versions]]
        /\ call \in [Callers -> Calls]
    BY DEF TypeOK
  <1>3. recent'[c] = IF editor'[e] = NoEdit /\ pending(c) \subseteq {e} THEN now ELSE both
    BY <1>1, <1>2
  <1>4. ASSUME NEW p \in Callers, call[p].at \notin Resting
        PROVE  /\ call[p].vers \subseteq call'[p].vers /\ call[p].secs \subseteq call'[p].secs
               /\ conn(p) = c => entry'[c].ver \in call'[p].vers /\ secret'[c] \in call'[p].secs
    <2>1. call'[p] = IF call[p].at \in Resting \/ conn(p) # c THEN call[p]
              ELSE [call[p] EXCEPT
                      !.vers = @ \cup {entry'[c].ver}, !.secs = @ \cup {secret'[c]},
                      !.allowed = @ \/ permits(entry'[c])]
      BY DEF Observe
    <2>2. CASE conn(p) # c
      BY <2>1, <2>2
    <2>3. CASE conn(p) = c
      <3>1. call'[p] = [call[p] EXCEPT
                      !.vers = @ \cup {entry'[c].ver}, !.secs = @ \cup {secret'[c]},
                      !.allowed = @ \/ permits(entry'[c])]
        BY <1>4, <2>1, <2>3
      <3>2. call'[p].vers = call[p].vers \cup {entry'[c].ver}
            /\ call'[p].secs = call[p].secs \cup {secret'[c]}
        BY <1>2, <3>1 DEF Calls
      <3> QED  BY <3>2
    <2> QED  BY <2>2, <2>3
  <1>5. \A d \in Conns \ {c} : recent'[d] = recent[d]
    BY <1>1, <1>2
  <1>6. /\ recent'[c].vers \subseteq recent[c].vers \cup {entry'[c].ver}
        /\ recent'[c].secs \subseteq recent[c].secs \cup {secret'[c]}
        /\ entry'[c].ver \in recent'[c].vers /\ secret'[c] \in recent'[c].secs
        /\ \/ editor'[e] = NoEdit /\ pending(c) \subseteq {e}
           \/ recent[c].vers \subseteq recent'[c].vers /\ recent[c].secs \subseteq recent'[c].secs
    BY <1>3
  <1> QED  BY <1>4, <1>5, <1>6

LEMMA EditsKeepSeen ==
    ASSUME Shape, EditInv, Current, Seen, NEW e \in Editors, NEW c \in Conns, NEW next,
           EditOf(e, c, next), Edit(e)
    PROVE  Seen'
  <1>1. editor'[e] = next
    BY DEF Shape, TypeOK, EditOf
  <1>2. TypeOK /\ Observe(e, c) /\ entry' \in [Conns -> Entries] /\ secret' \in [Conns -> Versions]
    BY EditFrame DEF Shape, EditOf
  <1>3. \A p \in Callers :
           /\ call'[p].at = call[p].at /\ call'[p].key = call[p].key
           /\ call'[p].built = call[p].built /\ conn(p)' = conn(p) /\ server(p)' = server(p)
    BY <1>2, Observed DEF conn, server
  <1>4. cache' = cache \/ evicts(e, c, next)
    BY DEF EditOf, begins, saves, goes_on
  <1>5. \A k \in Keys, d \in Conns : key_belongs_to(k, d) =>
            cache'[Desktop][k] = cache[Desktop][k] \/ cache'[Desktop][k] = NotCached
    BY <1>4, ServerAssumption, EvictedType DEF evicts
  <1>6. ASSUME NEW d \in Conns \ {c} PROVE Stored(d)' /\ CachedSince(d)' /\ MadeSince(d)'
    <2>1. recent'[d] = recent[d] /\ entry'[d] = entry[d] /\ secret'[d] = secret[d]
      BY <1>2, ObservedHistory DEF EditOf
    <2>2. Stored(d) /\ CachedSince(d) /\ MadeSince(d)
      BY DEF Seen
    <2>3. Stored(d)'
      BY <2>1, <2>2 DEF Stored
    <2>4. CachedSince(d)'
      BY <1>5, <2>1, <2>2 DEF CachedSince
    <2>5. MadeSince(d)'
      BY <1>3, <2>1, <2>2 DEF MadeSince
    <2> QED  BY <2>3, <2>4, <2>5
  <1>7. Stored(c)'
    BY <1>2, ObservedHistory DEF Stored
  <1>8. CachedSince(c)' /\ MadeSince(c)'
    <2>1. CachedSince(c) /\ MadeSince(c) /\ Kept(c) /\ Made(c)
      BY DEF Seen, Current
    <2>2. CASE recent[c].vers \subseteq recent'[c].vers /\ recent[c].secs \subseteq recent'[c].secs
      <3>1. CachedSince(c)'
        BY <1>5, <2>1, <2>2 DEF CachedSince
      <3>2. MadeSince(c)'
        BY <1>3, <2>1, <2>2 DEF MadeSince
      <3> QED  BY <3>1, <3>2
    <2>3. CASE editor'[e] = NoEdit /\ pending(c) \subseteq {e}
      <3>1. next.at = "idle"
        BY <1>1, <2>3 DEF NoEdit
      <3>2. CASE evicts(e, c, next)
        <4>1. \A k \in Keys : key_belongs_to(k, c) => cache'[Desktop][k] = NotCached
          BY <3>2, ServerAssumption, EvictedType DEF evicts
        <4>2. \A p \in Callers : server(p) = Desktop => call[p].at \notin {"keyring", "connect"}
          BY <3>2, NobodyAssumption DEF evicts, free, Shape, HasTheLock, Building
        <4>3. CachedSince(c)'
          BY <4>1 DEF CachedSince
        <4> QED  BY <1>3, <4>2, <4>3 DEF MadeSince
      <3>3. CASE saves(e, c, next)
        <4>1. adding(e) /\ editor[e].conn = c
          BY <3>1, <3>3 DEF saves, adding, EditOf
        <4>2. onlyAdded(c) /\ entry[c].ver = 0
          BY <2>3, <4>1 DEF onlyAdded, EditInv, AddsAreNew
        <4>3. \A k \in Keys : key_belongs_to(k, c) => cache[Desktop][k] = NotCached
          BY <2>1, <4>2 DEF Kept
        <4>4. \A p \in Callers : server(p) = Desktop /\ conn(p) = c =>
                call[p].at \notin {"keyring", "connect"}
          BY <2>1, <4>2 DEF Made
        <4>5. CachedSince(c)'
          BY <1>5, <4>3 DEF CachedSince
        <4> QED  BY <1>3, <4>4, <4>5 DEF MadeSince
      <3> QED  BY <3>1, <3>2, <3>3 DEF EditOf, begins, goes_on
    <2> QED  BY <1>2, <2>2, <2>3, ObservedHistory
  <1>9. ASSUME NEW p \in Callers PROVE KnowsOf(p)'
    <2> SUFFICES ASSUME call[p].at \notin Resting
                 PROVE  /\ recent'[conn(p)].vers \subseteq call'[p].vers
                        /\ recent'[conn(p)].secs \subseteq call'[p].secs
      BY <1>3 DEF KnowsOf
    <2>1. /\ recent[conn(p)].vers \subseteq call[p].vers
          /\ recent[conn(p)].secs \subseteq call[p].secs
      BY DEF Seen, KnowsOf
    <2>2. /\ call[p].vers \subseteq call'[p].vers /\ call[p].secs \subseteq call'[p].secs
          /\ conn(p) = c => entry'[c].ver \in call'[p].vers /\ secret'[c] \in call'[p].secs
      BY <1>2, ObservedHistory
    <2>3. CASE conn(p) = c
      <3>1. /\ recent'[c].vers \subseteq recent[c].vers \cup {entry'[c].ver}
            /\ recent'[c].secs \subseteq recent[c].secs \cup {secret'[c]}
        BY <1>2, ObservedHistory
      <3> QED  BY <2>1, <2>2, <2>3, <3>1
    <2>4. CASE conn(p) # c
      <3>1. recent'[conn(p)] = recent[conn(p)]
        BY <1>2, <2>4, CallTypes, ObservedHistory
      <3> QED  BY <2>1, <2>2, <3>1
    <2> QED  BY <2>3, <2>4
  <1>10. ASSUME NEW p \in Callers PROVE HandedInTime(p)'
    <2> SUFFICES ASSUME server(p) = Desktop, call[p].at = "handed"
                 PROVE  call[p].built.ver \in call'[p].vers /\ call[p].built.sec \in call'[p].secs
      BY <1>3 DEF HandedInTime
    <2>1. call[p].built.ver \in call[p].vers /\ call[p].built.sec \in call[p].secs
      BY DEF Seen, HandedInTime
    <2>2. call[p].vers \subseteq call'[p].vers /\ call[p].secs \subseteq call'[p].secs
      BY <1>2, ObservedHistory DEF Resting
    <2> QED  BY <2>1, <2>2
  <1> QED  BY <1>6, <1>7, <1>8, <1>9, <1>10 DEF Seen

(***************************************************************************)
(* A call of the desktop gets an adapter made of an entry and a secret     *)
(* that were stored while it ran, or since the last edit that was over     *)
(* when it began: never one from before an edit whose end the user has     *)
(* seen (invalidate, adapter_for_target).  A caller of another process may *)
(* get an older one, as nobody evicts there; such callers are left out by  *)
(* the second assumption, and imports and failing saves by the first.      *)
(***************************************************************************)
THEOREM HandedBackInTime ==
    ASSUME EditsEvict, \A p \in Callers : server(p) = Desktop
    PROVE  Spec => []HandedBackIsCurrent
  <1>1. Init => Seen
    <2> SUFFICES ASSUME Init PROVE Seen
      OBVIOUS
    <2>1. \A c \in Conns : entry[c].ver = 1 /\ secret[c] = 1
            /\ recent[c].vers = {1} /\ recent[c].secs = {1}
      BY DEF Init
    <2>2. \A k \in Keys : cache[Desktop][k] = NotCached
      BY ServerAssumption DEF Init
    <2>3. \A p \in Callers : call[p].at = "idle"
      BY DEF Init
    <2> QED  BY <2>1, <2>2, <2>3
             DEF Seen, Stored, CachedSince, MadeSince, KnowsOf, HandedInTime, Resting
  <1>2. Shape /\ EditInv /\ Current /\ Seen /\ [Next]_vars => Seen'
    <2> SUFFICES ASSUME Shape, EditInv, Current, Seen, [Next]_vars PROVE Seen'
      OBVIOUS
    <2>1. ASSUME NEW e \in Editors, Edit(e) PROVE Seen'
      <3>1. PICK c \in Conns : \E next : EditOf(e, c, next)
        BY <2>1, EditCases DEF EditInv
      <3>2. PICK next : EditOf(e, c, next)
        BY <3>1
      <3> QED  BY <2>1, <3>2, EditsKeepSeen
    <2>2. CASE UNCHANGED vars
      BY <2>2 DEF vars, Seen, Stored, CachedSince, MadeSince, KnowsOf, HandedInTime, conn, server
    <2> QED  BY <2>1, <2>2, CallsKeepSeen, WorldKeepsSeen DEF Next
  <1>3. Seen => HandedBackIsCurrent
    BY DEF Seen, HandedInTime, HandedBackIsCurrent
  <1> QED  BY <1>1, <1>2, <1>3, EditsKeepTheCacheCurrent, ShapeHolds, PTL DEF Spec

-------------------------------------------------------------------------------
(***************************************************************************)
(* Routes: what is dialled, for every environment, file and keychain, and  *)
(* for every connection that is opened.                                    *)
(***************************************************************************)
Bastion == [port : Int, ways : SUBSET STRING]
Saved == [id : STRING \ {"env", "in-memory"}, kind : STRING, cluster : BOOLEAN, ssh : Seq(Bastion)]
Address == [valid : BOOLEAN, host : STRING, port : Int, database : STRING, rest : STRING,
            tls : BOOLEAN]
Keyring == [secret : Seq(Address), ssh : BOOLEAN]
one_at_most(s) == s = None \/ s = Some(s[1])
listed(row) == row \in Saved /\ one_at_most(row.ssh)
in_keyring(keychain) == keychain \in Keyring /\ one_at_most(keychain.secret)

\* A connection has a bastion or none, a slot a secret or none, and no id is one of the two
\* words by which the model tells the environment and the default from the saved ones.
RouteAssumption ==
    /\ \A b \in Boots : /\ b.file \in Seq(Saved) /\ \A i \in DOMAIN b.file : listed(b.file[i])
                        /\ in_keyring(b.keychain) /\ one_at_most(b.selector)
    /\ \A o \in Opens : listed(o.entry) /\ in_keyring(o.keychain) /\ one_at_most(o.database)

LEMMA AnswersAndErrors ==
    /\ \A why : failed(Error(why)) /\ "label" \notin DOMAIN Error(why) /\ "dial" \notin DOMAIN Error(why)
    /\ \A kind, source, url, ssh, cluster : ~failed(Backend(kind, source, url, ssh, cluster))
    /\ \A url, ssh, forward : ~failed(Dial(url, ssh, forward))
    /\ \A url \in Address : ~failed(url)
<1>1. \A why : DOMAIN Error(why) = {"error"}
  BY DEF Error
<1>2. \A kind, source, url, ssh, cluster :
        DOMAIN Backend(kind, source, url, ssh, cluster) = {"kind", "source", "url", "ssh", "cluster"}
  BY DEF Backend
<1>3. \A url, ssh, forward : DOMAIN Dial(url, ssh, forward) = {"url", "ssh", "forward"}
  BY DEF Dial
<1>4. \A url \in Address : "host" \in DOMAIN url
  BY DEF Address
<1>5. QED
  BY <1>1, <1>2, <1>3, <1>4 DEF failed

\* The bastion that is asked for is the one that is set.
LEMMA TheBastionSet ==
    ASSUME NEW set, unambiguous(set), NEW port
    PROVE  behind(ResolvedSsh(set, port), set)
<1>1. PICK k : k = ResolvedSsh(set, port).host_key
  OBVIOUS
<1>2. k \in set /\ k \in {"fingerprint", "known_hosts"}
  <2>1. \E h \in set : h \in {"fingerprint", "known_hosts"}
    BY DEF unambiguous, one_of
  <2>2. k = CHOOSE h \in set : h \in {"fingerprint", "known_hosts"}
    BY <1>1 DEF ResolvedSsh
  <2>3. QED
    BY <2>1, <2>2
<1>3. ResolvedSsh(set, port).auth = IF "password" \in set THEN {"password"}
                                    ELSE set \intersect {"key_path", "passphrase"}
  BY DEF ResolvedSsh
<1>4. QED
  BY <1>1, <1>2, <1>3 DEF behind, unambiguous, one_of

\* A saved connection, resolved: the bastion is its own, and the url the keychain's.
LEMMA TheEntrySaved ==
    ASSUME NEW row, listed(row), NEW keychain, in_keyring(keychain),
           \A ssh \in ToSet(row.ssh) : supports_ssh_tunnel(row.kind) /\ validate(ssh),
           NEW answer, answer = entry_to_backend(row, keychain), ~failed(answer)
    PROVE  /\ answer = Backend(answer.kind, row.id, answer.url, answer.ssh, answer.cluster)
           /\ row.ssh = None => answer.ssh = None
           /\ row.ssh # None =>
                /\ answer.kind \in UrlKinds
                /\ answer.ssh = Some(answer.ssh[1]) /\ behind(answer.ssh[1], row.ssh[1].ways)
           /\ answer.kind \in UrlKinds =>
                keychain.secret # None /\ answer.url = keychain.secret
           /\ answer.kind = IF row.kind = "memorydb" THEN "redis" ELSE row.kind
<1> DEFINE ssh == IF row.kind \in Tunnelled THEN entry_ssh(row) ELSE None
           url == IF row.kind \in UrlKinds THEN keychain.secret ELSE None
<1>1. Tunnelled = UrlKinds /\ Tunnelled \intersect Keyless = {}
  BY DEF Tunnelled, UrlKinds, Keyless
<1>2. row.ssh # None => row.kind \in Tunnelled /\ unambiguous(row.ssh[1].ways)
  <2>1. ASSUME row.ssh # None PROVE row.ssh[1] \in ToSet(row.ssh)
    <3>1. row.ssh = Some(row.ssh[1])
      BY <2>1 DEF listed, one_at_most
    <3>2. row.ssh \in Seq(Bastion)
      BY DEF listed, Saved
    <3>3. 1 \in DOMAIN row.ssh
      BY <3>1 DEF Some
    <3>4. QED
      BY <3>3 DEF ToSet
  <2>2. QED
    BY <2>1 DEF supports_ssh_tunnel, validate
<1>3. row.kind \in UrlKinds => keychain.secret # None
  BY <1>1, AnswersAndErrors DEF entry_to_backend
<1>4. /\ ssh = None <=> row.ssh = None
      /\ row.ssh # None => ssh = Some(ssh[1]) /\ behind(ssh[1], row.ssh[1].ways)
  BY <1>2, TheBastionSet DEF entry_ssh, Some, None
<1>5. CASE row.kind \in {"redis", "memorydb"}
  <2>1. answer = redis_backend(row, keychain.secret[1])
    BY <1>5, AnswersAndErrors DEF entry_to_backend
  <2>2. answer = Backend("redis", row.id, Some(keychain.secret[1]), entry_ssh(row),
                         row.cluster \/ row.kind = "memorydb")
    BY <2>1, AnswersAndErrors DEF redis_backend
  <2>3. entry_ssh(row) = ssh /\ Some(keychain.secret[1]) = keychain.secret
    BY <1>3, <1>5 DEF Tunnelled, UrlKinds, in_keyring, one_at_most
  <2>4. answer.kind = "redis" /\ answer.ssh = ssh /\ answer.url = keychain.secret
        /\ answer = Backend("redis", row.id, answer.url, answer.ssh, answer.cluster)
    BY <2>2, <2>3 DEF Backend
  <2>5. QED
    BY <1>3, <1>4, <1>5, <2>4 DEF UrlKinds
<1>6. CASE row.kind \notin {"redis", "memorydb"}
  <2>1. answer = Backend(row.kind, row.id, url, ssh, FALSE)
    BY <1>6, AnswersAndErrors DEF entry_to_backend
  <2>2. answer.kind = row.kind /\ answer.ssh = ssh /\ answer.url = url
        /\ answer = Backend(row.kind, row.id, answer.url, answer.ssh, answer.cluster)
    BY <2>1 DEF Backend
  <2>3. QED
    BY <1>1, <1>2, <1>3, <1>4, <1>6, <2>2
<1>7. QED
  BY <1>5, <1>6

-------------------------------------------------------------------------------
(* A connection that is opened. *)

\* Pointing a backend at a database changes nothing else of it.
LEMMA AnotherDatabase ==
    ASSUME NEW kind, NEW source, NEW ssh, NEW cluster, NEW url \in Seq(Address), NEW database,
           kind \in Scoped => url = Some(url[1]),
           NEW answer, ~failed(answer),
           answer = scoped_to_database(Backend(kind, source, url, ssh, cluster), database)
    PROVE  /\ kind \in Scoped /\ database # Blank /\ url[1].valid /\ url[1] \in Address
           /\ answer = Backend(kind, source, Some([url[1] EXCEPT !.database = database]), ssh, cluster)
<1>1. PICK b : b = Backend(kind, source, url, ssh, cluster)
  OBVIOUS
<1>2. b.kind = kind /\ b.url = url
  BY <1>1 DEF Backend
<1>3. answer = scoped_to_database(b, database)
  BY <1>1
<1>4. kind \in Scoped /\ database # Blank
      /\ answer = with_url(b, with_database(url[1], database))
  BY <1>2, <1>3, AnswersAndErrors DEF scoped_to_database
<1>5. url[1] \in Address
  BY <1>4 DEF Some
<1>6. url[1].valid /\ with_database(url[1], database) = [url[1] EXCEPT !.database = database]
  BY <1>4, AnswersAndErrors DEF with_url, with_database
<1>7. answer = [b EXCEPT !.url = Some([url[1] EXCEPT !.database = database])]
  BY <1>4, <1>6, AnswersAndErrors DEF with_url
<1>8. QED
  BY <1>1, <1>4, <1>5, <1>6, <1>7 DEF Backend

\* The adapter that is handed out dials the backend's url, or the near end of a tunnel to it.
DialledAs(backend, dial) ==
    /\ backend.kind \in UrlKinds => dial.ssh = backend.ssh /\ backend.url[1].valid
    /\ backend.kind \notin UrlKinds => dial.ssh = None
    /\ backend.kind \in UrlKinds \ {"redis"} =>
         IF backend.ssh = None THEN dial.url = backend.url[1]
         ELSE /\ backend.url[1].host # ""
              /\ dial.url = rewrite_to_loopback(backend.url[1], LOCAL_PORT)
              /\ dial.forward = Some([host |-> backend.url[1].host,
                                      port |-> IF backend.url[1].port = NoPort
                                               THEN default_port(backend.kind)
                                               ELSE backend.url[1].port])

LEMMA WhatIsDialled ==
    ASSUME NEW backend, NEW lets_in, NEW answers, NEW dial, ~failed(dial),
           dial = connect_adapter(backend, lets_in, answers),
           backend.kind \in UrlKinds => backend.url = Some(backend.url[1])
    PROVE  DialledAs(backend, dial)
<1>1. dial = IF backend.kind = "redis" THEN open_session(backend, lets_in)
             ELSE IF backend.kind \in UrlKinds THEN open_tunnel(backend, lets_in)
             ELSE Dial(None, None, None)
  BY AnswersAndErrors DEF connect_adapter
<1>2. backend.kind \in UrlKinds => backend.url # None /\ backend.url[1].valid
  <2>1. backend.kind \in UrlKinds => backend.url # None
    BY DEF Some, None
  <2>2. QED
    BY <2>1, AnswersAndErrors DEF connect_adapter
<1>3. backend.kind = "redis" => dial = Dial(backend.url[1], backend.ssh, None)
  BY <1>1, AnswersAndErrors DEF open_session
<1>4. backend.kind \in UrlKinds \ {"redis"} /\ backend.ssh = None =>
        dial = Dial(backend.url[1], None, None)
  BY <1>1 DEF open_tunnel
<1>5. backend.kind \in UrlKinds \ {"redis"} /\ backend.ssh # None =>
        /\ ~failed(forward_target(backend.url[1], default_port(backend.kind)))
        /\ dial = Dial(rewrite_to_loopback(backend.url[1], LOCAL_PORT), backend.ssh,
                       Some(forward_target(backend.url[1], default_port(backend.kind))))
  BY <1>1, AnswersAndErrors DEF open_tunnel
<1>6. backend.kind \in UrlKinds \ {"redis"} /\ backend.ssh # None =>
        /\ backend.url[1].host # ""
        /\ forward_target(backend.url[1], default_port(backend.kind)) =
             [host |-> backend.url[1].host,
              port |-> IF backend.url[1].port = NoPort THEN default_port(backend.kind)
                       ELSE backend.url[1].port]
  BY <1>5, AnswersAndErrors DEF forward_target
<1>7. backend.kind \in UrlKinds => dial.ssh = backend.ssh
  BY <1>3, <1>4, <1>5 DEF Dial
<1>8. backend.kind \notin UrlKinds => dial.ssh = None
  BY <1>1 DEF Dial, UrlKinds
<1>9. backend.kind \in UrlKinds \ {"redis"} =>
        IF backend.ssh = None THEN dial.url = backend.url[1]
        ELSE /\ dial.url = rewrite_to_loopback(backend.url[1], LOCAL_PORT)
             /\ dial.forward = Some(forward_target(backend.url[1], default_port(backend.kind)))
  BY <1>4, <1>5 DEF Dial
<1>10. QED
  BY <1>2, <1>6, <1>7, <1>8, <1>9 DEF DialledAs

\* A connection that is opened, from its entry to what is dialled.
Stages(o, lets_in, answers, backend, scoped, listing, dial) ==
    LET database == non_empty(o.database)
    IN  /\ backend = entry_to_backend(o.entry, o.keychain) /\ ~failed(backend)
        /\ scoped = (IF database = None THEN backend ELSE scoped_to_database(backend, database[1]))
        /\ ~failed(scoped)
        /\ listing = with_listing_default(scoped) /\ ~failed(listing)
        /\ dial = connect_adapter(listing, lets_in, answers) /\ ~failed(dial)
        /\ told' = [dial |-> dial, configured |-> configured_database(scoped),
                    cluster |-> listing.cluster]

LEMMA WhatIsOpened ==
    ASSUME NEW o, opens(o), opened'
    PROVE  /\ \A ssh \in ToSet(o.entry.ssh) : supports_ssh_tunnel(o.entry.kind) /\ validate(ssh)
           /\ \E lets_in, answers, backend, scoped, listing, dial :
                Stages(o, lets_in, answers, backend, scoped, listing, dial)
<1>1. PICK lets_in \in BOOLEAN, answers \in BOOLEAN :
        told' = IF parses(<<o.entry>>) THEN adapter_for_target(o, lets_in, answers) ELSE Error("file")
  BY DEF opens
<1>2. PICK backend, scoped, listing, dial :
        /\ backend = entry_to_backend(o.entry, o.keychain)
        /\ scoped = IF failed(backend) \/ non_empty(o.database) = None THEN backend
                    ELSE scoped_to_database(backend, non_empty(o.database)[1])
        /\ listing = IF failed(scoped) THEN scoped ELSE with_listing_default(scoped)
        /\ dial = IF failed(listing) THEN listing ELSE connect_adapter(listing, lets_in, answers)
  OBVIOUS
<1>3. parses(<<o.entry>>) /\ told' = adapter_for_target(o, lets_in, answers)
  BY <1>1, AnswersAndErrors DEF opened
<1>4. told' = IF failed(dial) THEN dial
              ELSE [dial |-> dial, configured |-> configured_database(scoped),
                    cluster |-> listing.cluster]
  BY <1>2, <1>3 DEF adapter_for_target
<1>5. ~failed(dial)
  BY <1>4 DEF opened, failed
<1>6. ~failed(listing) /\ ~failed(scoped) /\ ~failed(backend)
  BY <1>2, <1>5
<1>7. \A ssh \in ToSet(o.entry.ssh) : supports_ssh_tunnel(o.entry.kind) /\ validate(ssh)
  <2>1. 1 \in DOMAIN <<o.entry>> /\ <<o.entry>>[1] = o.entry
    OBVIOUS
  <2>2. QED
    BY <1>3, <2>1 DEF parses
<1>8. Stages(o, lets_in, answers, backend, scoped, listing, dial)
  BY <1>2, <1>4, <1>5, <1>6 DEF Stages
<1>9. QED
  BY <1>7, <1>8

\* What is asked for, and what the url of a stage makes of it: nothing but the database
\* changes on the way from the slot to the driver.
wanted_of(o) ==
    IF non_empty(o.database) # None THEN non_empty(o.database)[1] ELSE o.keychain.secret[1].database
Redirected(b, backend, url, database) ==
    b = Backend(backend.kind, backend.source, Some([url EXCEPT !.database = database]),
                backend.ssh, backend.cluster)

LEMMA TheStagesKeepTheUrl ==
    ASSUME NEW o, listed(o.entry), in_keyring(o.keychain),
           \A ssh \in ToSet(o.entry.ssh) : supports_ssh_tunnel(o.entry.kind) /\ validate(ssh),
           NEW lets_in, NEW answers, NEW backend, NEW scoped, NEW listing, NEW dial,
           Stages(o, lets_in, answers, backend, scoped, listing, dial)
    PROVE  /\ listing.kind = backend.kind /\ listing.ssh = backend.ssh
           /\ backend.kind \in UrlKinds =>
                LET url == o.keychain.secret[1] IN
                /\ url \in Address /\ o.keychain.secret # None
                /\ Redirected(scoped, backend, url, wanted_of(o)) \/ backend.kind \notin Scoped
                /\ \E database :
                     /\ Redirected(listing, backend, url, database)
                     /\ url.valid /\ url.host # "" =>
                          database = IF backend.kind \in PostgresFamily /\ wanted_of(o) = ""
                                     THEN "maintenance" ELSE wanted_of(o)
<1>1. /\ backend = Backend(backend.kind, o.entry.id, backend.url, backend.ssh, backend.cluster)
      /\ backend.kind \in UrlKinds => o.keychain.secret # None /\ backend.url = o.keychain.secret
  BY TheEntrySaved DEF Stages
<1>2. backend.source = o.entry.id
  BY <1>1 DEF Backend
<1>3. backend.kind \in UrlKinds =>
        /\ backend.url \in Seq(Address) /\ backend.url = Some(backend.url[1])
        /\ backend.url[1] = o.keychain.secret[1] /\ o.keychain.secret[1] \in Address
  BY <1>1 DEF in_keyring, Keyring, one_at_most, Some, None
<1>4. Scoped \subseteq UrlKinds /\ PostgresFamily \subseteq Scoped
  BY DEF Scoped, UrlKinds, PostgresFamily
<1>5. PICK url : url = o.keychain.secret[1]
  OBVIOUS
<1>6. backend.kind \in UrlKinds => url \in Address /\ [url EXCEPT !.database = url.database] = url
  BY <1>3, <1>5 DEF Address
<1>7. CASE backend.kind \notin UrlKinds
  <2>1. scoped = backend
    <3>1. ASSUME non_empty(o.database) # None PROVE FALSE
      <4>1. scoped = scoped_to_database(backend, non_empty(o.database)[1]) /\ ~failed(scoped)
        BY <3>1 DEF Stages
      <4>2. backend.kind \in Scoped
        BY <4>1, AnswersAndErrors DEF scoped_to_database
      <4>3. QED
        BY <1>4, <1>7, <4>2
    <3>2. QED
      BY <3>1 DEF Stages
  <2>2. listing = scoped
    BY <1>4, <1>7, <2>1 DEF Stages, with_listing_default
  <2>3. QED
    BY <1>7, <2>1, <2>2
<1>8. CASE backend.kind \in UrlKinds
  <2>1. Redirected(scoped, backend, url, wanted_of(o))
        /\ (non_empty(o.database) # None => backend.kind \in Scoped)
    <3>1. CASE non_empty(o.database) = None
      <4>1. scoped = backend /\ wanted_of(o) = url.database
        BY <1>5, <3>1 DEF Stages, wanted_of
      <4>2. QED
        BY <1>1, <1>2, <1>3, <1>5, <1>6, <1>8, <3>1, <4>1 DEF Redirected
    <3>2. CASE non_empty(o.database) # None
      <4>1. scoped = scoped_to_database(backend, wanted_of(o)) /\ ~failed(scoped)
        BY <3>2 DEF Stages, wanted_of
      <4>2. QED
        BY <1>1, <1>2, <1>3, <1>5, <1>8, <4>1, AnotherDatabase DEF Redirected
    <3>3. QED
      BY <3>1, <3>2
  <2>2. scoped.kind = backend.kind /\ scoped.source = backend.source /\ scoped.ssh = backend.ssh
        /\ scoped.cluster = backend.cluster /\ scoped.url = Some([url EXCEPT !.database = wanted_of(o)])
    BY <2>1 DEF Redirected, Backend
  <2>3. PICK moved : moved = [url EXCEPT !.database = wanted_of(o)]
    OBVIOUS
  <2>4. moved.valid = url.valid /\ moved.host = url.host /\ moved.database = wanted_of(o)
        /\ scoped.url[1] = moved /\ DOMAIN moved = DOMAIN url
    BY <1>6, <1>8, <2>2, <2>3 DEF Address, Some
  <2>5. CASE backend.kind \in PostgresFamily /\ configured_database(scoped) = None
    <3>1. listing = scoped_to_database(scoped, "maintenance") /\ ~failed(listing)
      BY <2>2, <2>5 DEF Stages, with_listing_default
    <3>2. listing = [scoped EXCEPT !.url = Some([moved EXCEPT !.database = "maintenance"])]
      <4>1. listing = with_url(scoped, with_database(moved, "maintenance"))
        BY <2>4, <3>1, AnswersAndErrors DEF scoped_to_database
      <4>2. with_database(moved, "maintenance") = [moved EXCEPT !.database = "maintenance"]
        BY <3>1, <4>1, AnswersAndErrors DEF with_url, with_database
      <4>3. ~failed([moved EXCEPT !.database = "maintenance"])
        BY <3>1, <4>1, <4>2, AnswersAndErrors DEF with_url
      <4>4. QED
        BY <4>1, <4>2, <4>3 DEF with_url
    <3>3. [moved EXCEPT !.database = "maintenance"] = [url EXCEPT !.database = "maintenance"]
      BY <1>6, <1>8, <2>3 DEF Address
    <3>4. Redirected(listing, backend, url, "maintenance")
      BY <2>1, <3>2, <3>3 DEF Redirected, Backend
    <3>5. url.valid /\ url.host # "" => wanted_of(o) = ""
      BY <1>4, <2>2, <2>4, <2>5 DEF configured_database, Some, None
    <3>6. listing.kind = backend.kind /\ listing.ssh = backend.ssh
      BY <3>4 DEF Redirected, Backend
    <3>7. QED
      BY <1>1, <1>3, <1>5, <1>8, <2>1, <2>5, <3>4, <3>5, <3>6
  <2>6. CASE ~(backend.kind \in PostgresFamily /\ configured_database(scoped) = None)
    <3>1. listing = scoped
      BY <2>2, <2>6 DEF Stages, with_listing_default
    <3>2. backend.kind \in PostgresFamily /\ url.valid /\ url.host # "" => wanted_of(o) # ""
      BY <1>4, <2>2, <2>4, <2>6 DEF configured_database
    <3>3. QED
      BY <1>1, <1>3, <1>5, <1>8, <2>1, <2>2, <3>1, <3>2
  <2>7. QED
    BY <2>5, <2>6
<1>9. QED
  BY <1>7, <1>8

\* The two properties of a connection that is opened, of any dial.
ThroughItsBastion(o, dial) ==
    IF o.entry.ssh = None THEN dial.ssh = None
    ELSE dial.ssh # None /\ behind(dial.ssh[1], o.entry.ssh[1].ways)
Reaches(dial, url, kind) ==
    IF dial.ssh = None THEN dial.url.host = url.host /\ dial.url.port = url.port
    ELSE /\ dial.url.host = "loopback" /\ dial.url.port = LOCAL_PORT
         /\ dial.forward = Some([host |-> url.host,
                                 port |-> IF url.port = NoPort
                                          THEN IF kind = "mysql" THEN 3306 ELSE 5432
                                          ELSE url.port])
Shows(dial, configured, url, kind, wanted) ==
    url.host # "" =>
        /\ dial.url.database = wanted \/ (wanted = "" /\ dial.url.database = "maintenance")
        /\ kind \in Scoped => configured = IF wanted = "" THEN None ELSE Some(wanted)

LEMMA OpenedAsSaved ==
    ASSUME NEW o, listed(o.entry), in_keyring(o.keychain), opens(o), opened'
    PROVE  /\ ThroughItsBastion(o, told'.dial)
           /\ o.entry.kind \in Scoped \union {"aurora-dsql"} =>
                /\ Reaches(told'.dial, o.keychain.secret[1], o.entry.kind)
                /\ told'.dial.url.rest = o.keychain.secret[1].rest
                /\ Shows(told'.dial, told'.configured, o.keychain.secret[1], o.entry.kind,
                         wanted_of(o))
<1>1. /\ \A ssh \in ToSet(o.entry.ssh) : supports_ssh_tunnel(o.entry.kind) /\ validate(ssh)
      /\ \E lets_in, answers, backend, scoped, listing, dial :
           Stages(o, lets_in, answers, backend, scoped, listing, dial)
  BY WhatIsOpened
<1>2. PICK lets_in, answers, backend, scoped, listing, dial :
        Stages(o, lets_in, answers, backend, scoped, listing, dial)
  BY <1>1
<1>3. told'.dial = dial /\ told'.configured = configured_database(scoped)
  BY <1>2 DEF Stages
<1>4. /\ o.entry.ssh = None => backend.ssh = None
      /\ o.entry.ssh # None =>
           /\ backend.kind \in UrlKinds
           /\ backend.ssh = Some(backend.ssh[1]) /\ behind(backend.ssh[1], o.entry.ssh[1].ways)
      /\ backend.kind = IF o.entry.kind = "memorydb" THEN "redis" ELSE o.entry.kind
  BY <1>1, <1>2, TheEntrySaved DEF Stages
<1>5. /\ listing.kind = backend.kind /\ listing.ssh = backend.ssh
      /\ backend.kind \in UrlKinds =>
           LET url == o.keychain.secret[1] IN
           /\ url \in Address /\ o.keychain.secret # None
           /\ Redirected(scoped, backend, url, wanted_of(o)) \/ backend.kind \notin Scoped
           /\ \E database :
                /\ Redirected(listing, backend, url, database)
                /\ url.valid /\ url.host # "" =>
                     database = IF backend.kind \in PostgresFamily /\ wanted_of(o) = ""
                                THEN "maintenance" ELSE wanted_of(o)
  BY <1>1, <1>2, TheStagesKeepTheUrl
<1>6. backend.kind \in UrlKinds => listing.url = Some(listing.url[1])
  <2>1. ASSUME backend.kind \in UrlKinds PROVE \E there : listing.url = Some(there)
    <3>1. PICK database : Redirected(listing, backend, o.keychain.secret[1], database)
      BY <1>5, <2>1
    <3>2. QED
      BY <3>1 DEF Redirected, Backend
  <2>2. \A there : Some(there)[1] = there
    BY DEF Some
  <2>3. QED
    BY <2>1, <2>2
<1>7. DialledAs(listing, dial)
  <2>1. dial = connect_adapter(listing, lets_in, answers) /\ ~failed(dial)
    BY <1>2 DEF Stages
  <2>2. listing.kind \in UrlKinds => listing.url = Some(listing.url[1])
    BY <1>5, <1>6
  <2>3. QED
    BY <2>1, <2>2, WhatIsDialled
<1>8. ThroughItsBastion(o, dial)
  <2>1. CASE o.entry.ssh = None
    BY <1>4, <1>5, <1>7, <2>1 DEF DialledAs, ThroughItsBastion
  <2>2. CASE o.entry.ssh # None
    <3>1. dial.ssh = backend.ssh /\ backend.ssh = Some(backend.ssh[1])
          /\ behind(backend.ssh[1], o.entry.ssh[1].ways)
      BY <1>4, <1>5, <1>7, <2>2 DEF DialledAs
    <3>2. backend.ssh # None
      BY <3>1 DEF Some, None
    <3>3. QED
      BY <2>2, <3>1, <3>2 DEF ThroughItsBastion
  <2>3. QED
    BY <2>1, <2>2
<1>9. ASSUME o.entry.kind \in Scoped \union {"aurora-dsql"}
      PROVE  /\ Reaches(dial, o.keychain.secret[1], o.entry.kind)
             /\ dial.url.rest = o.keychain.secret[1].rest
             /\ Shows(dial, configured_database(scoped), o.keychain.secret[1], o.entry.kind,
                      wanted_of(o))
  <2>1. backend.kind = o.entry.kind /\ backend.kind \in UrlKinds \ {"redis"}
    BY <1>4, <1>9 DEF Scoped, PostgresFamily, UrlKinds
  <2>2. PICK url : url = o.keychain.secret[1]
    OBVIOUS
  <2>3. PICK database :
          /\ url \in Address /\ Redirected(listing, backend, url, database)
          /\ url.valid /\ url.host # "" =>
               database = IF backend.kind \in PostgresFamily /\ wanted_of(o) = ""
                          THEN "maintenance" ELSE wanted_of(o)
    BY <1>5, <2>1, <2>2
  <2>4. PICK there : there = listing.url[1]
    OBVIOUS
  <2>5. there = [url EXCEPT !.database = database]
    BY <2>3, <2>4 DEF Redirected, Backend, Some
  <2>6. /\ there.valid = url.valid /\ there.host = url.host /\ there.port = url.port
        /\ there.rest = url.rest /\ there.database = database /\ there.tls = url.tls
    BY <2>3, <2>5 DEF Address
  <2>7. url.valid
    BY <1>5, <1>7, <2>1, <2>4, <2>6 DEF DialledAs
  <2>9. dial.ssh = None => dial.url = there
    BY <1>5, <1>7, <2>1, <2>4 DEF DialledAs
  <2>10. dial.ssh # None =>
           /\ dial.url = [there EXCEPT !.host = "loopback", !.port = LOCAL_PORT]
           /\ dial.forward = Some([host |-> there.host,
                                   port |-> IF there.port = NoPort THEN default_port(o.entry.kind)
                                            ELSE there.port])
    BY <1>5, <1>7, <2>1, <2>4 DEF DialledAs, rewrite_to_loopback
  <2>11. dial.ssh # None =>
           /\ dial.url.host = "loopback" /\ dial.url.port = LOCAL_PORT
           /\ dial.url.rest = there.rest /\ dial.url.database = there.database
    BY <2>3, <2>5, <2>10 DEF Address
  <2>12. ASSUME o.entry.kind \in Scoped
         PROVE  url.host # "" =>
                  configured_database(scoped) = IF wanted_of(o) = "" THEN None ELSE Some(wanted_of(o))
    <3>1. Redirected(scoped, backend, url, wanted_of(o))
      BY <1>5, <2>1, <2>2, <2>12
    <3>2. scoped.kind = backend.kind /\ scoped.url[1] = [url EXCEPT !.database = wanted_of(o)]
      BY <3>1 DEF Redirected, Backend, Some
    <3>3. scoped.url[1].valid = url.valid /\ scoped.url[1].host = url.host
          /\ scoped.url[1].database = wanted_of(o)
      BY <2>3, <3>2 DEF Address
    <3>4. QED
      BY <2>1, <2>7, <2>12, <3>2, <3>3 DEF configured_database
  <2>13. Reaches(dial, url, o.entry.kind)
    BY <2>6, <2>9, <2>10, <2>11 DEF default_port, Reaches
  <2>14. dial.url.rest = url.rest /\ dial.url.database = database
    BY <2>6, <2>9, <2>11
  <2>15. url.host # "" =>
           dial.url.database = wanted_of(o)
           \/ (wanted_of(o) = "" /\ dial.url.database = "maintenance")
    BY <2>3, <2>7, <2>14
  <2>16. Shows(dial, configured_database(scoped), url, o.entry.kind, wanted_of(o))
    BY <2>12, <2>15 DEF Shows
  <2>17. QED
    BY <2>2, <2>13, <2>14, <2>16
<1>10. QED
  BY <1>3, <1>8, <1>9

-------------------------------------------------------------------------------
(* A boot. *)

LEMMA LeastOf ==
    ASSUME NEW S \in SUBSET Nat, S # {}
    PROVE  Min(S) \in S /\ \A j \in S : Min(S) <= j
<1> DEFINE R == OpToRel(<, Nat)
<1>1. IsWellFoundedOn(R, Nat)
  BY NatLessThanWellFounded
<1> HIDE DEF R
<1>2. PICK i \in S : \A j \in S : ~ (<<j, i>> \in R)
  BY <1>1, WFMin
<1>3. \A j \in S : i <= j
  <2>1. \A j \in Nat, k \in Nat : j < k => <<j, k>> \in R
    BY DEF OpToRel, R
  <2>2. \A j \in S : j \in Nat /\ ~(j < i)
    BY <1>2, <2>1
  <2>3. QED
    BY <1>2, <2>2
<1>4. QED
  BY <1>2, <1>3 DEF Min

\* Where the search of an order ends: at the first whose variables are all set.
IsTheFirst(order, n, env, i) ==
    \/ i = 0 /\ \A j \in 1 .. n : ~(order[j].vars \subseteq env)
    \/ /\ i \in 1 .. n /\ order[i].vars \subseteq env
       /\ \A j \in 1 .. n : order[j].vars \subseteq env => i <= j

LEMMA FirstInOrder ==
    ASSUME NEW order, NEW env, Len(order) \in Nat
    PROVE  IsTheFirst(order, Len(order), env, first_of(order, env))
<1> DEFINE n == Len(order)
           i == first_of(order, env)
<1>1. PICK found : found = {j \in 1 .. Len(order) : order[j].vars \subseteq env}
  OBVIOUS
<1>2. i = IF found # {} THEN Min(found) ELSE 0
  BY <1>1 DEF first_of, SelectInSeq
<1>3. CASE found = {}
  BY <1>1, <1>2, <1>3 DEF IsTheFirst
<1>4. CASE found # {}
  <2>1. Min(found) \in found /\ \A j \in found : Min(found) <= j
    <3>1. found \in SUBSET Nat
      BY <1>1
    <3>2. QED
      BY <1>4, <3>1, LeastOf
  <2>2. QED
    BY <1>1, <1>2, <1>4, <2>1 DEF IsTheFirst
<1>5. QED
  BY <1>3, <1>4

\* label_for's order is resolve_from_env_only's, and Turso's file comes last in both.
LEMMA SameOrder ==
    /\ Len(ENV_ORDER) = 8 /\ Len(LABEL_ORDER) = 9
    /\ \A j \in 1 .. 8 : LABEL_ORDER[j] = ENV_ORDER[j]
    /\ LABEL_ORDER[9] = Step({"turso_path"}, "turso")
<1>1. \A j \in 1 .. 8 : j \in {1, 2, 3, 4, 5, 6, 7, 8}
  OBVIOUS
<1>2. QED
  BY <1>1 DEF ENV_ORDER, LABEL_ORDER

LEMMA FirstInBoth ==
    ASSUME NEW env
    PROVE  /\ IsTheFirst(ENV_ORDER, 8, env, first_of(ENV_ORDER, env))
           /\ IsTheFirst(LABEL_ORDER, 9, env, first_of(LABEL_ORDER, env))
<1>1. Len(ENV_ORDER) \in Nat /\ Len(LABEL_ORDER) \in Nat
  BY SameOrder
<1>2. IsTheFirst(ENV_ORDER, Len(ENV_ORDER), env, first_of(ENV_ORDER, env))
  BY <1>1, FirstInOrder
<1>3. IsTheFirst(LABEL_ORDER, Len(LABEL_ORDER), env, first_of(LABEL_ORDER, env))
  BY <1>1, FirstInOrder
<1>4. QED
  BY <1>2, <1>3, SameOrder

LEMMA SameChoice ==
    ASSUME NEW env, NEW i, NEW j, i = first_of(ENV_ORDER, env), j = first_of(LABEL_ORDER, env)
    PROVE  /\ i # 0 => i \in 1 .. 8 /\ j = i
           /\ i = 0 => j = IF "turso_path" \in env THEN 9 ELSE 0
<1>1. IsTheFirst(ENV_ORDER, 8, env, i) /\ IsTheFirst(LABEL_ORDER, 9, env, j)
  BY FirstInBoth
<1>2. LABEL_ORDER[9].vars \subseteq env <=> "turso_path" \in env
  BY SameOrder DEF Step
<1>3. \A k \in 1 .. 9 : k \in 1 .. 8 \/ k = 9
  OBVIOUS
<1>4. QED
  BY <1>1, <1>2, <1>3, SameOrder DEF IsTheFirst

\* What the environment makes of a backend.
LEMMA TheEnvironments ==
    ASSUME NEW env, NEW backend, backend = resolve_from_env_only(env),
           \/ UrlVars \intersect env # {} \/ trio \subseteq env
           \/ {"firestore_project_id", "mongodb_uri", "turso_path"} \intersect env # {}
    PROVE  /\ backend = Backend(backend.kind, "env", None, None, FALSE)
           /\ first_of(LABEL_ORDER, env) # 0
           /\ LABEL_ORDER[first_of(LABEL_ORDER, env)].kind =
                IF backend.kind = "emulator" THEN "firestore" ELSE backend.kind
<1>1. PICK i, j : i = first_of(ENV_ORDER, env) /\ j = first_of(LABEL_ORDER, env)
  OBVIOUS
<1>2. /\ i # 0 => i \in 1 .. 8 /\ j = i
      /\ i = 0 => j = IF "turso_path" \in env THEN 9 ELSE 0
  BY <1>1, SameChoice
<1>3. i = 0 => "turso_path" \in env
  <2>1. \A k \in 1 .. 8 : i = 0 => ~(ENV_ORDER[k].vars \subseteq env)
    <3>1. IsTheFirst(ENV_ORDER, 8, env, i)
      BY <1>1, FirstInBoth
    <3>2. QED
      BY <3>1 DEF IsTheFirst
  <2>2. i = 0 => /\ "aurora_dsql_url" \notin env /\ "neon_url" \notin env
                 /\ "supabase_url" \notin env /\ "pg_url" \notin env /\ "mysql_url" \notin env
                 /\ ~(trio \subseteq env)
                 /\ "firestore_project_id" \notin env /\ "mongodb_uri" \notin env
    BY <2>1 DEF ENV_ORDER, Step
  <2>3. QED
    BY <2>2 DEF UrlVars
<1>4. PICK kind : kind = IF i = 0 THEN "turso"
                         ELSE IF ENV_ORDER[i].kind = "firestore" THEN firestore_from_env(env)
                         ELSE ENV_ORDER[i].kind
  OBVIOUS
<1>5. backend = Backend(kind, "env", None, None, FALSE)
  BY <1>1, <1>3, <1>4 DEF resolve_from_env_only
<1>6. backend.kind = kind
  BY <1>5 DEF Backend
<1>7. j # 0 /\ LABEL_ORDER[j].kind = IF kind = "emulator" THEN "firestore" ELSE kind
  <2>1. CASE i = 0
    BY <1>2, <1>3, <1>4, <2>1, SameOrder DEF Step
  <2>2. CASE i # 0
    <3>1. i \in {1, 2, 3, 4, 5, 6, 7, 8} /\ j = i
      BY <1>2, <2>2
    <3>2. ENV_ORDER[i].kind # "emulator"
      BY <3>1 DEF ENV_ORDER, Step
    <3>3. firestore_from_env(env) \in {"firestore", "emulator"}
      BY DEF firestore_from_env
    <3>4. QED
      BY <1>2, <1>4, <2>2, <3>1, <3>2, <3>3, SameOrder
  <2>3. QED
    BY <2>1, <2>2
<1>8. QED
  BY <1>1, <1>5, <1>6, <1>7

LEMMA NothingSet ==
    ASSUME NEW env, UrlVars \intersect env = {}, ~(trio \subseteq env),
           {"firestore_project_id", "mongodb_uri", "turso_path"} \intersect env = {}
    PROVE  first_of(LABEL_ORDER, env) = 0
<1>1. PICK j : j = first_of(LABEL_ORDER, env)
  OBVIOUS
<1>2. /\ "aurora_dsql_url" \notin env /\ "neon_url" \notin env /\ "supabase_url" \notin env
      /\ "pg_url" \notin env /\ "mysql_url" \notin env
      /\ "firestore_project_id" \notin env /\ "mongodb_uri" \notin env /\ "turso_path" \notin env
  BY DEF UrlVars
<1>3. j \notin {1, 2, 3, 4, 5, 6, 7, 8, 9}
  <2>1. j \in 1 .. 9 => LABEL_ORDER[j].vars \subseteq env
    BY <1>1, FirstInBoth DEF IsTheFirst
  <2>2. QED
    BY <1>2, <2>1 DEF LABEL_ORDER, Step
<1>4. j = 0 \/ j \in 1 .. 9
  BY <1>1, FirstInBoth DEF IsTheFirst
<1>5. QED
  BY <1>1, <1>3, <1>4

\* The three things a boot can come to.
set_env(b) == from_process(b.process)
OfTheEnvironment(b, backend, label) ==
    /\ backend.source = "env"
    /\ label = <<"env", IF backend.kind = "emulator" THEN "firestore" ELSE backend.kind>>
    /\ "host" \notin set_env(b) => backend.ssh = None
    /\ "host" \in set_env(b) => /\ backend.ssh = Some(backend.ssh[1]) /\ "user" \in set_env(b)
                                /\ behind(backend.ssh[1], set_env(b))
OfTheFile(b, backend, label) ==
    \E n \in DOMAIN b.file :
        /\ backend = entry_to_backend(b.file[n], b.keychain)
        /\ label = <<b.file[n].id>>
        /\ non_empty(b.selector) # None => non_empty(b.selector) = Some(b.file[n].id)
InMemory(b, backend, label) ==
    /\ backend = Backend("turso", "in-memory", None, None, FALSE) /\ label = <<"in-memory">>
    /\ non_empty(b.selector) = None

LEMMA ABootComesTo ==
    ASSUME NEW b, b.file \in Seq(Saved), one_at_most(b.selector),
           NEW backend, backend = resolve_backend(b), ~failed(backend),
           NEW label, label = label_for(b)
    PROVE  \/ OfTheEnvironment(b, backend, label)
           \/ OfTheFile(b, backend, label) \/ InMemory(b, backend, label)
<1>1. PICK env : env = from_process(b.process)
  OBVIOUS
<1>2. PICK from_env \in BOOLEAN :
        from_env <=> \/ UrlVars \intersect env # {} \/ trio \subseteq env
                     \/ {"firestore_project_id", "mongodb_uri", "turso_path"} \intersect env # {}
  OBVIOUS
<1>3. PICK selector : selector = non_empty(b.selector)
  OBVIOUS
<1>4. PICK named : named = SelectInSeq(b.file, LAMBDA e : Some(e.id) = selector)
  OBVIOUS
<1>5. backend = IF from_env THEN attach_env_ssh(resolve_from_env_only(env), b.process)
                ELSE IF selector # None
                THEN IF named = 0 THEN Error("no such connection")
                     ELSE entry_to_backend(b.file[named], b.keychain)
                ELSE IF Len(b.file) = 1 THEN entry_to_backend(b.file[1], b.keychain)
                ELSE Backend("turso", "in-memory", None, None, FALSE)
  BY <1>1, <1>2, <1>3, <1>4 DEF resolve_backend, SelectInSeq
<1>6. PICK i : i = first_of(LABEL_ORDER, env)
  OBVIOUS
<1>7. label = IF i # 0 THEN <<"env", LABEL_ORDER[i].kind>>
              ELSE IF selector # None
              THEN IF selector[1] \in {e.id : e \in ToSet(b.file)} THEN selector ELSE <<"in-memory">>
              ELSE IF Len(b.file) = 1 THEN <<b.file[1].id>> ELSE <<"in-memory">>
  BY <1>1, <1>3, <1>6 DEF label_for
<1>8. CASE from_env
  <2>1. PICK base : base = resolve_from_env_only(env)
    OBVIOUS
  <2>2. /\ base = Backend(base.kind, "env", None, None, FALSE)
        /\ i # 0 /\ LABEL_ORDER[i].kind = IF base.kind = "emulator" THEN "firestore" ELSE base.kind
    BY <1>2, <1>6, <1>8, <2>1, TheEnvironments
  <2>3. backend = attach_env_ssh(base, b.process)
    BY <1>5, <1>8, <2>1
  <2>4. PICK bastion : bastion = resolved_ssh_from_env(b.process)
    OBVIOUS
  <2>5. /\ ~failed(bastion)
        /\ bastion.ssh = None => backend = base
        /\ bastion.ssh # None => backend = [base EXCEPT !.ssh = bastion.ssh]
    BY <2>3, <2>4, AnswersAndErrors DEF attach_env_ssh
  <2>6. "host" \notin env => bastion.ssh = None
    BY <1>1, <2>4 DEF resolved_ssh_from_env
  <2>7. "host" \in env =>
          /\ "user" \in env /\ bastion.ssh = Some(bastion.ssh[1]) /\ behind(bastion.ssh[1], env)
    <3>1. ASSUME "host" \in env
          PROVE  "user" \in env /\ unambiguous(env)
                 /\ bastion.ssh = Some(ResolvedSsh(env, ssh_port(b.process)))
      BY <1>1, <2>4, <2>5, <3>1, AnswersAndErrors DEF resolved_ssh_from_env
    <3>2. ASSUME "host" \in env PROVE behind(ResolvedSsh(env, ssh_port(b.process)), env)
      BY <3>1, <3>2, TheBastionSet
    <3>3. QED
      BY <3>1, <3>2 DEF Some
  <2>8. base.source = "env" /\ base.ssh = None
    BY <2>2 DEF Backend
  <2>9. backend.source = "env" /\ backend.kind = base.kind /\ backend.ssh = bastion.ssh
    BY <2>2, <2>5, <2>8 DEF Backend
  <2>10. label = <<"env", IF backend.kind = "emulator" THEN "firestore" ELSE backend.kind>>
    BY <1>7, <2>2, <2>9
  <2>11. QED
    BY <1>1, <2>6, <2>7, <2>9, <2>10 DEF OfTheEnvironment, set_env
<1>9. CASE ~from_env
  <2>1. i = 0
    BY <1>2, <1>6, <1>9, NothingSet
  <2>2. CASE selector # None
    <3>1. named # 0 /\ backend = entry_to_backend(b.file[named], b.keychain)
      BY <1>5, <1>9, <2>2, AnswersAndErrors
    <3>2. named \in DOMAIN b.file /\ Some(b.file[named].id) = selector
      <4>1. PICK found : found = {n \in 1 .. Len(b.file) : Some(b.file[n].id) = selector}
        OBVIOUS
      <4>2. named = IF found # {} THEN Min(found) ELSE 0
        BY <1>4, <4>1 DEF SelectInSeq
      <4>3. found \in SUBSET Nat /\ found # {}
        BY <3>1, <4>1, <4>2
      <4>4. named \in found
        BY <4>2, <4>3, LeastOf
      <4>5. QED
        BY <4>1, <4>4
    <3>3. selector[1] \in {e.id : e \in ToSet(b.file)}
      BY <3>2 DEF Some, ToSet
    <3>4. label = <<b.file[named].id>>
      BY <1>7, <2>1, <2>2, <3>2, <3>3 DEF Some
    <3>5. QED
      BY <1>3, <3>1, <3>2, <3>4 DEF OfTheFile
  <2>3. CASE selector = None /\ Len(b.file) = 1
    <3>1. backend = entry_to_backend(b.file[1], b.keychain) /\ label = <<b.file[1].id>>
      BY <1>5, <1>7, <1>9, <2>1, <2>3
    <3>2. 1 \in DOMAIN b.file
      BY <2>3
    <3>3. QED
      BY <1>3, <2>3, <3>1, <3>2 DEF OfTheFile
  <2>4. CASE selector = None /\ Len(b.file) # 1
    BY <1>3, <1>5, <1>7, <1>9, <2>1, <2>4 DEF InMemory
  <2>5. QED
    BY <2>2, <2>3, <2>4
<1>10. QED
  BY <1>8, <1>9

LEMMA BootedAsSet ==
    ASSUME RouteAssumption, NEW b \in Boots, boots(b), booted'
    PROVE  LabelNamesTheBackend' /\ TunnelIsNeverDropped'
<1>1. /\ parses(b.file)
      /\ told' = [backend |-> resolve_backend(b), label |-> label_for(b)]
  BY AnswersAndErrors DEF boots, booted
<1>2. PICK backend, label : backend = resolve_backend(b) /\ label = label_for(b)
  OBVIOUS
<1>3. told' = [backend |-> backend, label |-> label] /\ given' = b
  BY <1>1, <1>2 DEF boots
<1>4. ~failed(backend)
  BY <1>3 DEF booted
<1>5. /\ b.file \in Seq(Saved) /\ \A n \in DOMAIN b.file : listed(b.file[n])
      /\ in_keyring(b.keychain) /\ one_at_most(b.selector)
  BY DEF RouteAssumption
<1>6. ~opened'
  BY <1>3 DEF opened
<1>7. PICK saved : saved = {e \in ToSet(b.file) : e.id = backend.source /\ e.ssh # None}
  OBVIOUS
<1>8. \A e \in ToSet(b.file) : e.id \notin {"env", "in-memory"}
  BY <1>5 DEF ToSet, listed, Saved
<1>9. LabelNamesTheBackend' <=>
        /\ label = IF backend.source = "env"
                   THEN <<"env", IF backend.kind = "emulator" THEN "firestore" ELSE backend.kind>>
                   ELSE <<backend.source>>
        /\ backend.source # "env" /\ non_empty(b.selector) # None =>
             non_empty(b.selector) = Some(backend.source)
  <2>1. told'.backend = backend /\ told'.label = label /\ given'.selector = b.selector
    BY <1>3
  <2>2. booted'
    OBVIOUS
  <2>3. QED
    BY <2>1, <2>2 DEF LabelNamesTheBackend, non_empty
<1>10. TunnelIsNeverDropped' <=>
         IF (backend.source = "env" /\ "host" \in set_env(b)) \/ saved # {}
         THEN /\ backend.ssh # None
              /\ backend.source = "env" => "user" \in set_env(b) /\ behind(backend.ssh[1], set_env(b))
              /\ \A e \in saved : behind(backend.ssh[1], e.ssh[1].ways)
         ELSE backend.ssh = None
  BY <1>3, <1>4, <1>6, <1>7 DEF TunnelIsNeverDropped, booted, set_env
<1>11. CASE OfTheEnvironment(b, backend, label)
  <2>1. saved = {}
    BY <1>7, <1>8, <1>11 DEF OfTheEnvironment
  <2>2. "host" \in set_env(b) => backend.ssh # None
    BY <1>11 DEF OfTheEnvironment, Some, None
  <2>3. QED
    BY <1>9, <1>10, <1>11, <2>1, <2>2 DEF OfTheEnvironment
<1>12. CASE InMemory(b, backend, label)
  <2>1. backend.source = "in-memory" /\ backend.ssh = None
    BY <1>12 DEF InMemory, Backend
  <2>2. saved = {}
    BY <1>7, <1>8, <2>1
  <2>3. QED
    BY <1>9, <1>10, <1>12, <2>1, <2>2 DEF InMemory
<1>13. CASE OfTheFile(b, backend, label)
  <2>1. PICK n \in DOMAIN b.file :
          /\ backend = entry_to_backend(b.file[n], b.keychain)
          /\ label = <<b.file[n].id>>
          /\ non_empty(b.selector) # None => non_empty(b.selector) = Some(b.file[n].id)
    BY <1>13 DEF OfTheFile
  <2>2. PICK row : row = b.file[n]
    OBVIOUS
  <2>3. \A ssh \in ToSet(row.ssh) : supports_ssh_tunnel(row.kind) /\ validate(ssh)
    BY <1>1, <2>1, <2>2 DEF parses
  <2>4. /\ backend = Backend(backend.kind, row.id, backend.url, backend.ssh, backend.cluster)
        /\ row.ssh = None => backend.ssh = None
        /\ row.ssh # None =>
             backend.ssh = Some(backend.ssh[1]) /\ behind(backend.ssh[1], row.ssh[1].ways)
    BY <1>4, <1>5, <2>1, <2>2, <2>3, TheEntrySaved
  <2>5. backend.source = row.id
    BY <2>4 DEF Backend
  <2>6. row \in ToSet(b.file) /\ row.id \notin {"env", "in-memory"}
    BY <1>8, <2>1, <2>2 DEF ToSet
  <2>7. saved = IF row.ssh = None THEN {} ELSE {row}
    <3>1. ASSUME NEW e \in ToSet(b.file), e.id = row.id PROVE e = row
      <4>1. PICK m \in DOMAIN b.file : e = b.file[m]
        BY DEF ToSet
      <4>2. QED
        BY <1>1, <2>1, <2>2, <3>1, <4>1 DEF parses
    <3>2. QED
      BY <1>7, <2>5, <2>6, <3>1
  <2>8. row.ssh # None => backend.ssh # None
    BY <2>4 DEF Some, None
  <2>9. LabelNamesTheBackend'
    BY <1>9, <2>1, <2>2, <2>5, <2>6
  <2>10. TunnelIsNeverDropped'
    <3>1. backend.source # "env"
      BY <2>5, <2>6
    <3>2. CASE row.ssh = None
      BY <1>10, <2>4, <2>7, <3>1, <3>2
    <3>3. CASE row.ssh # None
      BY <1>10, <2>4, <2>7, <2>8, <3>1, <3>3
    <3>4. QED
      BY <3>2, <3>3
  <2>11. QED
    BY <2>9, <2>10
<1>14. QED
  BY <1>2, <1>4, <1>5, <1>11, <1>12, <1>13, ABootComesTo

AsSaved(o, answer) ==
    o.entry.kind \in Scoped \union {"aurora-dsql"} =>
        /\ Reaches(answer.dial, o.keychain.secret[1], o.entry.kind)
        /\ answer.dial.url.rest = o.keychain.secret[1].rest
        /\ Shows(answer.dial, answer.configured, o.keychain.secret[1], o.entry.kind, wanted_of(o))

LEMMA SavedAndDialled ==
    /\ DialledIsWhatWasSaved <=> (opened => AsSaved(given, told))
    /\ DialledIsWhatWasSaved' <=> (opened' => AsSaved(given', told'))
<1>1. DialledIsWhatWasSaved <=> (opened => AsSaved(given, told))
  BY DEF DialledIsWhatWasSaved, AsSaved, Reaches, Shows, wanted_of
<1>2. DialledIsWhatWasSaved' <=> (opened' => AsSaved(given', told'))
  BY DEF DialledIsWhatWasSaved, AsSaved, Reaches, Shows, wanted_of
<1>3. QED
  BY <1>1, <1>2

RouteInv == LabelNamesTheBackend /\ TunnelIsNeverDropped /\ DialledIsWhatWasSaved

LEMMA RoutesSafe ==
    ASSUME RouteAssumption
    PROVE  RouteSpec => []RouteInv
<1>1. ~booted /\ ~opened => RouteInv
  BY DEF RouteInv, LabelNamesTheBackend, TunnelIsNeverDropped, DialledIsWhatWasSaved
<1>2. RouteInit => RouteInv
  <2>1. ASSUME told = Nothing PROVE ~booted /\ ~opened
    BY <2>1 DEF booted, opened, Nothing
  <2>2. QED
    BY <1>1, <2>1 DEF RouteInit
<1>3. (~booted /\ ~opened)' => RouteInv'
  BY DEF RouteInv, LabelNamesTheBackend, TunnelIsNeverDropped, DialledIsWhatWasSaved
<1>4. ASSUME RouteInv, [RouteNext]_RouteVars PROVE RouteInv'
  <2>1. ASSUME NEW b \in Boots, boots(b) PROVE RouteInv'
    <3>1. ~opened'
      BY <2>1, AnswersAndErrors DEF boots, opened
    <3>2. CASE booted'
      <4>1. DialledIsWhatWasSaved'
        BY <3>1 DEF DialledIsWhatWasSaved
      <4>2. QED
        BY <2>1, <3>2, <4>1, BootedAsSet DEF RouteInv
    <3>3. CASE ~booted'
      BY <1>3, <3>1, <3>3
    <3>4. QED
      BY <3>2, <3>3
  <2>2. ASSUME NEW o \in Opens, opens(o) PROVE RouteInv'
    <3>1. given' = o
      BY <2>2 DEF opens
    <3>2. CASE opened'
      <4>1. PICK lets_in, answers, backend, scoped, listing, reached :
              Stages(o, lets_in, answers, backend, scoped, listing, reached)
        BY <2>2, <3>2, WhatIsOpened
      <4>2. ~booted'
        BY <4>1 DEF Stages, booted
      <4>3. listed(o.entry) /\ in_keyring(o.keychain)
        BY DEF RouteAssumption
      <4>4. /\ ThroughItsBastion(o, told'.dial)
            /\ o.entry.kind \in Scoped \union {"aurora-dsql"} =>
                 /\ Reaches(told'.dial, o.keychain.secret[1], o.entry.kind)
                 /\ told'.dial.url.rest = o.keychain.secret[1].rest
                 /\ Shows(told'.dial, told'.configured, o.keychain.secret[1], o.entry.kind,
                          wanted_of(o))
        BY <2>2, <3>2, <4>3, OpenedAsSaved
      <4>5. TunnelIsNeverDropped'
        BY <3>1, <4>2, <4>4 DEF TunnelIsNeverDropped, ThroughItsBastion
      <4>6. DialledIsWhatWasSaved'
        <5>1. AsSaved(o, told')
          BY <4>4 DEF AsSaved
        <5>2. QED
          BY <3>1, <5>1, SavedAndDialled
      <4>7. LabelNamesTheBackend'
        BY <4>2 DEF LabelNamesTheBackend
      <4>8. QED
        BY <4>5, <4>6, <4>7 DEF RouteInv
    <3>3. CASE ~opened'
      <4>1. ~booted'
        <5>1. PICK lets_in \in BOOLEAN, answers \in BOOLEAN :
                told' = IF parses(<<o.entry>>) THEN adapter_for_target(o, lets_in, answers)
                        ELSE Error("file")
          BY <2>2 DEF opens
        <5>2. QED
          <6>1. "label" \notin DOMAIN told' \/ opened'
            <7>1. CASE told' = Error("file")
              BY <7>1, AnswersAndErrors
            <7>2. CASE told' = adapter_for_target(o, lets_in, answers)
              <8>1. PICK dial, configured, cluster :
                      told' = IF failed(dial) THEN dial
                              ELSE [dial |-> dial, configured |-> configured, cluster |-> cluster]
                BY <7>2 DEF adapter_for_target
              <8>2. CASE failed(dial)
                BY <8>1, <8>2 DEF failed
              <8>3. CASE ~failed(dial)
                BY <8>1, <8>3 DEF opened
              <8>4. QED
                BY <8>2, <8>3
            <7>3. QED
              BY <5>1, <7>1, <7>2
          <6>2. QED
            BY <3>3, <6>1 DEF booted
      <4>2. QED
        BY <1>3, <3>3, <4>1
    <3>4. QED
      BY <3>2, <3>3
  <2>3. CASE UNCHANGED RouteVars
    <3>1. given' = given /\ told' = told
      BY <2>3 DEF RouteVars
    <3>2. LabelNamesTheBackend'
      BY <1>4, <3>1 DEF RouteInv, LabelNamesTheBackend, booted
    <3>3. TunnelIsNeverDropped'
      BY <1>4, <3>1 DEF RouteInv, TunnelIsNeverDropped, booted, opened
    <3>4. DialledIsWhatWasSaved'
      BY <1>4, <3>1, SavedAndDialled DEF RouteInv, opened
    <3>5. QED
      BY <3>2, <3>3, <3>4 DEF RouteInv
  <2>4. QED
    BY <1>4, <2>1, <2>2, <2>3 DEF RouteNext
<1>5. QED
  BY <1>2, <1>4, PTL DEF RouteSpec

(***************************************************************************)
(* The label statements are in_keyring under names the backend that is opened,   *)
(* whatever is set and whatever is saved (config.rs, resolve_backend and   *)
(* label_for).                                                             *)
(***************************************************************************)
THEOREM LabelsNameTheBackend ==
    ASSUME RouteAssumption
    PROVE  RouteSpec => []LabelNamesTheBackend
<1>1. RouteInv => LabelNamesTheBackend
  BY DEF RouteInv
<1>2. QED
  BY <1>1, RoutesSafe, PTL

(***************************************************************************)
(* A bastion that is configured is in front of what is opened, with the    *)
(* one way in and the one host key that were set (config.rs, ssh.rs).      *)
(***************************************************************************)
THEOREM TunnelsAreNeverDropped ==
    ASSUME RouteAssumption
    PROVE  RouteSpec => []TunnelIsNeverDropped
<1>1. RouteInv => TunnelIsNeverDropped
  BY DEF RouteInv
<1>2. QED
  BY <1>1, RoutesSafe, PTL

(***************************************************************************)
(* What is dialled is the server that was saved and the database asked     *)
(* for, tunnelled or not (backend.rs, ssh.rs, scope.rs).                   *)
(***************************************************************************)
THEOREM WhatWasSavedIsDialled ==
    ASSUME RouteAssumption
    PROVE  RouteSpec => []DialledIsWhatWasSaved
<1>1. RouteInv => DialledIsWhatWasSaved
  BY DEF RouteInv
<1>2. QED
  BY <1>1, RoutesSafe, PTL
===============================================================================
