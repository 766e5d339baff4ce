------------------------------ MODULE RedisReads ------------------------------
(***************************************************************************)
(* dbboard-redis: the commands a caller may send, and how a scan walks.    *)
(*                                                                         *)
(* `RedisAdapter::run` classifies a command line (read_only.rs), measures  *)
(* a collection before it reads it whole, and follows a scan page by page  *)
(* (adapter.rs), node by node in a cluster.  The server keeps what it has  *)
(* in buckets: a cursor names the bucket to go on from, and a page holds   *)
(* as many buckets as the server likes.  Other clients add and remove      *)
(* elements between any two replies, and a caller continues a scan from    *)
(* the cursor its rows carry.                                              *)
(***************************************************************************)
EXTENDS Integers, FiniteSets, SequencesExt, FiniteSetsExt

CONSTANTS Elements, Buckets,
          Connections,            \* "single" and "cluster": how it connected
          Requests,               \* the command lines that are tried
          MAX_RESULT_ROWS, MAX_SCAN_COUNT, DEFAULT_SCAN_ROWS, MAX_SCAN_CALLS,
          MaxRows,                \* the rows a caller of query_read_only allows
          MaxChanges,             \* bound: elements added or removed
          MaxPages                \* bound: continuations of a scan

VARIABLES cluster,   \* whether the connection is a cluster's
          where,     \* of each element, the node and bucket it is in
          command,   \* the call being served
          walk,      \* what its caller has read, page after page
          changed    \* how many changes other clients have made

RedisVars == <<cluster, where, command, walk, changed>>

Nodes == IF cluster THEN 1 .. 2 ELSE {1}
Nowhere == <<0, 0>>
Places(nodes) == (nodes \X (1 .. Buckets)) \union {Nowhere}

\* A word of a command line: a bare word, or one that reads as a number.
Word(s) == [s |-> s, n |-> 0]
Num(n) == [s |-> "#", n |-> n]

---------------------------------------------------------------------------
(* The classifier.  A verdict is a shape and the size guard, or a refusal. *)

NotARead == [shape |-> "refused", guard |-> "none"]
plain(shape) == [shape |-> shape, guard |-> "none"]
guarded(shape, len) == [shape |-> shape, guard |-> len]

arity(args, min, max) == Len(args) \in min .. max
many(args, min) == arity(args, min, MAX_RESULT_ROWS)

indexes(args) == args[2].s = "#" /\ args[3].s = "#"

\* A range that is plainly small needs no measuring.
small_range(args) ==
    /\ args[2].n >= 0
    /\ args[3].n >= args[2].n
    /\ args[3].n - args[2].n < MAX_RESULT_ROWS

range(args, shape, len) ==
    IF ~arity(args, 3, 3) \/ ~indexes(args) THEN NotARead
    ELSE IF small_range(args) THEN plain(shape) ELSE guarded(shape, len)

whole(args, len, shape) ==
    IF arity(args, 1, 1) THEN guarded(shape, len) ELSE NotARead

zrange(args) ==
    LET options == {args[i].s : i \in 4 .. Len(args)}
        scores == "WITHSCORES" \in options
    IN  IF Len(args) < 3 \/ ~(options \subseteq {"WITHSCORES", "REV"})
           \/ Cardinality({i \in 4 .. Len(args) : args[i].s = "WITHSCORES"}) > 1
        THEN NotARead
        ELSE range(SubSeq(args, 1, 3),
                   IF scores THEN "MemberScores" ELSE "Values", "ZCARD")

\* The options after the cursor, one or two words at a time; "bad" is a
\* refusal, whatever follows.
options_ok[name \in STRING, rest \in Seq([s : STRING, n : Int])] ==
    \/ rest = <<>>
    \/ /\ rest[1].s = "MATCH" \/ (rest[1].s = "TYPE" /\ name = "SCAN")
       /\ Len(rest) >= 2 /\ options_ok[name, SubSeq(rest, 3, Len(rest))]
    \/ /\ rest[1].s = "COUNT"
       /\ Len(rest) >= 2 /\ rest[2].s = "#" /\ rest[2].n \in 0 .. MAX_SCAN_COUNT
       /\ options_ok[name, SubSeq(rest, 3, Len(rest))]
    \/ /\ rest[1].s = "NOVALUES" /\ name = "HSCAN"
       /\ options_ok[name, Tail(rest)]

scan(name, args, keys) ==
    IF Len(args) < keys + 1 \/ args[keys + 1].s # "#"
    THEN NotARead
    ELSE LET rest == SubSeq(args, keys + 2, Len(args))
         IN  IF ~options_ok[name, rest] THEN NotARead
             ELSE plain(CASE name = "SCAN" -> "ScanKeys"
                          [] name = "HSCAN" ->
                               IF Word("NOVALUES") \in ToSet(rest)
                               THEN "ScanMembers" ELSE "ScanFieldValues"
                          [] name = "ZSCAN" -> "ScanMemberScores"
                          [] OTHER -> "ScanMembers")

xrange(args) ==
    IF Len(args) = 5 /\ args[4].s = "COUNT" /\ args[5].s = "#"
       /\ args[5].n \in 0 .. MAX_RESULT_ROWS
    THEN plain("Entries") ELSE NotARead

rank(args) ==
    IF ~arity(args, 2, 3) THEN NotARead
    ELSE IF Len(args) = 2 THEN plain("Value")
    ELSE IF args[3].s = "WITHSCORE" THEN plain("Values") ELSE NotARead

object(args) ==
    IF arity(args, 2, 2) /\ args[1].s \in {"ENCODING", "FREQ", "IDLETIME", "REFCOUNT"}
    THEN plain("Value") ELSE NotARead

memory(args) ==
    IF /\ args # <<>> /\ args[1].s = "USAGE"
       /\ \/ Len(args) = 2
          \/ Len(args) = 4 /\ args[3].s = "SAMPLES" /\ args[4].s = "#" /\ args[4].n >= 0
    THEN plain("Value") ELSE NotARead

xinfo(args) ==
    IF Len(args) = 2 /\ args[1].s = "STREAM" THEN plain("FieldValues") ELSE NotARead

info(args) == IF Word("") \in ToSet(args) THEN NotARead ELSE plain("Info")

fixed(args, min, max) == IF arity(args, min, max) THEN plain("Value") ELSE NotARead

rule(name, args) ==
    CASE name = "PING" -> fixed(args, 0, 1)
      [] name \in {"DBSIZE", "UMBRA.BRANCHES"} -> fixed(args, 0, 0)
      [] name = "INFO" -> info(args)
      [] name \in {"TYPE", "TTL", "PTTL", "EXPIRETIME", "PEXPIRETIME", "STRLEN", "GET",
                   "HLEN", "LLEN", "SCARD", "ZCARD", "XLEN", "UMBRA.LOG"} ->
           fixed(args, 1, 1)
      [] name \in {"HGET", "HEXISTS", "HSTRLEN", "LINDEX", "SISMEMBER", "ZSCORE",
                   "UMBRA.HISTORY", "UMBRA.DIFF"} -> fixed(args, 2, 2)
      [] name = "UMBRA.CELLS" -> fixed(args, 1, 2)
      [] name \in {"GETRANGE", "ZCOUNT"} -> fixed(args, 3, 3)
      [] name \in {"EXISTS", "MGET"} ->
           IF ~many(args, 1) THEN NotARead
           ELSE plain(IF name = "MGET" THEN "Values" ELSE "Value")
      [] name \in {"HMGET", "SMISMEMBER"} ->
           IF many(args, 2) THEN plain("Values") ELSE NotARead
      [] name \in {"ZRANK", "ZREVRANK"} -> rank(args)
      [] name = "OBJECT" -> object(args)
      [] name = "MEMORY" -> memory(args)
      [] name = "HGETALL" -> whole(args, "HLEN", "FieldValues")
      [] name \in {"HKEYS", "HVALS"} -> whole(args, "HLEN", "Values")
      [] name = "SMEMBERS" -> whole(args, "SCARD", "Values")
      [] name = "LRANGE" -> range(args, "Values", "LLEN")
      [] name = "ZRANGE" -> zrange(args)
      [] name = "SCAN" -> scan(name, args, 0)
      [] name \in {"HSCAN", "SSCAN", "ZSCAN"} -> scan(name, args, 1)
      [] name \in {"XRANGE", "XREVRANGE"} -> xrange(args)
      [] name = "XINFO" -> xinfo(args)
      [] OTHER -> NotARead        \* KEYS, every write, and what nobody listed

classify(words) ==
    IF words = <<>> THEN NotARead ELSE rule(words[1].s, Tail(words))

Scans == {"ScanKeys", "ScanMembers", "ScanFieldValues", "ScanMemberScores"}

---------------------------------------------------------------------------
(* What the server holds, and what it answers. *)

Everything(w) == {e \in Elements : w[e] # Nowhere}

\* What is in the buckets a page holds, from one to another, in the server's order.
Page(w, node, from, to) == SetToSeq({e \in Elements : w[e] \in {node} \X (from .. to)})

\* The elements a command asks the server for in one reply.
asked_for(words, w) ==
    LET n == Cardinality(Everything(w))
        at(i) == IF i < 0 THEN n + i ELSE i
    IN  CASE words[1].s \in {"LRANGE", "ZRANGE"} ->
               Cardinality({i \in 0 .. n - 1 : i >= at(words[3].n) /\ i <= at(words[4].n)})
          [] words[1].s \in {"XRANGE", "XREVRANGE"} ->
               IF words[6].n < n THEN words[6].n ELSE n
          [] words[1].s \in {"HGETALL", "HKEYS", "HVALS", "SMEMBERS"} -> n
          [] OTHER -> 1

\* How many rows a scan collects: its COUNT, else a page, within the cap.
wanted(words) ==
    LET named == {i \in 1 .. Len(words) - 1 :
                     /\ words[i].s = "COUNT" /\ \A j \in 1 .. i - 1 : words[j].s # "COUNT"
                     /\ words[i + 1].s = "#" /\ words[i + 1].n >= 0}
        count == IF named = {} THEN DEFAULT_SCAN_ROWS
                 ELSE LET at == CHOOSE i \in named : TRUE IN words[at + 1].n
    IN  Max({1, Min({count, Max({1, MaxRows})})})

---------------------------------------------------------------------------
(* The sidebar's entries: one MATCH pattern for each first segment. *)

Special == {"*", "?", "[", "]", "\\"}

escape_glob(text) ==
    FlattenSeq([i \in DOMAIN text |->
        IF text[i] \in Special THEN <<"\\", text[i]>> ELSE <<text[i]>>])

group_pattern(key, delimiter) ==
    LET at == {i \in DOMAIN key : key[i] = delimiter}
    IN  IF at = {} THEN escape_glob(key)
        ELSE escape_glob(SubSeq(key, 1, Min(at) - 1)) \o <<delimiter, "*">>

\* What MATCH makes of a pattern.
glob[p \in Seq(STRING), t \in Seq(STRING)] ==
    IF p = <<>> THEN t = <<>>
    ELSE IF p[1] = "*"
    THEN glob[Tail(p), t] \/ (t # <<>> /\ glob[p, Tail(t)])
    ELSE LET literal == p[1] = "\\" /\ Len(p) > 1
             c == IF literal THEN p[2] ELSE p[1]
             rest == SubSeq(p, IF literal THEN 3 ELSE 2, Len(p))
         IN  t # <<>> /\ t[1] = c /\ glob[rest, Tail(t)]

KeyTexts == SeqOf({"a", "*", ":"}, 3) \ {<<>>}

---------------------------------------------------------------------------
(* A call. *)

NoCommand == [at |-> "idle", words |-> <<>>, shape |-> "none", node |-> 1, cursor |-> 0,
              calls |-> 0, items |-> <<>>, found |-> <<>>, complete |-> TRUE]
NoWalk == [rows |-> {}, next |-> "none", cursor |-> 0, stable |-> {}, pages |-> 0,
           kind |-> <<>>, last |-> 0]

RedisInit ==
    /\ cluster \in {mode = "cluster" : mode \in Connections}
    /\ where \in [Elements -> Places(Nodes)]
    /\ command = NoCommand /\ walk = NoWalk /\ changed = 0

ended(rows, count, next, cursor) ==
    /\ command' = NoCommand
    /\ walk' = [walk EXCEPT !.rows = @ \union rows, !.next = next, !.cursor = cursor,
                            !.pages = @ + 1, !.last = count]

gives_up ==
    /\ command' = NoCommand /\ walk' = [NoWalk EXCEPT !.pages = walk.pages + 1]
    /\ UNCHANGED <<cluster, where, changed>>

\* The cursor's place among the words of a scan.
at_cursor(shape) == IF shape = "ScanKeys" THEN 2 ELSE 3

\* A caller starts a command, or goes on with the scan it has the cursor of.
run_command ==
    /\ command.at = "idle" /\ walk.pages < MaxPages
    /\ \E words \in Requests :
         LET verdict == classify(words)
             cursor == IF verdict.shape \in Scans THEN words[at_cursor(verdict.shape)].n ELSE 0
             fresh == [NoWalk EXCEPT !.stable = Everything(where), !.pages = walk.pages,
                                     !.kind = words]
         IN  IF \/ verdict.shape = "refused"
                \/ verdict.shape = "ScanKeys" /\ cluster /\ cursor # 0
             THEN /\ command' = NoCommand
                  /\ walk' = [NoWalk EXCEPT !.pages = walk.pages + 1]
             ELSE /\ command' = [NoCommand EXCEPT
                       !.at = IF verdict.guard # "none" THEN "measure"
                              ELSE IF verdict.shape \in Scans THEN "follow" ELSE "read",
                       !.words = words, !.shape = verdict.shape, !.cursor = cursor]
                  /\ walk' = fresh
    /\ UNCHANGED <<cluster, where, changed>>

run_on ==
    /\ command.at = "idle" /\ walk.pages < MaxPages
    /\ walk.next = "more"
    /\ LET shape == classify(walk.kind).shape
           words == [walk.kind EXCEPT ![at_cursor(shape)] = Num(walk.cursor)]
       IN  command' = [NoCommand EXCEPT !.at = "follow", !.words = words, !.shape = shape,
                                        !.cursor = walk.cursor]
    /\ UNCHANGED <<cluster, where, walk, changed>>

\* Measure the collection, and refuse one over the cap before it is sent.
check_size ==
    /\ command.at = "measure"
    /\ LET size == Cardinality(Everything(where))
       IN  IF size > MaxRows
           THEN gives_up
           ELSE /\ command' = [command EXCEPT !.at = "read"]
                /\ UNCHANGED <<cluster, where, walk, changed>>

\* Send the command and shape its reply; it may have grown since.
over_cap(n) == n > MaxRows

send ==
    /\ command.at = "read"
    /\ LET n == asked_for(command.words, where)
       IN  IF over_cap(n) THEN gives_up
           ELSE /\ ended({}, n, "none", 0)
                /\ UNCHANGED <<cluster, where, changed>>

\* What one node of a scan still has to collect: rows count their items.
\* (A field-value scan has two items to a row, and twice the rows to want.)
want == wanted(command.words) - Len(command.found)

\* A cluster's scan goes to its nodes in turn; a collection is on one node.
node_by_node == cluster /\ command.shape = "ScanKeys"

truncated(items) == SubSeq(items, 1, Min({want, Len(items)}))

\* As still_complete, but an unfinished node is forgotten.
forgets_the_node(next) == TRUE

\* The walk of one node ended, or as much as was asked for is in hand.
still_complete(next) == command.complete /\ next = 0

node_done(items, next) ==
    LET found == command.found \o truncated(items)
        complete == still_complete(next)
        full == Len(found) >= wanted(command.words)
    IN  IF ~node_by_node
        THEN ended(ToSet(truncated(items)), Len(truncated(items)),
                   IF next = 0 THEN "0" ELSE "more", next)
        ELSE IF full \/ command.node = Max(Nodes)
        THEN ended(ToSet(found), Len(found),
                   IF complete /\ ~full THEN "0" ELSE "partial", 0)
        ELSE /\ command' = [command EXCEPT !.node = @ + 1, !.cursor = 0, !.calls = 0,
                                           !.items = <<>>, !.found = found, !.complete = complete]
             /\ UNCHANGED walk

\* One page of a scan: the server answers some buckets, at least one.
follow ==
    /\ command.at = "follow"
    /\ \E last \in (command.cursor + 1) .. Buckets :
         LET page == Page(where, command.node, command.cursor + 1, last)
             items == command.items \o page
             next == IF last = Buckets THEN 0 ELSE last
         IN  IF next = 0 \/ Len(items) >= want \/ command.calls + 1 = MAX_SCAN_CALLS
             THEN node_done(items, next)
             ELSE /\ command' = [command EXCEPT !.items = items, !.cursor = next, !.calls = @ + 1]
                  /\ UNCHANGED walk
    /\ UNCHANGED <<cluster, where, changed>>

\* The server, or a node of it, cannot be reached or answers otherwise.
send_fails == command.at # "idle" /\ gives_up

\* Another client adds an element or removes one.
changes ==
    /\ changed < MaxChanges /\ changed' = changed + 1
    /\ \E e \in Elements : \E p \in Places(Nodes) :
         /\ p # where[e]
         /\ p = Nowhere \/ where[e] = Nowhere
         /\ where' = [where EXCEPT ![e] = p]
         /\ walk' = [walk EXCEPT !.stable = @ \ {e}]
    /\ UNCHANGED <<cluster, command>>

RedisNext ==
    \/ run_command \/ run_on \/ check_size \/ send \/ follow \/ send_fails
    \/ changes
RedisSpec == RedisInit /\ [][RedisNext]_RedisVars

---------------------------------------------------------------------------
(* What a caller relies on. *)

\* A cluster's SCAN that says it is complete (next_cursor 0) has every key
\* that was on its node from the call's start to its end: no node was left
\* half-walked, and none was cut to the rows asked for
\* (adapter.rs, scan_cluster).
ClusterScanIsWhole ==
    cluster /\ walk.kind # <<>> /\ walk.kind[1].s = "SCAN" /\ walk.next = "0"
        => walk.stable \subseteq walk.rows

\* An answer never holds more rows than the caller allowed, though the
\* collection may grow between the size check and the read
\* (adapter.rs, run).
AnswersFitTheCap == walk.last <= MaxRows

\* A command that is sent asks, at the moment it is let through, for no more
\* than a result may hold, whatever its range counts from: "a million-member
\* set never reaches the wire" (read_only.rs).
NothingIsReadBlind ==
    command.at # "read" /\ command'.at = "read" =>
        asked_for(command'.words, where) <= MAX_RESULT_ROWS

\* Each key is under exactly one entry of the sidebar: the pattern that
\* browses an entry matches the keys the entry stands for, and no others
\* (adapter.rs, group and escape_glob).
EveryKeyHasItsEntry ==
    \A k, j \in KeyTexts :
        glob[group_pattern(k, ":"), j] <=> group_pattern(k, ":") = group_pattern(j, ":")
=============================================================================
