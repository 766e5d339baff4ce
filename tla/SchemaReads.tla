---------------------------------- MODULE SchemaReads ----------------------------------
(***************************************************************************)
(* The calls of McpService that walk a whole schema: diff_schemas,         *)
(* list_relationships, search_schema, and table_ddl as a dump asks for it. *)
(* Each lists the tables and then reads them one statement after the       *)
(* other; between two statements somebody else may drop a table, and a     *)
(* table that is listed may be one this account cannot read.               *)
(***************************************************************************)
EXTENDS SchemaDiff

CONSTANTS
    Scenarios,          \* records: engine, left, right (sets of tables), denied, drops
    MAX_RELATIONSHIPS, MAX_SCHEMA_MATCHES

VARIABLES
    scenario,           \* the databases as they were found, chosen once
    database,           \* the tables of each side
    call                \* the walk in progress

ReadVars == <<scenario, database, call>>

Sides == {"left", "right"}
Walks == {"diff", "relationships", "search", "ddl"}
engine == scenario.engine

NoCall == [kind |-> "none", side |-> "left", at |-> "idle", todo |-> <<>>, filter |-> None,
           columns |-> <<>>, schema |-> None, foreign_keys |-> <<>>,
           snapshots |-> [s \in Sides |-> <<>>], edges |-> <<>>, unreadable |-> {},
           matches |-> <<>>, ddl |-> <<>>, truncated |-> FALSE, result |-> "none"]

ReadInit ==
    /\ scenario \in Scenarios
    /\ database = [s \in Sides |-> IF s = "left" THEN scenario.left ELSE scenario.right]
    /\ call = NoCall

table_names(tables) == {t.table : t \in tables}
there(name) == \E t \in database[call.side] : t.table = name
declared(name) == CHOOSE t \in database[call.side] : t.table = name
readable(name) == <<call.side, name>> \notin scenario.denied

\* The primary key of a parent as it is now, none if it cannot be described.
parent_key(name) == IF there(name) /\ readable(name) THEN declared(name).key ELSE <<>>
-------------------------------------------------------------------------------
\* No engine's tables but Turso's come without their DDL.
start(kind, filter) ==
    /\ call.at = "idle" /\ call.result = "none"
    /\ kind = "ddl" => engine # "turso"
    /\ call' = [NoCall EXCEPT !.kind = kind, !.at = "list", !.filter = filter, !.result = "running"]
    /\ UNCHANGED <<scenario, database>>

fail == call' = [call EXCEPT !.at = "idle", !.result = "failed"]

\* Where the walk goes after what it has read of a table.
goes_on(c) ==
    IF c.todo # <<>> /\ Len(c.todo) > 1 THEN [c EXCEPT !.todo = Tail(@), !.at = "columns"]
    ELSE IF c.kind = "diff" /\ c.side = "left"
    THEN [c EXCEPT !.side = "right", !.at = "list", !.todo = <<>>]
    ELSE [c EXCEPT !.at = "idle", !.todo = <<>>, !.result = "done"]

list_tables ==
    /\ call.at = "list"
    /\ LET listed == SetToSeq(table_names(database[call.side]))
       IN call' = IF listed = <<>> THEN goes_on([call EXCEPT !.todo = <<>>])
                  ELSE [call EXCEPT !.todo = listed, !.at = "columns"]
    /\ UNCHANGED <<scenario, database>>

current == Head(call.todo)
reads(at) == call.at = at /\ call.todo # <<>>

\* A table that is gone, or that cannot be read, fails the walk.
cannot_describe == fail

\* One PRAGMA has the columns and the key.
pragma_schema(t) ==
    IF engine = "turso" THEN pragma_described(table_info(t))
    ELSE envelope_to_table_schema(envelope(<<"pk", "name", "cid", "dflt_value", "notnull", "type">>,
                                           table_info(t)))

\* The columns, and in SQLite the key with them.  What wants no more than the
\* foreign keys or the statements asks for those alone.
read_columns ==
    /\ reads("columns") /\ call.kind \in {"diff", "search"}
    /\ ~ (call.kind = "search" /\ Len(call.matches) >= MAX_SCHEMA_MATCHES)
    /\ IF ~ there(current) \/ ~ readable(current) THEN cannot_describe
       ELSE call' = [call EXCEPT !.columns = declared(current).columns, !.at = "key",
                                 !.schema = IF engine \in Sqlite THEN pragma_schema(declared(current))
                                            ELSE None]
    /\ UNCHANGED <<scenario, database>>

\* Elsewhere the key is a read of its own, and the table may be gone by now: an
\* empty answer, and no error.
read_key ==
    /\ reads("key") /\ call.kind = "diff"
    /\ LET key == IF there(current) THEN declared(current).key ELSE <<>>
       IN call' = [call EXCEPT !.schema = IF engine \in Sqlite THEN @ ELSE described(call.columns, key),
                               !.at = "foreign_keys"]
    /\ UNCHANGED <<scenario, database>>

Nothing == [table |-> None, keys |-> {}, indexes |-> {}]
now(name) == IF there(name) THEN declared(name) ELSE Nothing

\* In SQLite the rows come in any order.
Answers(t) ==
    IF engine \in Sqlite
    THEN {group_foreign_keys(IF engine = "turso" THEN raw
                             ELSE envelope_to_raw_fks(envelope(<<"to", "from", "table", "id", "seq">>, raw)),
                             parent_key) : raw \in SetToSeqs(pragma_fk_rows(t))}
    ELSE {fold_foreign_keys(fk_rows(t))}

read_foreign_keys ==
    /\ reads("foreign_keys") /\ call.kind = "diff"
    /\ IF ~ readable(current) THEN fail
       ELSE \E keys \in Answers(now(current)) :
               call' = [call EXCEPT !.foreign_keys = keys, !.at = "indexes"]
    /\ UNCHANGED <<scenario, database>>

\* snapshot_schema: every table of one connection, described.
read_indexes ==
    /\ reads("indexes") /\ call.kind = "diff"
    /\ LET indexes == list_indexes(engine, now(current))
       IN IF indexes = Failed THEN fail
          ELSE call' = goes_on([call EXCEPT !.snapshots[call.side] = Append(@,
                                  [table |-> current, schema |-> call.schema,
                                   foreign_keys |-> call.foreign_keys, indexes |-> indexes])])
    /\ UNCHANGED <<scenario, database>>
-------------------------------------------------------------------------------
\* search_schema: stops at the cap before it reads another table.
match ==
    /\ reads("key") /\ call.kind = "search"
    /\ LET found == current = call.filter
                    \/ \E i \in DOMAIN call.columns : call.columns[i].name = call.filter
       IN call' = goes_on(IF found THEN [call EXCEPT !.matches = Append(@, current)] ELSE call)
    /\ UNCHANGED <<scenario, database>>

search_is_full ==
    /\ reads("columns") /\ call.kind = "search" /\ Len(call.matches) >= MAX_SCHEMA_MATCHES
    /\ call' = [call EXCEPT !.at = "idle", !.truncated = TRUE, !.result = "done"]
    /\ UNCHANGED <<scenario, database>>

edge_touches(edge, filter) == filter \in {None, edge.from_table, edge.table}

\* One table that cannot be read does not take the whole answer with it.
unreadable(c) == goes_on([c EXCEPT !.unreadable = @ \cup {current}])

\* list_relationships: the edges of one table, up to the cap.
collect ==
    /\ reads("columns") /\ call.kind = "relationships"
    /\ IF ~ readable(current) THEN call' = unreadable(call)
       ELSE \E keys \in Answers(now(current)) :
               LET edge(k) == [from_table |-> current, from |-> k.from, table |-> k.table, to |-> k.to]
                   mine == SelectSeq([i \in DOMAIN keys |-> edge(keys[i])],
                                     LAMBDA e : edge_touches(e, call.filter))
                   all == call.edges \o mine
               IN call' = IF Len(all) >= MAX_RELATIONSHIPS
                          THEN [call EXCEPT !.edges = SubSeq(all, 1, MAX_RELATIONSHIPS),
                                            !.truncated = TRUE, !.at = "idle", !.result = "done"]
                          ELSE goes_on([call EXCEPT !.edges = all])
    /\ UNCHANGED <<scenario, database>>

dump_table ==
    /\ reads("columns") /\ call.kind = "ddl"
    /\ IF ~ there(current) \/ ~ readable(current) THEN fail
       ELSE call' = [call EXCEPT !.ddl = table_ddl(engine, declared(current)), !.at = "idle",
                                 !.result = "done"]
    /\ UNCHANGED <<scenario, database>>

\* Somebody else drops a table.
drop_table(side) ==
    /\ Cardinality(scenario.left) + Cardinality(scenario.right)
         < Cardinality(database["left"]) + Cardinality(database["right"]) + scenario.drops
    /\ call.result = "running"
    /\ \E t \in database[side] : database' = [database EXCEPT ![side] = @ \ {t}]
    /\ UNCHANGED <<scenario, call>>

ReadNext ==
    \/ \E kind \in Walks, filter \in {None, "t", "a"} : start(kind, filter)
    \/ list_tables \/ read_columns \/ read_key \/ read_foreign_keys \/ read_indexes
    \/ match \/ search_is_full \/ collect \/ dump_table
    \/ \E side \in Sides : drop_table(side)

ReadSpec == ReadInit /\ [][ReadNext]_ReadVars
-------------------------------------------------------------------------------
done(kind) == call.kind = kind /\ call.result = "done"
untouched == database = [s \in Sides |-> IF s = "left" THEN scenario.left ELSE scenario.right]

\* What a table is, whatever order its columns and its keys are written in.
named(key) == IF engine \in Sqlite THEN None ELSE key.name
parent_of(key, side) == CHOOSE t \in database[side] : t.table = key.table
seen(t, side) ==
    [table |-> t.table, key |-> t.key,
     columns |-> {[c EXCEPT !.default = column_default(c)] : c \in ToSet(t.columns)},
     keys |-> {[k EXCEPT !.name = named(k),
                         !.to = IF @ # <<>> THEN @ ELSE parent_of(k, side).key] : k \in t.keys},
     indexes |-> {[name |-> x.name, unique |-> x.unique, parts |-> SelectSeq(x.parts, is_column)] :
                    x \in {y \in t.indexes : y.origin # "pk"}}]

(***************************************************************************)
(* A comparison finds nothing exactly if the two schemas are the same but  *)
(* for the order of columns: "missing one costs them the migration"        *)
(* (schema_diff.rs), through the catalog's rows, the adapter's assembly    *)
(* and the comparison.                                                     *)
(***************************************************************************)
NoDifferenceIsMissed ==
    done("diff") /\ untouched =>
        LET side(s) == {seen(t, s) : t \in database[s]}
        IN is_empty(diff_snapshots(call.snapshots["left"], call.snapshots["right"]))
              <=> side("left") = side("right")

(***************************************************************************)
(* A table is reported as missing from a side only if that side does not   *)
(* have it: one that could not be described is an unanswered question, not *)
(* a difference (diff_schemas).                                            *)
(***************************************************************************)
MissingIsMissing ==
    done("diff") =>
        LET diff == diff_snapshots(call.snapshots["left"], call.snapshots["right"])
        IN /\ diff.tables_only_in_left \cap table_names(database["right"]) = {}
           /\ diff.tables_only_in_right \cap table_names(database["left"]) = {}

(***************************************************************************)
(* An answer of list_relationships that is not cut short and names no      *)
(* table as unreadable has every foreign key that touches the table asked  *)
(* for, at either end: "no foreign keys" and "we could not look" are       *)
(* different answers.                                                      *)
(***************************************************************************)
EveryRelationshipIsTold ==
    done("relationships") /\ untouched /\ ~ call.truncated /\ call.unreadable = {} =>
        \A t \in database["left"] : \A k \in t.keys :
            edge_touches([from_table |-> t.table, table |-> k.table], call.filter) =>
                \E i \in DOMAIN call.edges :
                    /\ call.edges[i].from_table = t.table /\ call.edges[i].table = k.table
                    /\ call.edges[i].from = k.from
                    /\ k.to # <<>> => call.edges[i].to = k.to

(***************************************************************************)
(* The statements of table_ddl, run in their order on a database without   *)
(* the table, make the table again: each refers to what is there by then,  *)
(* and nothing of it is lost.                                              *)
(***************************************************************************)
Rebuilt(ddl) ==
    LET made(what) == {ddl[i] : i \in {j \in DOMAIN ddl : ddl[j].create = what}}
        at(what) == CHOOSE i \in DOMAIN ddl : ddl[i] = what
        table == CHOOSE s \in made("table") : TRUE
    IN [in_order |-> /\ \A s \in made("sequence") : at(s) < at(table)
                     /\ \A s \in made("index") : at(table) < at(s)
                     /\ \A c \in ToSet(table.columns) :
                           /\ c.default = "serial" /\ engine \in Postgres =>
                                 \E s \in made("sequence") : s.of = c.name
                           /\ c.default # "its expression",
        columns |-> table.columns, key |-> table.key, keys |-> table.keys,
        indexes |-> table.indexes \cup {s.index : s \in made("index")}]

DdlRebuildsTheTable ==
    done("ddl") /\ untouched /\ call.ddl # <<>> =>
        \E t \in database["left"] :
            Rebuilt(call.ddl) = [in_order |-> TRUE, columns |-> t.columns, key |-> t.key,
                                 keys |-> t.keys, indexes |-> t.indexes]

=============================================================================
