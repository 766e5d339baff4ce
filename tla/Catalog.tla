---------------------------------- MODULE Catalog ----------------------------------
(***************************************************************************)
(* What the SQL adapters make of a database's catalog: describe_table,     *)
(* foreign_keys, list_indexes and table_ddl of dbboard-postgres, -mysql,   *)
(* -turso and -d1.                                                         *)
(*                                                                         *)
(* A table is what its author declared; the rows an engine answers with    *)
(* are computed from it, and what an adapter assembles from the rows can   *)
(* be compared with the declaration.  Names that an engine sorts by are    *)
(* numbers, other names and types are values.                              *)
(***************************************************************************)
EXTENDS Naturals, Sequences, FiniteSets, SequencesExt

CONSTANTS None, Failed

Postgres == {"postgres", "aurora-dsql"}
Sqlite == {"turso", "d1"}
Engines == Postgres \cup {"mysql"} \cup Sqlite

\* A part of an index that is no column.
Expression == "an expression"

(***************************************************************************)
(* A declared table:                                                       *)
(*   columns  a sequence of [name, type, nullable, default]; a default of  *)
(*            "serial" calls a sequence the column owns, "identity" and    *)
(*            "generated" are the two ways a column computes its own value *)
(*   key      the columns of the primary key, in key order                 *)
(*   keys     foreign keys: [name, from, table, to], to = <<>> where the   *)
(*            parent's columns are not spelled out                         *)
(*   indexes  [name, parts, unique, origin]                                *)
(***************************************************************************)
column(name, type, nullable, default) ==
    [name |-> name, type |-> type, nullable |-> nullable, default |-> default]
by_name(things) == SetToSortSeq(things, LAMBDA a, b : a.name < b.name)
-------------------------------------------------------------------------------
(***************************************************************************)
(* describe_table: the columns and the key are two reads in Postgres and   *)
(* MySQL, and one PRAGMA in SQLite.                                        *)
(***************************************************************************)
\* A value the column computes is not among the defaults the views report.
column_default(c) == IF c.default \in {"identity", "generated"} THEN None ELSE c.default

column_from_parts(columns, i, primary_key) ==
    [name |-> columns[i].name, type |-> columns[i].type, nullable |-> columns[i].nullable,
     default |-> column_default(columns[i]), primary_key |-> columns[i].name \in ToSet(primary_key),
     ordinal |-> i]

described(columns, primary_key) ==
    IF columns = <<>> THEN Failed   \* no such table
    ELSE [columns |-> [i \in DOMAIN columns |-> column_from_parts(columns, i, primary_key)],
          primary_key |-> primary_key]

\* PRAGMA table_info: of a column, its place in the primary key or 0.
table_info(t) ==
    [i \in DOMAIN t.columns |->
        [cid |-> i - 1, name |-> t.columns[i].name, type |-> t.columns[i].type,
         notnull |-> ~ t.columns[i].nullable, dflt_value |-> column_default(t.columns[i]),
         pk |-> SelectInSeq(t.key, LAMBDA name : name = t.columns[i].name)]]

column_from_pragma_row(row) ==
    [name |-> row.name, type |-> row.type, nullable |-> ~ row.notnull, default |-> row.dflt_value,
     primary_key |-> row.pk > 0, ordinal |-> row.cid + 1]

\* The key in the order of the columns.
by_position(parts) == SortSeq(parts, LAMBDA a, b : a.pk < b.pk)

pragma_described(rows) ==
    LET parts == by_position(SelectSeq(rows, LAMBDA r : r.pk > 0))
    IN IF rows = <<>> THEN Failed
       ELSE [columns |-> [i \in DOMAIN rows |-> column_from_pragma_row(rows[i])],
             primary_key |-> [i \in DOMAIN parts |-> parts[i].name]]

\* D1 answers with an envelope: the names of the columns in an order of its own,
\* and rows in that order.  A column is found by its name.
envelope(fields, rows) ==
    [columns |-> fields, rows |-> [i \in DOMAIN rows |-> [j \in DOMAIN fields |-> rows[i][fields[j]]]]]
position(env, field) == SelectInSeq(env.columns, LAMBDA c : c = field)
records(env, fields) ==
    [i \in DOMAIN env.rows |-> [f \in fields |-> env.rows[i][position(env, f)]]]

envelope_to_table_schema(env) ==
    pragma_described(records(env, {"cid", "name", "type", "notnull", "dflt_value", "pk"}))

(***************************************************************************)
(* Foreign keys.  Postgres and MySQL answer one row for each column of a   *)
(* key, ordered by the constraint and the position in it, and the rows are *)
(* folded.                                                                 *)
(***************************************************************************)
fk_rows(t) ==
    FlattenSeq([k \in DOMAIN by_name(t.keys) |->
        LET key == by_name(t.keys)[k]
        IN [i \in DOMAIN key.from |-> [name |-> key.name, local |-> key.from[i],
                                       table |-> key.table, referenced |-> key.to[i]]]])

\* A constraint continues as long as the parent is the same.
extends_last(last, row) == last.name = row.name

fold_foreign_keys(rows) ==
    FoldLeft(LAMBDA out, r :
                IF out # <<>> /\ extends_last(out[Len(out)], r)
                THEN [out EXCEPT ![Len(out)].from = Append(@, r.local),
                                 ![Len(out)].to = Append(@, r.referenced)]
                ELSE Append(out, [name |-> r.name, from |-> <<r.local>>,
                                  table |-> r.table, to |-> <<r.referenced>>]),
             <<>>, rows)

\* PRAGMA foreign_key_list numbers the constraints and says which column of the
\* key a row is, in an order of its own.
pragma_fk_rows(t) ==
    UNION {{[id |-> key.name, seq |-> i, table |-> key.table, from |-> key.from[i],
             to |-> IF key.to = <<>> THEN None ELSE key.to[i]] : i \in DOMAIN key.from}
           : key \in t.keys}

resolve_referenced_columns(to, parent_key) ==
    [i \in DOMAIN to |->
        IF to[i] # None THEN to[i]
        ELSE IF i \in DOMAIN parent_key THEN parent_key[i] ELSE "rowid"]

envelope_to_raw_fks(env) == records(env, {"id", "seq", "table", "from", "to"})

\* The columns of a key in the order the engine happened to list them.
by_seq(rows) == SortSeq(rows, LAMBDA a, b : a.seq < b.seq)

\* Grouped by constraint, put in key order; a parent that cannot be described
\* has no key to resolve against.
group_foreign_keys(raw, parent_key(_)) ==
    LET rows(id) == by_seq(SelectSeq(raw, LAMBDA r : r.id = id))
        ids == FoldLeft(LAMBDA out, r : IF r.id \in ToSet(out) THEN out ELSE Append(out, r.id),
                        <<>>, raw)
    IN [g \in DOMAIN ids |->
          LET mine == rows(ids[g])
              to == [i \in DOMAIN mine |-> mine[i].to]
          IN [name |-> None, from |-> [i \in DOMAIN mine |-> mine[i].from],
              table |-> mine[1].table,
              to |-> resolve_referenced_columns(to,
                        IF None \in ToSet(to) THEN parent_key(mine[1].table) ELSE <<>>)]]

(***************************************************************************)
(* Indexes.  The index behind the primary key is left out.  Of a part that *)
(* is an expression Postgres returns no row, SQLite a row without a name,  *)
(* and MySQL a NULL that text_at refuses, and the call fails.              *)
(***************************************************************************)
index_rows(t) ==
    LET listed == by_name({x \in t.indexes : x.origin # "pk"})
    IN FlattenSeq([k \in DOMAIN listed |->
          [i \in DOMAIN listed[k].parts |->
              [name |-> listed[k].name, unique |-> listed[k].unique, column |-> listed[k].parts[i]]]])

assemble_indexes(rows) ==
    FoldLeft(LAMBDA out, r :
                IF out # <<>> /\ out[Len(out)].name = r.name
                THEN [out EXCEPT ![Len(out)].columns = Append(@, r.column)]
                ELSE Append(out, [name |-> r.name, columns |-> <<r.column>>, unique |-> r.unique]),
             <<>>, rows)

is_column(part) == part # Expression

postgres_list_indexes(t) == assemble_indexes(SelectSeq(index_rows(t), LAMBDA r : is_column(r.column)))

mysql_list_indexes(t) ==
    IF \E i \in DOMAIN index_rows(t) : ~ is_column(index_rows(t)[i].column) THEN Failed
    ELSE assemble_indexes(index_rows(t))

\* PRAGMA index_list has the one behind the primary key too, PRAGMA index_info the
\* parts of one index.
index_list(t) ==
    LET listed == by_name(t.indexes)
    IN [i \in DOMAIN listed |-> [name |-> listed[i].name, unique |-> listed[i].unique,
                                 origin |-> listed[i].origin, parts |-> listed[i].parts]]

turso_list_indexes(t) ==
    LET listed == SelectSeq(index_list(t), LAMBDA x : x.origin # "pk")
    IN [k \in DOMAIN listed |->
          [name |-> listed[k].name, columns |-> SelectSeq(listed[k].parts, is_column),
           unique |-> listed[k].unique]]

envelope_to_index_list(env) ==
    SelectSeq(records(env, {"name", "unique", "origin", "parts"}), LAMBDA x : x.origin # "pk")
envelope_to_index_columns(parts) == SelectSeq(parts, is_column)

d1_list_indexes(t) ==
    LET listed == envelope_to_index_list(envelope(<<"origin", "name", "parts", "unique">>, index_list(t)))
    IN [k \in DOMAIN listed |->
          [name |-> listed[k].name, columns |-> envelope_to_index_columns(listed[k].parts),
           unique |-> listed[k].unique]]

list_indexes(engine, t) ==
    CASE engine \in Postgres -> postgres_list_indexes(t)
      [] engine = "mysql" -> mysql_list_indexes(t)
      [] engine = "turso" -> turso_list_indexes(t)
      [] engine = "d1" -> d1_list_indexes(t)
-------------------------------------------------------------------------------
(***************************************************************************)
(* table_ddl.  Postgres' is put together from four reads; of a column that *)
(* computes its value pg_attrdef has the expression of a generated one and *)
(* nothing of an identity, and only a serial's sequence is owned the way   *)
(* the query asks for.  MySQL and SQLite keep the author's own statements. *)
(***************************************************************************)
sequence(name) == [create |-> "sequence", of |-> name]
create_table(t, columns, inline) ==
    [create |-> "table", columns |-> columns, key |-> t.key, keys |-> t.keys,
     indexes |-> {x \in t.indexes : x.origin \in inline}]
create_index(x) == [create |-> "index", index |-> x]

default_expr(c) ==
    IF c.default = "identity" THEN None
    ELSE IF c.default = "generated" THEN "its expression" ELSE c.default

owned(engine, t) ==
    IF engine = "aurora-dsql" THEN <<>>
    ELSE SelectSeq(t.columns, LAMBDA c : c.default = "serial")

standalone(t) == by_name({x \in t.indexes : x.origin = "index"})

ddl_parts(engine, t) ==
    [sequences |-> [i \in DOMAIN owned(engine, t) |-> sequence(owned(engine, t)[i].name)],
     table |-> <<create_table(t, [i \in DOMAIN t.columns |->
                    [t.columns[i] EXCEPT !.default = default_expr(t.columns[i])]],
                    {"pk", "constraint"})>>,
     indexes |-> [i \in DOMAIN standalone(t) |-> create_index(standalone(t)[i])]]

\* The sequences of the columns come last.
assemble_table_ddl(parts) == parts.sequences \o parts.table \o parts.indexes

\* SHOW CREATE TABLE.
mysql_table_ddl(t) == <<create_table(t, t.columns, {"pk", "constraint", "index"})>>

\* sqlite_master has the author's own text, the table's first.
envelope_to_table_ddl(t) ==
    <<create_table(t, t.columns, {"pk", "constraint"})>>
       \o [i \in DOMAIN standalone(t) |-> create_index(standalone(t)[i])]

table_ddl(engine, t) ==
    CASE engine \in Postgres -> assemble_table_ddl(ddl_parts(engine, t))
      [] engine = "mysql" -> mysql_table_ddl(t)
      [] engine = "d1" -> envelope_to_table_ddl(t)
=============================================================================
