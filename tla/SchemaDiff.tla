---------------------------------- MODULE SchemaDiff ----------------------------------
(***************************************************************************)
(* The comparison of two schemas (dbboard-core schema_diff.rs): tables are *)
(* matched by name, columns by name, indexes by name, and foreign keys by  *)
(* the columns they are on.  What one side alone has is reported once.     *)
(***************************************************************************)
EXTENDS Catalog

\* A BTreeMap built from a list: of two entries with one key the later stays.
by_key(list, key(_)) ==
    [k \in {key(list[i]) : i \in DOMAIN list} |->
        SelectLastInSeq(list, LAMBDA e : key(e) = k)]
entry(list, map, k) == list[map[k]]

only_in(mine, theirs) == DOMAIN mine \ DOMAIN theirs

\* What both sides have and do not agree on, with the fields that differ.
changed(left, l, right, r, fields(_, _)) ==
    {[key |-> k, fields |-> fields(entry(left, l, k), entry(right, r, k))] :
        k \in {j \in DOMAIN l \cap DOMAIN r :
                 fields(entry(left, l, j), entry(right, r, j)) # {}}}

compared(left, right, key(_), fields(_, _)) ==
    LET l == by_key(left, key)
        r == by_key(right, key)
    IN [only_in_left |-> only_in(l, r), only_in_right |-> only_in(r, l),
        changed |-> changed(left, l, right, r, fields)]

Same == [only_in_left |-> {}, only_in_right |-> {}, changed |-> {}]

differing(l, r, fields) == {f \in fields : l[f] # r[f]}
name_of(thing) == thing.name

\* The position of a column is no difference.
differing_fields(l, r) == differing(l, r, {"type", "nullable", "default", "primary_key"})

diff_indexes(left, right) ==
    compared(left, right, name_of, LAMBDA l, r : differing(l, r, {"columns", "unique"}))

diff_foreign_keys(left, right) ==
    compared(left, right, LAMBDA k : k.from,
             LAMBDA l, r : differing(l, r, {"table", "to", "name"}))

diff_table(l, r) ==
    [columns |-> compared(l.schema.columns, r.schema.columns, name_of, differing_fields),
     primary_key |-> l.schema.primary_key # r.schema.primary_key,
     foreign_keys |-> diff_foreign_keys(l.foreign_keys, r.foreign_keys),
     indexes |-> diff_indexes(l.indexes, r.indexes)]

unchanged(diff) ==
    diff = [columns |-> Same, primary_key |-> FALSE, foreign_keys |-> Same, indexes |-> Same]

diff_snapshots(left, right) ==
    LET l == by_key(left, LAMBDA t : t.table)
        r == by_key(right, LAMBDA t : t.table)
        both == DOMAIN l \cap DOMAIN r
        table(k) == diff_table(entry(left, l, k), entry(right, r, k))
    IN [tables_only_in_left |-> only_in(l, r), tables_only_in_right |-> only_in(r, l),
        tables_changed |-> {[table |-> k, diff |-> table(k)] : k \in {j \in both : ~ unchanged(table(j))}},
        foreign_keys_compared |-> \E t \in ToSet(left) \cup ToSet(right) : t.foreign_keys # <<>>,
        indexes_compared |-> \E t \in ToSet(left) \cup ToSet(right) : t.indexes # <<>>]

is_empty(diff) ==
    diff.tables_only_in_left = {} /\ diff.tables_only_in_right = {} /\ diff.tables_changed = {}
=============================================================================
