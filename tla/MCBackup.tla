--------------------------------- MODULE MCBackup --------------------------------
(* Constants of Backup for TLC. *)
EXTENDS Backup

CONSTANTS child, parent

\* The child refers to the parent and has no primary key.
ByName == <<parent, child>>
KeylessTables == {child}
ChildRefers == [t \in {child, parent} |-> IF t = child THEN {parent} ELSE {}]

\* A script another tool wrote, with its own transaction.
OtherScript ==
    <<Chunk("begin", parent, {}, TRUE), Chunk("ddl", parent, {}, TRUE),
      Chunk("insert", parent, {[key |-> 1, version |-> 1]}, TRUE),
      Chunk("commit", parent, {}, TRUE),
      Chunk("insert", child, {[key |-> 1, version |-> 1]}, TRUE)>>
Scripts == {OtherScript}
\* Tables shorter than a page, of exactly one page, and longer.
Filled(n) == [k \in 1 .. 3 |-> IF k <= n THEN 1 ELSE 0]
SomeSources == {[t \in {child, parent} |-> IF t = child THEN Filled(n) ELSE Filled(m)] :
                   <<n, m>> \in {<<1, 3>>, <<2, 2>>, <<3, 1>>}}

\* An empty database, and one with a table.
SomeTargets == {NoTables, [t \in {child} |-> {[key |-> 1, version |-> 1]}]}
=============================================================================
