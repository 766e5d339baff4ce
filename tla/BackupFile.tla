------------------------------- MODULE BackupFile -------------------------------
(***************************************************************************)
(* What a dump and a restore have in common: the engines as far as the two *)
(* tell them apart, the rows of a table, and the script a dump writes and  *)
(* a restore reads.                                                        *)
(*                                                                         *)
(* A script is a sequence of chunks, one for each statement the dump       *)
(* writes.  Which character belongs to which statement is SqlScript's      *)
(* matter; here a chunk knows whether it was written whole and whether a   *)
(* semicolon ends it, since the splitter runs on over one that is not.     *)
(***************************************************************************)
EXTENDS Naturals, FiniteSets, SequencesExt

CONSTANTS
    TablesByName,   \* the tables as list_tables orders them, each once
    Keyless,        \* those without a primary key
    RefersTo,       \* the tables each table's DDL has a foreign key to
    Keys,           \* primary keys, 1 .. some number
    Versions,       \* what the other columns of a row can hold
    Engines,        \* the engines to consider
    ForeignScripts  \* scripts dbboard did not write

Tables == {TablesByName[i] : i \in 1 .. Len(TablesByName)}

ASSUME TableAssumption ==
    /\ TablesByName \in Seq(Tables) /\ Cardinality(Tables) = Len(TablesByName)
    /\ Keyless \subseteq Tables
    /\ RefersTo \in [Tables -> SUBSET Tables]
ASSUME KeyAssumption == IsFiniteSet(Keys) /\ Keys = 1 .. Cardinality(Keys)
ASSUME EngineAssumption == Engines \subseteq {"turso", "d1", "postgres", "aurora-dsql", "mysql"}

Rows == [key : Keys, version : Versions]

\* Capabilities of the adapters, as far as a dump or a restore asks for them,
\* and three facts about the engines behind them: whether the DDL table_ddl
\* returns ends in a semicolon, whether CREATE TABLE wants the tables it refers
\* to, and whether it commits the transaction it is in.
Capabilities(engine) ==
    [has_table_ddl |-> engine # "turso",
     has_atomic_restore |-> engine \in {"turso", "postgres", "mysql"},
     terminated |-> engine # "mysql",
     checks_references |-> engine \in {"postgres", "mysql"},
     ddl_commits |-> engine = "mysql"]

Chunks ==
    [kind : {"ddl", "insert", "begin", "commit"}, table : Tables, rows : SUBSET Rows,
     ends : BOOLEAN, whole : BOOLEAN]
Chunk(kind, table, rows, ends) ==
    [kind |-> kind, table |-> table, rows |-> rows, ends |-> ends, whole |-> TRUE]

ASSUME ScriptAssumption == ForeignScripts \subseteq Seq(Chunks)

\* split_statements: a statement is the chunks up to a semicolon.
with_chunk(found, chunk) ==
    IF found # <<>> /\ ~ Last(Last(found)).ends
    THEN Append(Front(found), Append(Last(found), chunk))
    ELSE Append(found, <<chunk>>)

split_statements(script) ==
    LET found[i \in 0 .. Len(script)] ==
            IF i = 0 THEN <<>> ELSE with_chunk(found[i - 1], script[i])
    IN found[Len(script)]

\* classify_one: what does not parse as one statement is passed on as it is.
classify_one(statement) ==
    CASE Len(statement) > 1 \/ ~ statement[1].whole -> "Unparsed"
      [] statement[1].kind = "ddl" -> "Ddl"
      [] statement[1].kind = "insert" -> "Data"
      [] statement[1].kind \in {"begin", "commit"} -> "TransactionControl"

classify_script(script) ==
    LET statements == split_statements(script)
    IN [i \in 1 .. Len(statements) |->
            [sql |-> statements[i], kind |-> classify_one(statements[i])]]

RowsIn(script, table) ==
    UNION {script[i].rows : i \in {j \in 1 .. Len(script) : script[j].table = table}}

VARIABLES
    engine,     \* the engine of both databases
    path        \* the script on disk

FileVars == <<engine, path>>
=============================================================================
