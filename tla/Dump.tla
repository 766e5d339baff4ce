---------------------------------- MODULE Dump ----------------------------------
(***************************************************************************)
(* The logical dump (core/dump/run.rs, select.rs; dump.rs of the desktop;  *)
(* dump_to_file of dbboard-mcp): every table's DDL, then its rows page by  *)
(* page in the order of its primary key, written to a file while other     *)
(* clients of the database go on changing it.                              *)
(*                                                                         *)
(* One action for each await: listing the tables, creating the file,       *)
(* asking for DDL, asking for the key, each page.  A table that cannot be  *)
(* read is recorded and passed over; a file that cannot be written ends    *)
(* the dump.  The desktop's dump can be cancelled, the agent's cannot.     *)
(***************************************************************************)
EXTENDS BackupFile

CONSTANTS
    PageRows,       \* READ_PAGE_ROWS
    BatchRows,      \* INSERT_BATCH_ROWS
    Sources,        \* the databases to start from
    MaxChanges,     \* how many changes other clients make to the source
    DumpFaults      \* what may fail: "list", "adapter", "sink"

ASSUME PageAssumption == PageRows \in Nat \ {0} /\ BatchRows \in 1 .. PageRows
ASSUME ChangeAssumption == MaxChanges \in Nat /\ Versions \subseteq Nat \ {0}
ASSUME SourceAssumption == Sources \subseteq [Tables -> [Keys -> Versions \cup {0}]]
ASSUME DumpFaultAssumption == DumpFaults \subseteq {"list", "adapter", "sink"}

VARIABLES
    source,         \* the database that is dumped: a version for each key, 0 for no row
    dump,           \* the command in flight
    dump_cancel,    \* the flag its cancel button sets
    asked,          \* history: the button was clicked during this command
    touched,        \* history: the rows other clients changed during this command
    changes         \* how many changes they made

DumpVars == <<source, dump, dump_cancel, asked, touched, changes>>

NoDump ==
    [pc |-> "idle", caller |-> "desktop", plan |-> <<>>, index |-> 1, cursor |-> 0, buffer |-> <<>>,
     dumped |-> {}, rows_written |-> 0, failures |-> {}, truncations |-> {}, cancelled |-> FALSE]

DumpInit ==
    /\ source \in Sources
    /\ dump = NoDump
    /\ dump_cancel \in BOOLEAN      \* whatever a dump before this one left behind
    /\ asked = FALSE
    /\ touched = {}
    /\ changes = 0

DumpActive == dump.pc \notin {"idle", "ok", "error"}
table == dump.plan[dump.index]
keyed(t) == t \notin Keyless
-------------------------------------------------------------------------------
(***************************************************************************)
(* Starting: a destination is chosen, the tables are listed, the file is   *)
(* created.                                                                *)
(***************************************************************************)
\* run_dump of the desktop: the file the user chose, existing or not.
desktop_dump ==
    /\ dump.pc = "idle"
    /\ dump' = [dump EXCEPT !.pc = "plan", !.caller = "desktop"]
    /\ UNCHANGED <<FileVars, source, dump_cancel, asked, touched, changes>>

\* dump_to_file: check_dump_destination refuses a path that exists.
dump_to_file ==
    /\ dump.pc = "idle"
    /\ ~ path.exists
    /\ dump' = [dump EXCEPT !.pc = "plan", !.caller = "agent"]
    /\ UNCHANGED <<FileVars, source, dump_cancel, asked, touched, changes>>

plan_dump ==
    /\ dump.pc = "plan"
    /\ dump' = [dump EXCEPT !.pc = "create", !.plan = TablesByName]
    /\ UNCHANGED <<FileVars, source, dump_cancel, asked, touched, changes>>

plan_dump_fails ==
    /\ dump.pc = "plan"
    /\ "list" \in DumpFaults
    /\ dump' = [dump EXCEPT !.pc = "error"]
    /\ UNCHANGED <<FileVars, source, dump_cancel, asked, touched, changes>>

\* The destination is looked at once and never again.
creates_without_create_new == TRUE

\* FileSink::create: the desktop truncates, the agent's create_new does not find
\* the path free any more if somebody made a file there since.
creates == dump.caller = "agent" => ~ path.exists

create ==
    /\ dump.pc = "create"
    /\ IF creates
       THEN /\ path' = [exists |-> TRUE, script |-> <<>>]
            /\ dump' = [dump EXCEPT !.pc = "table"]
            /\ dump_cancel' = IF dump.caller = "desktop" THEN FALSE ELSE dump_cancel
       ELSE /\ dump' = [dump EXCEPT !.pc = "error"]
            /\ UNCHANGED <<path, dump_cancel>>
    /\ UNCHANGED <<engine, source, asked, touched, changes>>
-------------------------------------------------------------------------------
(***************************************************************************)
(* run_dump: the loop over the planned tables.                             *)
(***************************************************************************)
is_cancelled == dump.caller = "desktop" /\ dump_cancel

\* What the rest of dump_one_table does to d when it is over with its table.
next(d) == [d EXCEPT !.pc = "table", !.index = @ + 1]
completed(d) == next([d EXCEPT !.dumped = @ \cup {table}])
\* The table that failed is tried again.
failed_and_again(d) == [d EXCEPT !.pc = "table", !.failures = @ \cup {table}]

failed(d) == next([d EXCEPT !.failures = @ \cup {table}])
cancelled(d) == [d EXCEPT !.pc = "finish", !.cancelled = TRUE]

step(d) ==
    /\ dump' = d
    /\ UNCHANGED <<FileVars, source, dump_cancel, asked, touched, changes>>

next_table ==
    /\ dump.pc = "table"
    /\ step(IF dump.index > Len(dump.plan) THEN [dump EXCEPT !.pc = "finish"]
            ELSE IF is_cancelled THEN cancelled(dump)
            ELSE IF Capabilities(engine).has_table_ddl THEN [dump EXCEPT !.pc = "ddl"]
            ELSE [dump EXCEPT !.pc = "describe"])

\* The DDL goes into the script as the engine words it.
table_ddl_unterminated ==
    /\ dump.pc = "ddl"
    /\ step([dump EXCEPT !.pc = "describe", !.buffer = Append(@, Chunk("ddl", table, {}, FALSE))])

table_ddl ==
    /\ dump.pc = "ddl"
    /\ step([dump EXCEPT
                !.pc = "describe",
                !.buffer = Append(@, Chunk("ddl", table, {}, Capabilities(engine).terminated))])

describe_table ==
    /\ dump.pc = "describe"
    /\ step([dump EXCEPT !.pc = "page", !.cursor = 0])

\* An adapter error at any of the three: record it and go on with the next table.
adapter_fails ==
    /\ "adapter" \in DumpFaults
    /\ \/ dump.pc \in {"ddl", "describe"}
       \/ dump.pc = "page" /\ ~ is_cancelled
    /\ step(failed(dump))

\* What the query build_select_page makes can return for t.
rows_of(t) == {[key |-> k, version |-> source[t][k]] : k \in {k \in Keys : source[t][k] # 0}}
after_inclusive(t, cursor) == {r \in rows_of(t) : keyed(t) => r.key >= cursor}

after(t, cursor) == {r \in rows_of(t) : keyed(t) => r.key > cursor}
pages(t, cursor) ==
    LET found == after(t, cursor)
        size == IF Cardinality(found) < PageRows THEN Cardinality(found) ELSE PageRows
    IN {page \in SUBSET found :
            /\ Cardinality(page) = size
            /\ keyed(t) => \A r \in page : \A s \in found \ page : r.key < s.key}

\* result.rows.chunks(INSERT_BATCH_ROWS), each one INSERT.
rank(page, row) == Cardinality({r \in page : r.key <= row.key})
inserts(t, page) ==
    LET batches == (Cardinality(page) + BatchRows - 1) \div BatchRows
    IN [i \in 1 .. batches |->
            Chunk("insert", t,
                  {r \in page : rank(page, r) \in (i - 1) * BatchRows + 1 .. i * BatchRows}, TRUE)]

cursor_from_last_row(page) == (CHOOSE r \in page : \A s \in page : s.key <= r.key).key

\* What dump_table_data does with a page.
written(d, page) ==
    [d EXCEPT !.buffer = @ \o inserts(table, page), !.rows_written = @ + Cardinality(page)]

turned(d, page) ==
    IF page = {} THEN completed(d)
    ELSE IF ~ keyed(table)
    THEN completed(IF Cardinality(page) >= PageRows
                   THEN [written(d, page) EXCEPT !.truncations = @ \cup {table}]
                   ELSE written(d, page))
    ELSE IF Cardinality(page) < PageRows THEN completed(written(d, page))
    ELSE [written(d, page) EXCEPT !.cursor = cursor_from_last_row(page)]

read_page ==
    /\ dump.pc = "page"
    /\ IF is_cancelled THEN step(cancelled(dump))
       ELSE \E page \in pages(table, dump.cursor) : step(turned(dump, page))

\* FileSink::finish, and the outcome the command returns.
finish ==
    /\ dump.pc = "finish"
    /\ dump' = [dump EXCEPT !.pc = "ok", !.buffer = <<>>]
    /\ path' = [path EXCEPT !.script = @ \o dump.buffer]
    /\ UNCHANGED <<engine, source, dump_cancel, asked, touched, changes>>

\* A write or the flush fails: some of what was written is on disk, the last of
\* it perhaps in part, and the command returns the error.
torn(chunk) == [chunk EXCEPT !.ends = FALSE, !.whole = FALSE]

sink_fails ==
    /\ "sink" \in DumpFaults
    /\ dump.pc \in {"table", "describe", "page", "finish"}
    /\ \E n \in 0 .. Len(dump.buffer) :
          \/ path' = [path EXCEPT !.script = @ \o SubSeq(dump.buffer, 1, n)]
          \/ /\ n > 0
             /\ path' = [path EXCEPT !.script =
                            @ \o SubSeq(dump.buffer, 1, n - 1) \o <<torn(dump.buffer[n])>>]
    /\ dump' = [dump EXCEPT !.pc = "error", !.buffer = <<>>]
    /\ UNCHANGED <<engine, source, dump_cancel, asked, touched, changes>>
-------------------------------------------------------------------------------
(***************************************************************************)
(* The user and the other clients.                                         *)
(***************************************************************************)
\* The dialog shows its button from the call to its end, and once clicked the
\* button stays disabled.
cancel_dump ==
    /\ DumpActive /\ dump.caller = "desktop"
    /\ ~ asked
    /\ asked' = TRUE
    /\ dump_cancel' = TRUE
    /\ UNCHANGED <<FileVars, source, dump, touched, changes>>

\* Another client inserts, updates or deletes a row.
change ==
    /\ DumpActive
    /\ changes < MaxChanges
    /\ \E t \in Tables, k \in Keys : \E version \in (Versions \cup {0}) \ {source[t][k]} :
          /\ source' = [source EXCEPT ![t][k] = version]
          /\ touched' = touched \cup {<<t, k>>}
    /\ changes' = changes + 1
    /\ UNCHANGED <<FileVars, dump, dump_cancel, asked>>

\* Another program makes a file where the agent's dump is about to.
appear ==
    /\ dump.pc = "plan" /\ dump.caller = "agent"
    /\ ~ path.exists
    /\ \E script \in ForeignScripts : path' = [exists |-> TRUE, script |-> script]
    /\ UNCHANGED <<engine, DumpVars>>

Dumping ==
    \/ plan_dump \/ plan_dump_fails \/ create \/ next_table \/ table_ddl \/ describe_table
    \/ adapter_fails \/ read_page \/ finish \/ sink_fails

DumpNext == desktop_dump \/ dump_to_file \/ Dumping \/ cancel_dump \/ change \/ appear
=============================================================================
