------------------------------- MODULE SqlPolicy -------------------------------
(***************************************************************************)
(* dbboard-core's read_only.rs and write_policy.rs: which SQL an agent may *)
(* have run.                                                               *)
(*                                                                         *)
(* A text is parsed and the tree is judged: one reading statement for the  *)
(* read tool, one permitted write for the write tool.  What is let through *)
(* is run by an engine, which guards its own read path where it can.  A    *)
(* tree here has the node kinds the judges tell apart.                     *)
(***************************************************************************)
EXTENDS Integers, FiniteSets, SequencesExt

CONSTANTS Texts      \* the texts that are tried

VARIABLE told   \* the last call: what it was told, and what it did to the database

Engines == {"postgres", "mysql", "turso", "d1"}
\* D1 has no read-only mode of its own.
Guarded == Engines \ {"d1"}

\* A node: what it is, whether it locks, its WITH queries, and what it holds.
Node(op, locks, with, sub) == [op |-> op, locks |-> locks, with |-> with, sub |-> sub]
Leaf(op) == Node(op, FALSE, <<>>, <<>>)
Query(body) == Node("query", FALSE, <<>>, <<body>>)

\* A text: its first lexemes, whether the parser takes it, and its statements.
Text(lexemes, parses, statements) ==
    [lexemes |-> lexemes, parses |-> parses, statements |-> statements]

---------------------------------------------------------------------------
(* May it be read? *)

Changing == {"insert", "update", "delete", "merge"}

\* A SELECT is not looked into: no statement that changes data may stand in
\* a scalar or derived query.
RECURSIVE check_query(_), check_set_expr(_)
check_set_expr(body) ==
    \/ body.op \in {"select", "select into", "values", "table"}
    \/ body.op = "query" /\ check_query(body)
    \/ body.op = "set" /\ \A i \in DOMAIN body.sub : check_set_expr(body.sub[i])

check_query(query) ==
    /\ ~query.locks
    /\ \A i \in DOMAIN query.with : check_query(query.with[i])
    /\ check_set_expr(query.sub[1])

RECURSIVE check_read(_)
check_read(statement) ==
    CASE statement.op = "query" -> IF check_query(statement) THEN "query" ELSE "refused"
      [] statement.op \in {"explain", "explain analyze"} ->
           IF check_read(statement.sub[1]) = "refused" THEN "refused" ELSE "explain"
      [] OTHER -> "refused"

\* One statement, and it reads; a text that cannot be parsed is refused.
classify_read_only(text) ==
    IF text.parses /\ Len(text.statements) = 1
    THEN check_read(text.statements[1]) ELSE "refused"

---------------------------------------------------------------------------
(* Is it a write an agent may have run? *)

Permitted(as) == [verdict |-> as, permanent |-> FALSE]
Refused == Permitted("refused")
Closed == [verdict |-> "refused", permanent |-> TRUE]

Skipped == {" ", "-- \n", "/* */"}

\* As leading_words, but a comment is no blank.
words_before_comments(lexemes) ==
    LET words == SelectSeq([i \in DOMAIN lexemes |-> i], LAMBDA i :
            \A j \in 1 .. i : lexemes[j] \notin {"(", "-- \n", "/* */"})
    IN  SelectSeq([k \in DOMAIN words |-> lexemes[words[k]]], LAMBDA w : w # " ")

\* The words before anything that is neither a word, blank nor a comment.
leading_words(lexemes) ==
    LET words == SelectSeq([i \in DOMAIN lexemes |-> i], LAMBDA i :
            \A j \in 1 .. i : lexemes[j] # "(")
    IN  SelectSeq([k \in DOMAIN words |-> lexemes[words[k]]], LAMBDA w : w \notin Skipped)

\* The beginnings that are closed however the rest parses.
permanently_closed_prefix(text) ==
    LET words == leading_words(text.lexemes)
        word(i) == IF i \in DOMAIN words THEN words[i] ELSE ""
    IN  \/ word(1) \in {"GRANT", "REVOKE", "DENY", "TRUNCATE", "DROP"}
        \/ word(1) \in {"CREATE", "ALTER", "RENAME"} /\ word(2) \in {"USER", "ROLE", "GROUP"}
        \/ word(1) = "SET" /\ word(2) = "PASSWORD"

check_write(statement) ==
    CASE statement.op \in Changing -> Permitted("data")
      [] statement.op \in {"create table", "create view", "create index", "create schema",
                           "alter table"} -> Permitted("schema")
      [] statement.op \in {"grant", "revoke", "deny", "create user", "alter role", "truncate",
                           "drop", "drop function"} -> Closed
      [] OTHER -> Refused

classify_write(text) ==
    IF permanently_closed_prefix(text) THEN Closed
    ELSE IF ~text.parses \/ Len(text.statements) # 1 THEN Refused
    ELSE check_write(text.statements[1])

---------------------------------------------------------------------------
(* What an engine makes of a text. *)

own(op) ==
    CASE op \in Changing -> {"rows"}
      [] op \in {"create table", "create view", "create index", "create schema", "alter table",
                 "select into", "create function"} -> {"shape"}
      [] op \in {"truncate", "drop", "drop function", "drop trigger"} -> {"destroyed"}
      [] op \in {"grant", "revoke", "deny"} -> {"privileges"}
      [] op \in {"create user", "alter role", "set password"} -> {"principals"}
      [] OTHER -> {}

\* An EXPLAIN plans, and with ANALYZE it also runs.
RECURSIVE effect(_)
effect(node) ==
    IF node.op = "explain" THEN {}
    ELSE own(node.op)
         \union UNION {effect(node.sub[i]) : i \in DOMAIN node.sub}
         \union UNION {effect(node.with[i]) : i \in DOMAIN node.with}

\* A SELECT ... INTO is a Postgres statement: D1 fails it.
known(engine, statement) ==
    engine = "d1" => ~(statement.op = "query" /\ "shape" \in effect(statement))

\* The statements run in turn.  In a transaction that only reads, one that
\* would change something ends the run; COMMIT ends the transaction.
RECURSIVE run_text(_, _, _)
run_text(engine, statements, reading) ==
    IF statements = <<>> \/ ~known(engine, statements[1]) THEN {}
    ELSE IF reading /\ effect(statements[1]) # {} THEN {}
    ELSE effect(statements[1])
         \union run_text(engine, Tail(statements), reading /\ statements[1].op # "commit")

---------------------------------------------------------------------------
NotTold == [tool |-> "none", text |-> Text(<<>>, FALSE, <<>>), engine |-> "d1",
            verdict |-> "none", permanent |-> FALSE, did |-> {}]

PolicyInit == told = NotTold

\* McpService::run_read_query and the adapter's query_read_only.
run_read_query ==
    \E text \in Texts : \E engine \in Engines :
        LET verdict == classify_read_only(text)
            did == IF verdict = "refused" THEN {}
                   ELSE run_text(engine, text.statements, engine \in Guarded)
        IN  told' = [tool |-> "read", text |-> text, engine |-> engine, verdict |-> verdict,
                     permanent |-> FALSE, did |-> did]

\* McpService::run_write, on a connection its operator opened to writes.
run_write ==
    \E text \in Texts : \E engine \in Engines :
        LET judged == classify_write(text)
            did == IF judged.verdict = "refused" THEN {} ELSE run_text(engine, text.statements, FALSE)
        IN  told' = [tool |-> "write", text |-> text, engine |-> engine,
                     verdict |-> judged.verdict, permanent |-> judged.permanent, did |-> did]

PolicyNext == run_read_query \/ run_write
PolicySpec == PolicyInit /\ [][PolicyNext]_told

---------------------------------------------------------------------------
(* What the operator relies on. *)

\* The read tool changes nothing: where an engine guards the read itself the
\* judge keeps a text from ending the guard, and where none does (D1) the
\* judge is all there is (read_only.rs, "Two layers rely on this").
ReadsLeaveNothing == told.tool = "read" => told.did = {}

\* Whatever the write tool lets through changes rows or the shape of tables,
\* and says which: no privilege, no principal, nothing destroyed, and one
\* statement at a time (write_policy.rs).
WritesStayInBounds ==
    told.tool = "write" =>
        /\ told.did \subseteq {"rows", "shape"}
        /\ (told.verdict = "data" <=> told.did = {"rows"})
        /\ (told.verdict = "schema" <=> told.did = {"shape"})

\* A closed statement is refused for good at the first attempt, commented or
\* not, though this dialect's parser may not read it; and nothing else is
\* (write_policy.rs, permanently_closed_prefix: "it invites a retry with
\* different syntax").
ForeverMeansForever ==
    told.tool = "write" /\ Len(told.text.statements) = 1 =>
        (told.permanent <=>
            own(told.text.statements[1].op) \cap {"privileges", "principals", "destroyed"} # {})
=============================================================================
