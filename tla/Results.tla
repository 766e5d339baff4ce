---------------------------------- MODULE Results ----------------------------------
(***************************************************************************)
(* How the rows of a statement become a QueryResult: query and             *)
(* query_read_only of dbboard-postgres, -mysql, -turso and -d1, and        *)
(* McpService::run_read_query over the second.                             *)
(*                                                                         *)
(* The rows come one by one (Postgres, MySQL, Turso), in a batch a cursor  *)
(* was asked for (Postgres' reads), or all in one answer (D1).  A cell may *)
(* be one the adapter cannot decode, and the link may fail between any two *)
(* rows.  A row is its number.                                             *)
(***************************************************************************)
EXTENDS Naturals, Sequences, FiniteSets

CONSTANTS
    Unset,
    MaxRows,                            \* bounds the rows a statement has
    MAX_RESULT_ROWS,                    \* above it a query is an error
    DEFAULT_MAX_ROWS, MAX_MAX_ROWS      \* what a read may ask for

VARIABLES statement, fetch

ResultVars == <<statement, fetch>>

Engines == {"postgres", "aurora-dsql", "mysql", "turso", "d1"}
Streaming == {"postgres", "aurora-dsql", "mysql"}
Operations == {"query", "list_tables", "run_read_query"}

\* What the server has to say: how many rows, how many it changed, which of the
\* rows has a cell that cannot be decoded (0 for none), and how it may go wrong:
\* its own refusal, the link, a closed pool, after a number of rows.
Failures == {"none", "database", "io", "pool closed"}
Words == {"select", "explain", "insert"}

NoFetch == [op |-> "none", path |-> "none", limit |-> 0, probe |-> 0, at |-> 0, rows |-> <<>>,
            affected |-> 0, truncated |-> FALSE, error |-> Unset, result |-> "idle"]

ResultInit ==
    /\ statement \in [engine : Engines, word : Words, rows : 0 .. MaxRows, affected : 0 .. 1,
                      bad : 0 .. MaxRows, failure : Failures, fails_after : 0 .. MaxRows]
    /\ statement.word # "insert" => statement.affected = 0
    /\ statement.word = "insert" => statement.rows = 0
    /\ statement.bad <= statement.rows /\ statement.fails_after <= statement.rows
    /\ statement.failure = "none" => statement.fails_after = 0
    \* D1 and a cursor answer all at once
    /\ statement.engine = "d1" => statement.fails_after = 0
    /\ fetch = NoFetch

failing == statement.failure # "none"
first(rows, n) == SubSeq(rows, 1, IF n < Len(rows) THEN n ELSE Len(rows))
all_rows == [i \in 1 .. statement.rows |-> i]
-------------------------------------------------------------------------------
(***************************************************************************)
(* Errors: a refusal of the server is a Query error, a failure on the way  *)
(* a Connection error, a value that cannot be read a TypeConversion.  What *)
(* goes wrong in listing the tables is a Schema error, unless it is the    *)
(* connection.                                                             *)
(***************************************************************************)
classify_error(failure) == IF failure = "database" THEN "query" ELSE "connection"

\* libSQL's errors are not told apart.
turso_error(failure) == "query"

\* By the status of the answer: D1's refusals come with 400.
error_from_response(failure) == IF failure = "database" THEN "query" ELSE "connection"

error_of(failure) ==
    CASE statement.engine \in Streaming -> classify_error(failure)
      [] statement.engine = "turso" -> turso_error(failure)
      [] statement.engine = "d1" -> error_from_response(failure)

reclassify_schema(error) == IF error \in {"query", "type"} THEN "schema" ELSE error

too_many_rows_error == "query"

(***************************************************************************)
(* run_read_query asks for one row more than it hands out, to tell a full  *)
(* answer from one that goes on; it never asks for more than the cap.      *)
(***************************************************************************)
effective(max_rows) ==
    LET asked == IF max_rows = Unset THEN DEFAULT_MAX_ROWS ELSE max_rows
    IN IF asked > MAX_MAX_ROWS THEN MAX_MAX_ROWS ELSE asked

probe(n) == n + 1

\* The entry point of the driver, in Turso by the statement's first word.
is_row_returning(word) == word # "insert"

\* A read stops at its limit, by a cursor where there is one; a query runs to its end.
reads_by ==
    IF statement.engine \notin Streaming THEN "run_select_capped"
    ELSE IF statement.word = "explain" THEN "run_capped"
    ELSE IF statement.engine = "postgres" THEN "fetch_via_cursor" ELSE "fetch_capped_stream"
queries_by ==
    IF statement.engine \in Streaming THEN "query"
    ELSE IF is_row_returning(statement.word) THEN "run_select" ELSE "run_execute"
path(op) ==
    IF statement.engine = "d1" THEN "post_raw"
    ELSE IF op = "run_read_query" THEN reads_by ELSE queries_by

\* check_read_only has let the statement of a read through.
start(op, max_rows) ==
    /\ fetch.result = "idle"
    /\ op # "query" => statement.word # "insert"
    /\ op # "run_read_query" => max_rows = Unset
    /\ fetch' = [NoFetch EXCEPT !.op = op, !.path = path(op), !.limit = effective(max_rows),
                                !.probe = probe(effective(max_rows)), !.result = "running"]
    /\ UNCHANGED statement

fetching(paths) == fetch.result = "running" /\ fetch.path \in paths

fail(error) ==
    fetch' = [fetch EXCEPT
        !.result = "failed",
        !.error = IF fetch.op = "list_tables" THEN reclassify_schema(error) ELSE error]

\* Trimmed to what was asked for, with what there was beyond it.
answer(rows, affected) ==
    LET capped == first(rows, fetch.probe)
    IN fetch' = IF fetch.op = "run_read_query"
                THEN [fetch EXCEPT !.rows = first(capped, fetch.limit),
                                   !.truncated = Len(capped) > fetch.limit, !.result = "ok"]
                ELSE [fetch EXCEPT !.rows = rows, !.affected = affected, !.result = "ok"]

fails_now == failing /\ fetch.at = statement.fails_after
more == fetch.at < statement.rows
next_row == fetch.at + 1
decodable(row) == row # statement.bad

keep == fetch' = [fetch EXCEPT !.rows = Append(@, next_row), !.at = next_row]

\* query of Postgres and MySQL, and run_select of Turso: to the end, or an error
\* at the first row beyond the cap.
take_row ==
    IF Len(fetch.rows) >= MAX_RESULT_ROWS THEN fail(too_many_rows_error)
    ELSE IF ~ decodable(next_row) THEN fail("type")
    ELSE keep

\* A count is reported where no rows came back.
completed == answer(fetch.rows, IF fetch.rows = <<>> THEN statement.affected ELSE 0)

query_streams ==
    /\ fetching({"query", "run_select"})
    /\ IF fails_now THEN fail(error_of(statement.failure))
       ELSE IF more THEN take_row ELSE completed
    /\ UNCHANGED statement

run_execute ==
    /\ fetching({"run_execute"})
    /\ IF failing THEN fail(turso_error(statement.failure)) ELSE answer(<<>>, statement.affected)
    /\ UNCHANGED statement

\* Reads that stop after the rows that were asked for, and then decode them.
fetch_capped_stream ==
    /\ fetching({"fetch_capped_stream", "run_select_capped"})
    /\ IF Len(fetch.rows) >= fetch.probe \/ (~ fails_now /\ ~ more)
       THEN IF statement.bad \in 1 .. Len(fetch.rows) THEN fail("type") ELSE answer(fetch.rows, 0)
       ELSE IF fails_now THEN fail(error_of(statement.failure))
       ELSE keep
    /\ UNCHANGED statement

\* One batch, of what was asked for (a cursor) or of all there is (EXPLAIN).
fetch_batch ==
    /\ fetching({"fetch_via_cursor", "run_capped"})
    /\ LET batch == IF fetch.path = "fetch_via_cursor" THEN first(all_rows, fetch.probe)
                    ELSE all_rows
       IN IF failing /\ statement.fails_after <= Len(batch) THEN fail(error_of(statement.failure))
          ELSE IF statement.bad \in 1 .. Len(batch) THEN fail("type")
          ELSE answer(batch, 0)
    /\ UNCHANGED statement

\* D1 has sent everything by then: too much is an error for a query, and is left
\* undecoded for a read.
post_raw ==
    /\ fetching({"post_raw"})
    /\ LET kept == IF fetch.op = "run_read_query" THEN first(all_rows, fetch.probe) ELSE all_rows
       IN IF failing THEN fail(error_from_response(statement.failure))
          ELSE IF Len(kept) > MAX_RESULT_ROWS THEN fail(too_many_rows_error)
          ELSE IF statement.bad \in 1 .. Len(kept) THEN fail("type")
          ELSE answer(kept, statement.affected)
    /\ UNCHANGED statement

ResultNext ==
    \/ \E op \in Operations, max_rows \in {Unset} \cup 0 .. MAX_MAX_ROWS + 1 : start(op, max_rows)
    \/ query_streams \/ run_execute \/ fetch_capped_stream \/ fetch_batch \/ post_raw

ResultSpec == ResultInit /\ [][ResultNext]_ResultVars
-------------------------------------------------------------------------------
(***************************************************************************)
(* A query that succeeds has every row of its statement: "the UI never     *)
(* silently shows a partial result" (limits.rs), neither when the link     *)
(* fails after some of them nor when there are too many.                   *)
(***************************************************************************)
QueryIsWhole ==
    fetch.result = "ok" /\ fetch.op # "run_read_query" =>
        /\ fetch.rows = all_rows /\ Len(fetch.rows) <= MAX_RESULT_ROWS
        /\ fetch.affected = statement.affected

(***************************************************************************)
(* A read that succeeds has the first rows, as many as it was asked for,   *)
(* and says that it was cut exactly when there are more ("so we can tell a *)
(* full-but-exact result from a genuinely truncated one",                  *)
(* run_read_query).                                                        *)
(***************************************************************************)
ReadIsCutHonestly ==
    fetch.result = "ok" /\ fetch.op = "run_read_query" =>
        /\ fetch.rows = first(all_rows, fetch.limit)
        /\ fetch.truncated <=> statement.rows > fetch.limit

(***************************************************************************)
(* Where the driver tells them apart, a link that failed is reported as    *)
(* one, whatever the call was for, and a refusal of the server never is:   *)
(* a caller retries the first and shows the second (classify_error,        *)
(* reclassify_schema "leaving connection failures intact").                *)
(***************************************************************************)
ConnectionErrorsAreTold ==
    fetch.result = "failed" /\ statement.engine # "turso" =>
        /\ fetch.error = "connection" => statement.failure \in {"io", "pool closed"}
        /\ statement.failure \in {"io", "pool closed"} /\ statement.bad = 0
              /\ statement.rows <= MAX_RESULT_ROWS => fetch.error = "connection"
=============================================================================
