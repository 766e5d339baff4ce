---------------------------------- MODULE Engines ----------------------------------
(***************************************************************************)
(* The SQL adapters (dbboard-postgres, -mysql, -turso, -d1) as their       *)
(* callers use them: query and execute, query_read_only, and the           *)
(* transaction of a restore.                                               *)
(*                                                                         *)
(* Each call is a program: the statements it sends one await after the     *)
(* other, over a session of a pool (Postgres, MySQL), over the one         *)
(* connection an adapter has (Turso) or over one request (D1).  Callers    *)
(* run side by side, a statement or a COMMIT may fail, and a caller may be *)
(* dropped at an await.  A statement is what matters of it: whether the    *)
(* classifier of read_only.rs takes it for a query, and whether it writes. *)
(***************************************************************************)
EXTENDS Naturals, Sequences, FiniteSets

CONSTANTS
    Callers,        \* the calls in flight at once
    Scenarios,      \* records: engine, the callers, whether each waits for the others
                    \* to be done, what may fail, the statements they have
    MaxStatements   \* the longest script

Shared == {"turso", "turso-remote"}

VARIABLES
    scenario,       \* the engine and what may go wrong, chosen once
    session,        \* the connections to the database
    call,           \* a record for each caller
    committed       \* the writes that took effect: <<caller, number of the statement>>

EngineVars == <<scenario, session, call, committed>>

engine == scenario.engine
Sessions == IF engine \in Shared THEN {"shared"} ELSE Callers
may(fault) == fault \in scenario.faults

Kinds == {"query", "query_read_only", "execute_in_transaction"}
Writes == {"volatile", "update", "ddl"}

\* check_read_only, classify_read_only: "volatile" is what its grammar accepts
\* as a query and what still writes.
read_only(statement) == statement \in {"select", "volatile"}

(***************************************************************************)
(* What each adapter sends.  Aurora DSQL takes no preamble, D1 has no      *)
(* read-only mode, nor may a hosted libSQL: the classifier stands alone.   *)
(***************************************************************************)
read_only_preamble(e) == e = "postgres"

\* MariaDB's timeout is left on the connection.
reset_statement(e) == e = "mariadb"

\* A hosted libSQL may take PRAGMA query_only and forget it by the next statement.
honours(e) == e = "turso"

\* It is set, asked for in a statement of its own, and cleared.
probe_read_only_enforcement(e) == honours(e)

\* Where the engine itself refuses the writes of a read.
enforced(e) == IF e \in Shared THEN probe_read_only_enforcement(e)
               ELSE e \in {"postgres", "mysql", "mariadb"}

run_restore_txn == <<"begin", "run", "commit">>
postgres_read_only_txn ==
    IF read_only_preamble(engine) THEN <<"begin", "read_only", "run", "rollback">>
    ELSE <<"begin", "run", "rollback">>
mysql_read_only_txn ==
    IF reset_statement(engine)
    THEN <<"next_read_only", "timeout", "begin", "run", "rollback", "reset_timeout">>
    ELSE <<"next_read_only", "timeout", "begin", "run", "rollback">>
turso_query_read_only ==
    IF enforced(engine) THEN <<"query_only_on", "run", "query_only_off">> ELSE <<"run">>
d1_query_read_only == <<"run">>

program(kind) ==
    IF kind = "query" THEN <<"run">>
    ELSE IF kind = "execute_in_transaction" THEN run_restore_txn
    ELSE IF engine \in {"postgres", "aurora-dsql"} THEN postgres_read_only_txn
    ELSE IF engine \in {"mysql", "mariadb"} THEN mysql_read_only_txn
    ELSE IF engine \in Shared THEN turso_query_read_only
    ELSE d1_query_read_only

Fresh == [owner |-> "nobody", txn |-> "none", pending |-> {}, query_only |-> FALSE,
          next_read_only |-> FALSE, timeout |-> FALSE]
NoCall == [kind |-> "query", statements |-> <<>>, pc |-> 1, at |-> 1, session |-> "none",
           error |-> "none", result |-> "idle"]

EngineInit ==
    /\ scenario \in Scenarios
    /\ session = [s \in Sessions |-> Fresh]
    /\ call = [c \in Callers |-> NoCall]
    /\ committed = {}
-------------------------------------------------------------------------------
\* A call takes a connection that nobody uses, where it does not share the one.
free(s) == engine \in Shared \/ session[s].owner = "nobody"

\* More than one of a read is refused before anything is sent.
start(c, kind, statements) ==
    /\ c \in scenario.callers
    /\ call[c].result = "idle"
    /\ scenario.in_turn => \A d \in Callers : call[d].result # "running"
    /\ kind # "execute_in_transaction" => Len(statements) = 1
    /\ kind = "execute_in_transaction" => engine \notin {"aurora-dsql", "d1"}
    /\ IF kind = "query_read_only" /\ ~ read_only(statements[1])
       THEN /\ call' = [call EXCEPT ![c].kind = kind, ![c].result = "refused"]
            /\ UNCHANGED session
       ELSE \E s \in Sessions :
               /\ free(s)
               /\ session' = [session EXCEPT ![s].owner = c]
               /\ call' = [call EXCEPT ![c] = [NoCall EXCEPT !.kind = kind, !.statements = statements,
                                                  !.session = s, !.result = "running"]]
    /\ UNCHANGED <<scenario, committed>>

\* What c has still to send, and what it sends next.
more(c) == call[c].pc < Len(program(call[c].kind))
running(c, word) == call[c].result = "running" /\ program(call[c].kind)[call[c].pc] = word
at(c) == session[call[c].session]

\* The connection goes back; a transaction that is open on it is rolled back,
\* and what was set on the session stays.
returned(s) ==
    IF engine \in Shared THEN s ELSE [s EXCEPT !.owner = "nobody", !.txn = "none", !.pending = {}]

over(c, s, result) ==
    /\ session' = [session EXCEPT ![call[c].session] = returned(s)]
    /\ call' = [call EXCEPT ![c].result = result]

\* The step of c is done and leaves its connection as s.
step(c, s) ==
    IF more(c)
    THEN /\ session' = [session EXCEPT ![call[c].session] = s]
         /\ call' = [call EXCEPT ![c].pc = @ + 1]
    ELSE over(c, s, IF call[c].error = "none" THEN "ok" ELSE call[c].error)

\* What the statements around the caller's own do to a connection.  MySQL's
\* max_execution_time is for reads only, MariaDB's max_statement_time for all.
set(c, word) ==
    CASE word = "read_only" -> [at(c) EXCEPT !.txn = "read_only"]
      [] word = "next_read_only" -> [at(c) EXCEPT !.next_read_only = TRUE]
      [] word = "timeout" -> [at(c) EXCEPT !.timeout = engine = "mariadb"]
      [] word = "reset_timeout" -> [at(c) EXCEPT !.timeout = FALSE]
      [] word = "query_only_on" -> [at(c) EXCEPT !.query_only = honours(engine)]
      [] word = "query_only_off" -> [at(c) EXCEPT !.query_only = FALSE]
      [] word = "rollback" -> [at(c) EXCEPT !.txn = "none", !.pending = {}]

Words == {"read_only", "next_read_only", "timeout", "reset_timeout", "query_only_on",
          "query_only_off", "rollback"}

setting(c, word) == running(c, word) /\ step(c, set(c, word)) /\ UNCHANGED <<scenario, committed>>

\* SET fails for another reason than that the server does not know the variable:
\* the connection is gone (is_unknown_system_variable).
timeout_fails(c) ==
    /\ running(c, "timeout") /\ may("set")
    /\ over(c, Fresh, "failed")
    /\ UNCHANGED <<scenario, committed>>

\* SQLite has no transaction in a transaction.
begin(c) ==
    /\ running(c, "begin")
    /\ IF at(c).txn # "none" THEN over(c, at(c), "failed")
       ELSE step(c, [at(c) EXCEPT
                        !.txn = IF at(c).next_read_only THEN "read_only" ELSE "open",
                        !.next_read_only = FALSE])
    /\ UNCHANGED <<scenario, committed>>
-------------------------------------------------------------------------------
(***************************************************************************)
(* The caller's statements.                                                *)
(***************************************************************************)
statement(c) == call[c].statements[call[c].at]
refuses(s) == s.query_only \/ s.txn = "read_only" \/ (s.txn = "none" /\ s.next_read_only)

\* The next of the statements, or the next step.
next(c, s) ==
    IF call[c].at < Len(call[c].statements)
    THEN /\ session' = [session EXCEPT ![call[c].session] = s]
         /\ call' = [call EXCEPT ![c].at = @ + 1]
    ELSE step(c, s)

\* A failed statement of a read is reported once its connection is put right.
continues(c, error) ==
    IF more(c) /\ call[c].kind = "query_read_only"
    THEN /\ call' = [call EXCEPT ![c].pc = @ + 1, ![c].error = error]
         /\ UNCHANGED session
    ELSE over(c, IF call[c].kind = "execute_in_transaction"
                 THEN [at(c) EXCEPT !.txn = "none", !.pending = {}] ELSE at(c), error)

\* What went through before the failure is committed.
keeps_going(c, error) ==
    IF call[c].kind = "execute_in_transaction"
    THEN /\ committed' = committed \cup at(c).pending
         /\ over(c, [at(c) EXCEPT !.txn = "none", !.pending = {}], error)
    ELSE continues(c, error) /\ UNCHANGED committed
fails(c, error) == continues(c, error) /\ UNCHANGED committed

\* What the caller's statement commits: by itself, or MySQL's implicit COMMIT.
commits(c) ==
    LET s == at(c)
        write == {<<c, call[c].at>>}
    IN IF statement(c) \notin Writes \/ refuses(s) THEN {}
       ELSE IF s.txn = "none" THEN write
       ELSE IF statement(c) = "ddl" /\ engine \in {"mysql", "mariadb"} THEN s.pending \cup write
       ELSE {}

\* The connection after it.
ran(c) ==
    LET s == at(c)
    IN IF s.txn = "none" THEN [s EXCEPT !.next_read_only = FALSE]
       ELSE IF statement(c) \notin Writes THEN s
       ELSE IF statement(c) = "ddl" /\ engine \in {"mysql", "mariadb"}
       THEN [s EXCEPT !.txn = "none", !.pending = {}]
       ELSE [s EXCEPT !.pending = @ \cup {<<c, call[c].at>>}]

run(c) ==
    /\ running(c, "run")
    /\ IF statement(c) \in Writes /\ refuses(at(c)) THEN fails(c, "read_only")
       ELSE next(c, ran(c)) /\ committed' = committed \cup commits(c)
    /\ UNCHANGED scenario

run_fails(c) ==
    /\ running(c, "run") /\ may("statement")
    /\ fails(c, "failed")
    /\ UNCHANGED scenario

commit(c) ==
    /\ running(c, "commit")
    /\ committed' = committed \cup at(c).pending
    /\ step(c, [at(c) EXCEPT !.txn = "none", !.pending = {}])
    /\ UNCHANGED scenario

\* The connection is lost with the COMMIT, before or after it took effect; SQLite
\* keeps the transaction open when it cannot commit.
commit_fails(c) ==
    /\ running(c, "commit") /\ may("commit")
    /\ committed' \in {committed} \cup (IF engine \in Shared THEN {} ELSE {committed \cup at(c).pending})
    /\ over(c, at(c), "unknown")
    /\ UNCHANGED scenario

\* The caller is dropped at an await; what it had sent may still take effect.
drop(c) ==
    /\ call[c].result = "running" /\ may("drop")
    /\ \/ UNCHANGED committed
       \/ running(c, "run") /\ committed' = committed \cup commits(c)
       \/ running(c, "commit") /\ committed' = committed \cup at(c).pending
    /\ over(c, at(c), "dropped")
    /\ UNCHANGED scenario

EngineNext ==
    \E c \in Callers :
        \/ \E kind \in Kinds, n \in 1 .. MaxStatements :
              \E statements \in [1 .. n -> scenario.statements] : start(c, kind, statements)
        \/ \E word \in Words : setting(c, word)
        \/ timeout_fails(c) \/ begin(c) \/ run(c) \/ run_fails(c)
        \/ commit(c) \/ commit_fails(c) \/ drop(c)

EngineSpec == EngineInit /\ [][EngineNext]_EngineVars
-------------------------------------------------------------------------------
(***************************************************************************)
(* What the properties below ask of the scenarios.                         *)
(***************************************************************************)
\* Those that share a connection wait for each other: two reads would switch its
\* mode under one another.
TakeTurns == \A s \in Scenarios : s.engine \in Shared => s.in_turn

\* A script for MySQL holds no DDL (run_restore_txn).
NoImplicitCommit == \A s \in Scenarios : s.engine \in {"mysql", "mariadb"} => "ddl" \notin s.statements

\* Nobody is dropped between setting a mode and taking it back, and SQLite can commit.
ModesAreTakenBack ==
    \A s \in Scenarios :
        /\ s.engine \in Shared \cup {"mysql", "mariadb"} => "drop" \notin s.faults
        /\ s.engine \in Shared => "commit" \notin s.faults
-------------------------------------------------------------------------------
(***************************************************************************)
(* Where the engine has a read-only mode, a read changes nothing even if   *)
(* the classifier took a write for a query (run_read_only_txn; the         *)
(* "braces" of TursoAdapter::query_read_only).                             *)
(***************************************************************************)
ReadOnlyKeepsItsWord ==
    enforced(engine) =>
        \A w \in committed : call[w[1]].kind # "query_read_only"

(***************************************************************************)
(* What execute_in_transaction reports: success, and all of its writes     *)
(* took effect; a failure, and none did.  Where the COMMIT itself was lost *)
(* or its caller dropped, it is all or none (the guarantee that            *)
(* has_atomic_restore stands for).                                         *)
(***************************************************************************)
AllOrNothing ==
    \A c \in Callers :
        LET mine == {i \in DOMAIN call[c].statements : call[c].statements[i] \in Writes}
            done == {i \in DOMAIN call[c].statements : <<c, i>> \in committed}
        IN call[c].kind = "execute_in_transaction" =>
              /\ call[c].result = "ok" => done = mine
              /\ call[c].result \in {"unknown", "dropped"} => done \in {{}, mine}
              /\ call[c].result \notin {"ok", "unknown", "dropped"} => done = {}

(***************************************************************************)
(* A connection nobody uses carries nothing of the calls before: no mode   *)
(* that refuses writes, no timeout that cuts a long INSERT short, no open  *)
(* transaction (reset_statement; "a connection left read-only would        *)
(* corrupt later writes silently").                                        *)
(***************************************************************************)
IdleSessionsAreClean ==
    \A s \in Sessions :
        (\A c \in Callers : call[c].result = "running" => call[c].session # s) =>
            session[s] = [Fresh EXCEPT !.owner = session[s].owner]

(***************************************************************************)
(* An ordinary write is never refused because of a read, and one that was  *)
(* reported as done is in the database, whatever other calls do.           *)
(***************************************************************************)
OrdinaryWritesStand ==
    \A c \in Callers :
        /\ call[c].kind # "query_read_only" => call[c].result # "read_only"
        /\ call[c].kind = "query" /\ call[c].result = "ok" /\ call[c].statements[1] \in Writes =>
              <<c, 1>> \in committed
=============================================================================
