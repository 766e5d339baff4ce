----------------------------- MODULE EnginesProofs -----------------------------
(***************************************************************************)
(* What travels to a database: what Engines guarantees for every number of *)
(* callers, every script and every set of scenarios, and RedisReads for    *)
(* every set of command lines, of keys and of buckets.                     *)
(***************************************************************************)
EXTENDS Engines, RedisReads, TLAPS, SequenceTheorems, FiniteSetTheorems

\* The callers are not the pool, and scripts have a length.
CallersAndScripts == "nobody" \notin Callers /\ MaxStatements \in Nat
-------------------------------------------------------------------------------
(***************************************************************************)
(* Which word follows which in a call's program.                           *)
(***************************************************************************)
\* Where a read is more than its statement.
HasReadProgram(e) == e \in {"postgres", "aurora-dsql", "mysql", "mariadb", "turso"}

\* The word w comes after v.
follows(kind, v, w) ==
    \/ /\ kind = "execute_in_transaction"
       /\ \/ v = "begin" /\ w = "run"
          \/ v = "run" /\ w = "commit"
    \/ /\ kind = "query_read_only"
       /\ \/ engine = "postgres" /\ v = "begin" /\ w = "read_only"
          \/ engine = "postgres" /\ v = "read_only" /\ w = "run"
          \/ engine \in {"aurora-dsql", "mysql", "mariadb"} /\ v = "begin" /\ w = "run"
          \/ /\ engine \in {"postgres", "aurora-dsql", "mysql", "mariadb"}
             /\ v = "run" /\ w = "rollback"
          \/ engine \in {"mysql", "mariadb"} /\ v = "next_read_only" /\ w = "timeout"
          \/ engine \in {"mysql", "mariadb"} /\ v = "timeout" /\ w = "begin"
          \/ engine = "mariadb" /\ v = "rollback" /\ w = "reset_timeout"
          \/ engine = "turso" /\ v = "query_only_on" /\ w = "run"
          \/ engine = "turso" /\ v = "run" /\ w = "query_only_off"

\* The word w ends the program.
ends(kind, w) ==
    \/ kind = "query" /\ w = "run"
    \/ kind = "execute_in_transaction" /\ w = "commit"
    \/ /\ kind = "query_read_only"
       /\ \/ engine \in {"postgres", "aurora-dsql", "mysql"} /\ w = "rollback"
          \/ engine = "mariadb" /\ w = "reset_timeout"
          \/ engine = "turso" /\ w = "query_only_off"
          \/ ~ HasReadProgram(engine) /\ w = "run"

\* The word w begins it.
begins(kind, w) ==
    \/ kind = "query" /\ w = "run"
    \/ kind = "execute_in_transaction" /\ w = "begin"
    \/ /\ kind = "query_read_only"
       /\ \/ engine \in {"postgres", "aurora-dsql"} /\ w = "begin"
          \/ engine \in {"mysql", "mariadb"} /\ w = "next_read_only"
          \/ engine = "turso" /\ w = "query_only_on"
          \/ ~ HasReadProgram(engine) /\ w = "run"

\* Every word of p but the last is followed by the next.
chained(kind, p) ==
    /\ Len(p) \in Nat \ {0} /\ begins(kind, p[1])
    /\ \A k \in 1 .. Len(p) : k < Len(p) => follows(kind, p[k], p[k + 1])
    /\ \A k \in 1 .. Len(p) : ~ (k < Len(p)) => ends(kind, p[k])

\* The programs, one by one.
LEMMA QueryWords ==
    ASSUME NEW kind, kind = "query",
           NEW p, Len(p) = 1, p[1] = "run"
    PROVE  chained(kind, p)
  BY DEF chained, begins, follows, ends, HasReadProgram

LEMMA RestoreWords ==
    ASSUME NEW kind, kind = "execute_in_transaction",
           NEW p, Len(p) = 3, p[1] = "begin", p[2] = "run", p[3] = "commit"
    PROVE  chained(kind, p)
  BY DEF chained, begins, follows, ends, HasReadProgram

LEMMA PostgresWords ==
    ASSUME NEW kind, kind = "query_read_only", engine = "postgres",
           NEW p, Len(p) = 4, p[1] = "begin", p[2] = "read_only", p[3] = "run", p[4] = "rollback"
    PROVE  chained(kind, p)
  BY DEF chained, begins, follows, ends, HasReadProgram

LEMMA AuroraWords ==
    ASSUME NEW kind, kind = "query_read_only", engine = "aurora-dsql",
           NEW p, Len(p) = 3, p[1] = "begin", p[2] = "run", p[3] = "rollback"
    PROVE  chained(kind, p)
  BY DEF chained, begins, follows, ends, HasReadProgram

LEMMA MysqlWords ==
    ASSUME NEW kind, kind = "query_read_only", engine = "mysql",
           NEW p, Len(p) = 5, p[1] = "next_read_only", p[2] = "timeout",
           p[3] = "begin", p[4] = "run", p[5] = "rollback"
    PROVE  chained(kind, p)
  BY DEF chained, begins, follows, ends, HasReadProgram

LEMMA MariadbWords ==
    ASSUME NEW kind, kind = "query_read_only", engine = "mariadb",
           NEW p, Len(p) = 6, p[1] = "next_read_only", p[2] = "timeout", p[3] = "begin",
           p[4] = "run", p[5] = "rollback", p[6] = "reset_timeout"
    PROVE  chained(kind, p)
  BY DEF chained, begins, follows, ends, HasReadProgram

LEMMA TursoWords ==
    ASSUME NEW kind, kind = "query_read_only", engine = "turso",
           NEW p, Len(p) = 3, p[1] = "query_only_on", p[2] = "run", p[3] = "query_only_off"
    PROVE  chained(kind, p)
  BY DEF chained, begins, follows, ends, HasReadProgram

LEMMA OtherWords ==
    ASSUME NEW kind, kind = "query_read_only", ~ HasReadProgram(engine),
           NEW p, Len(p) = 1, p[1] = "run"
    PROVE  chained(kind, p)
  BY DEF chained, begins, follows, ends, HasReadProgram

\* A program is one of these.
LEMMA ProgramWords ==
    ASSUME NEW kind \in Kinds
    PROVE  chained(kind, program(kind))
  <1> DEFINE q == program(kind)
  <1>1. CASE kind = "query"
    <2>1. program(kind) = <<"run">>  BY <1>1 DEF program
    <2>2. Len(q) = 1 /\ q[1] = "run"  BY <2>1
    <2> QED  BY <1>1, <2>2, QueryWords
  <1>2. CASE kind = "execute_in_transaction"
    <2>1. program(kind) = <<"begin", "run", "commit">>  BY <1>2 DEF program, run_restore_txn
    <2>2. Len(q) = 3 /\ q[1] = "begin" /\ q[2] = "run" /\ q[3] = "commit"  BY <2>1
    <2> QED  BY <1>2, <2>2, RestoreWords
  <1>3. CASE kind = "query_read_only"
    <2>1. CASE engine = "postgres"
      <3>1. program(kind) = <<"begin", "read_only", "run", "rollback">>
        BY <1>3, <2>1 DEF program, postgres_read_only_txn, read_only_preamble
      <3>2. /\ Len(q) = 4 /\ q[1] = "begin" /\ q[2] = "read_only"
            /\ q[3] = "run" /\ q[4] = "rollback"  BY <3>1
      <3> QED  BY <1>3, <2>1, <3>2, PostgresWords
    <2>2. CASE engine = "aurora-dsql"
      <3>1. program(kind) = <<"begin", "run", "rollback">>
        BY <1>3, <2>2 DEF program, postgres_read_only_txn, read_only_preamble
      <3>2. Len(q) = 3 /\ q[1] = "begin" /\ q[2] = "run" /\ q[3] = "rollback"  BY <3>1
      <3> QED  BY <1>3, <2>2, <3>2, AuroraWords
    <2>3. CASE engine = "mysql"
      <3>1. program(kind) = <<"next_read_only", "timeout", "begin", "run", "rollback">>
        BY <1>3, <2>3 DEF program, mysql_read_only_txn, reset_statement
      <3>2. /\ Len(q) = 5 /\ q[1] = "next_read_only" /\ q[2] = "timeout"
            /\ q[3] = "begin" /\ q[4] = "run" /\ q[5] = "rollback"  BY <3>1
      <3> QED  BY <1>3, <2>3, <3>2, MysqlWords
    <2>4. CASE engine = "mariadb"
      <3>1. program(kind) =
              <<"next_read_only", "timeout", "begin", "run", "rollback", "reset_timeout">>
        BY <1>3, <2>4 DEF program, mysql_read_only_txn, reset_statement
      <3>2. /\ Len(q) = 6 /\ q[1] = "next_read_only" /\ q[2] = "timeout" /\ q[3] = "begin"
            /\ q[4] = "run" /\ q[5] = "rollback" /\ q[6] = "reset_timeout"  BY <3>1
      <3> QED  BY <1>3, <2>4, <3>2, MariadbWords
    <2>5. CASE engine = "turso"
      <3>1. program(kind) = <<"query_only_on", "run", "query_only_off">>
        BY <1>3, <2>5 DEF program, turso_query_read_only, enforced, probe_read_only_enforcement,
           honours, Shared
      <3>2. /\ Len(q) = 3 /\ q[1] = "query_only_on"
            /\ q[2] = "run" /\ q[3] = "query_only_off"  BY <3>1
      <3> QED  BY <1>3, <2>5, <3>2, TursoWords
    <2>6. CASE ~ HasReadProgram(engine)
      <3>1. program(kind) = <<"run">>
        BY <1>3, <2>6 DEF program, turso_query_read_only, d1_query_read_only, enforced,
           probe_read_only_enforcement, honours, Shared, HasReadProgram
      <3>2. Len(q) = 1 /\ q[1] = "run"  BY <3>1
      <3> QED  BY <1>3, <2>6, <3>2, OtherWords
    <2> QED  BY <2>1, <2>2, <2>3, <2>4, <2>5, <2>6 DEF HasReadProgram
  <1> QED  BY <1>1, <1>2, <1>3 DEF Kinds
-------------------------------------------------------------------------------
(***************************************************************************)
(* Who holds which connection: a call that runs has one of its own, and    *)
(* goes through its program and its statements in order.                   *)
(***************************************************************************)
Errors == {"none", "read_only", "failed"}
Ends == {"ok", "read_only", "failed", "unknown", "dropped"}

Session == [owner : Callers \cup {"nobody"}, txn : {"none", "open", "read_only"},
            pending : SUBSET (Callers \X Nat), query_only : BOOLEAN,
            next_read_only : BOOLEAN, timeout : BOOLEAN]
Call == [kind : Kinds, statements : Seq(scenario.statements), pc : Nat, at : Nat,
         session : Sessions \cup {"none"}, error : Errors,
         result : {"idle", "refused", "running"} \cup Ends]

word(c) == program(call[c].kind)[call[c].pc]
runs(c) == call[c].result = "running"

CallTypes ==
    /\ scenario \in Scenarios
    /\ session \in [Sessions -> Session]
    /\ call \in [Callers -> Call]

Held(c) ==
    runs(c) =>
        /\ call[c].session \in Sessions /\ at(c).owner = c
        /\ call[c].pc \in 1 .. Len(program(call[c].kind))
        /\ call[c].at \in 1 .. Len(call[c].statements)
        /\ call[c].kind # "execute_in_transaction" => Len(call[c].statements) = 1
        /\ call[c].kind # "query_read_only" => call[c].error = "none"

Calls == CallTypes /\ \A c \in Callers : Held(c)

\* A step of c over the connection x leaves alone the other calls, theirs and the
\* rest of the pool.
SparesBut(c, x) ==
    /\ \A d \in Callers \ {c} : call'[d] = call[d] /\ (runs(d) => call[d].session # x)
    /\ \A s \in Sessions \ {x} : session'[s] = session[s]
Spares(c) == SparesBut(c, call[c].session)

\* The call c has its next word to send, or its next statement, and its connection is s.
GoesOn(c, s, error) ==
    /\ more(c) /\ session'[call[c].session] = s
    /\ call'[c] = [call[c] EXCEPT !.pc = @ + 1, !.error = error]
    /\ follows(call[c].kind, word(c), program(call[c].kind)[call[c].pc + 1])
GoesDown(c, s) ==
    /\ call[c].at < Len(call[c].statements)
    /\ session'[call[c].session] = s
    /\ call'[c] = [call[c] EXCEPT !.at = @ + 1]
Stops(c, s, result) ==
    /\ session'[call[c].session] = returned(s)
    /\ call'[c] = [call[c] EXCEPT !.result = result]

Outcome(c) == IF call[c].error = "none" THEN "ok" ELSE call[c].error

\* The connections of two calls that run are two.
LEMMA OwnConnection ==
    ASSUME Calls, NEW c \in Callers, NEW d \in Callers, runs(c), runs(d), c # d
    PROVE  call[c].session # call[d].session
  BY DEF Calls, Held, at

LEMMA ReturnedType ==
    ASSUME NEW s \in Session
    PROVE  returned(s) \in Session
  BY DEF returned, Session

\* The scenario stays, and with it the programs and the pool.
LEMMA SameScenario ==
    ASSUME scenario' = scenario
    PROVE  /\ engine' = engine /\ Sessions' = Sessions /\ Session' = Session /\ Call' = Call
           /\ \A kind : program(kind)' = program(kind)
  <1>1. engine' = engine  BY DEF engine
  <1>2. Sessions' = Sessions  BY <1>1 DEF Sessions
  <1>3. ASSUME NEW kind PROVE program(kind)' = program(kind)
    BY <1>1 DEF program, postgres_read_only_txn, mysql_read_only_txn, turso_query_read_only,
       enforced
  <1> QED  BY <1>1, <1>2, <1>3 DEF Session, Call

\* What c does not touch is held as it was.
LEMMA OthersHeld ==
    ASSUME Calls, NEW c \in Callers, NEW x, SparesBut(c, x), scenario' = scenario,
           NEW d \in Callers \ {c}
    PROVE  Held(d)'
  <1>1. call'[d] = call[d]  BY DEF SparesBut
  <1>2. runs(d)' = runs(d)  BY <1>1 DEF runs
  <1>3. CASE runs(d)
    <2>1. /\ call[d].session \in Sessions /\ at(d).owner = d
          /\ call[d].pc \in 1 .. Len(program(call[d].kind))
          /\ call[d].at \in 1 .. Len(call[d].statements)
          /\ call[d].kind # "execute_in_transaction" => Len(call[d].statements) = 1
          /\ call[d].kind # "query_read_only" => call[d].error = "none"
      BY <1>3 DEF Calls, Held
    <2>2. session'[call[d].session] = session[call[d].session]  BY <1>3, <2>1 DEF SparesBut
    <2>3. at(d)' = at(d)  BY <1>1, <2>2 DEF at
    <2> QED  BY <1>1, <2>1, <2>3, SameScenario DEF Held
  <1> QED  BY <1>2, <1>3 DEF Held

LEMMA Ended ==
    ASSUME Calls, NEW c \in Callers, runs(c), NEW s \in Session, NEW result \in Ends,
           over(c, s, result), scenario' = scenario
    PROVE  Calls' /\ Spares(c) /\ Stops(c, s, result)
  <1>1. call[c].session \in Sessions /\ returned(s) \in Session
    BY ReturnedType DEF Calls, Held
  <1>2. Spares(c) /\ Stops(c, s, result)
    BY <1>1, OwnConnection DEF over, Spares, SparesBut, Stops, Calls, CallTypes
  <1>3. CallTypes'
    <2>1. session' \in [Sessions -> Session]  BY <1>1 DEF over, Calls, CallTypes
    <2>2. call' \in [Callers -> Call]  BY DEF over, Calls, CallTypes, Call
    <2> QED  BY <2>1, <2>2, SameScenario DEF CallTypes, Calls
  <1>4. Held(c)'
    <2>1. call'[c].result = result  BY <1>2 DEF Stops, Calls, CallTypes, Call
    <2> QED  BY <2>1 DEF Held, runs, Ends
  <1> QED  BY <1>2, <1>3, <1>4, OthersHeld DEF Calls, Spares

\* The step c has made is followed by another, or is its last.
LEMMA Stepped ==
    ASSUME Calls, NEW c \in Callers, runs(c), NEW s \in Session, s.owner = c,
           step(c, s), scenario' = scenario
    PROVE  /\ Calls' /\ Spares(c)
           /\ \/ GoesOn(c, s, call[c].error)
              \/ Stops(c, s, Outcome(c)) /\ ends(call[c].kind, word(c))
  <1> DEFINE k == call[c].kind
             p == call[c].pc
  <1>1. /\ call[c] \in Call /\ k \in Kinds /\ call[c].session \in Sessions
        /\ p \in 1 .. Len(program(k))
    BY DEF Calls, CallTypes, Held, Call
  <1>2. chained(k, program(k))  BY <1>1, ProgramWords
  <1>3. CASE more(c)
    <2>1. /\ session' = [session EXCEPT ![call[c].session] = s]
          /\ call' = [call EXCEPT ![c].pc = @ + 1]
      BY <1>3 DEF step
    <2>2. call'[c] = [call[c] EXCEPT !.pc = @ + 1, !.error = call[c].error]
      BY <1>1, <2>1 DEF Calls, CallTypes, Call
    <2>3. follows(k, word(c), program(k)[p + 1])  BY <1>1, <1>2, <1>3 DEF chained, more, word
    <2>4. GoesOn(c, s, call[c].error)
      BY <1>1, <1>3, <2>1, <2>2, <2>3 DEF GoesOn, Calls, CallTypes
    <2>5. Spares(c)  BY <1>1, <2>1, OwnConnection DEF Spares, SparesBut, Calls, CallTypes
    <2>6. CallTypes'
      <3>1. session' \in [Sessions -> Session]  BY <1>1, <2>1 DEF Calls, CallTypes
      <3>2. [call[c] EXCEPT !.pc = @ + 1] \in Call  BY <1>1 DEF Call
      <3>3. call' \in [Callers -> Call]  BY <2>1, <3>2 DEF Calls, CallTypes
      <3> QED  BY <3>1, <3>3, SameScenario DEF CallTypes, Calls
    <2>7. Held(c)'
      <3>1. /\ call'[c].session = call[c].session /\ call'[c].kind = k /\ call'[c].pc = p + 1
            /\ call'[c].statements = call[c].statements /\ call'[c].at = call[c].at
            /\ call'[c].error = call[c].error
        BY <1>1, <2>2 DEF Call
      <3>2. session'[call[c].session] = s  BY <2>4 DEF GoesOn
      <3>3. p + 1 \in 1 .. Len(program(k))  BY <1>1, <1>2, <1>3 DEF more, chained
      <3> QED  BY <1>1, <3>1, <3>2, <3>3, SameScenario DEF Held, Calls, at
    <2> QED  BY <2>4, <2>5, <2>6, <2>7, OthersHeld DEF Calls, Spares
  <1>4. CASE ~ more(c)
    <2>1. over(c, s, Outcome(c))  BY <1>4 DEF step, Outcome
    <2>2. Outcome(c) \in Ends  BY <1>1 DEF Outcome, Ends, Call, Errors
    <2>3. ends(k, word(c))  BY <1>1, <1>2, <1>4 DEF chained, more, word
    <2> QED  BY <2>1, <2>2, <2>3, Ended
  <1> QED  BY <1>3, <1>4

\* After a statement comes the next of them or the next word.
LEMMA Nexted ==
    ASSUME Calls, NEW c \in Callers, runs(c), NEW s \in Session, s.owner = c,
           next(c, s), scenario' = scenario
    PROVE  /\ Calls' /\ Spares(c)
           /\ \/ GoesDown(c, s)
              \/ /\ call[c].at = Len(call[c].statements)
                 /\ \/ GoesOn(c, s, call[c].error)
                    \/ Stops(c, s, Outcome(c)) /\ ends(call[c].kind, word(c))
  <1>1. /\ call[c] \in Call /\ call[c].session \in Sessions
        /\ call[c].at \in 1 .. Len(call[c].statements)
    BY DEF Calls, CallTypes, Held
  <1>2. CASE call[c].at < Len(call[c].statements)
    <2>1. /\ session' = [session EXCEPT ![call[c].session] = s]
          /\ call' = [call EXCEPT ![c].at = @ + 1]
      BY <1>2 DEF next
    <2>2. GoesDown(c, s)  BY <1>1, <1>2, <2>1 DEF GoesDown, Calls, CallTypes
    <2>3. Spares(c)  BY <1>1, <2>1, OwnConnection DEF Spares, SparesBut, Calls, CallTypes
    <2>4. CallTypes'
      <3>1. session' \in [Sessions -> Session]  BY <1>1, <2>1 DEF Calls, CallTypes
      <3>2. [call[c] EXCEPT !.at = @ + 1] \in Call  BY <1>1 DEF Call
      <3>3. call' \in [Callers -> Call]  BY <2>1, <3>2 DEF Calls, CallTypes
      <3> QED  BY <3>1, <3>3, SameScenario DEF CallTypes, Calls
    <2>5. Held(c)'
      <3>1. /\ call'[c].session = call[c].session /\ call'[c].kind = call[c].kind
            /\ call'[c].statements = call[c].statements /\ call'[c].at = call[c].at + 1
            /\ call'[c].error = call[c].error /\ call'[c].pc = call[c].pc
        BY <1>1, <2>2 DEF Call, GoesDown
      <3>2. session'[call[c].session] = s  BY <2>2 DEF GoesDown
      <3>3. call[c].at + 1 \in 1 .. Len(call[c].statements)
        BY <1>1, <1>2 DEF Call
      <3> QED  BY <1>1, <3>1, <3>2, <3>3, SameScenario DEF Held, Calls, at
    <2> QED  BY <2>2, <2>3, <2>4, <2>5, OthersHeld DEF Calls, Spares
  <1>3. CASE ~ (call[c].at < Len(call[c].statements))
    <2>1. step(c, s)  BY <1>3 DEF next
    <2>2. call[c].at = Len(call[c].statements)  BY <1>1, <1>3 DEF Call
    <2> QED  BY <2>1, <2>2, Stepped
  <1> QED  BY <1>2, <1>3

\* A call whose statement failed.
GivenUp(c) ==
    IF call[c].kind = "execute_in_transaction"
    THEN [at(c) EXCEPT !.txn = "none", !.pending = {}] ELSE at(c)

LEMMA Continued ==
    ASSUME Calls, NEW c \in Callers, runs(c), NEW error \in Errors \ {"none"},
           continues(c, error), scenario' = scenario
    PROVE  /\ Calls' /\ Spares(c)
           /\ \/ GoesOn(c, at(c), error) /\ call[c].kind = "query_read_only"
              \/ /\ Stops(c, GivenUp(c), error)
                 /\ call[c].kind = "query_read_only" => ends(call[c].kind, word(c))
  <1> DEFINE k == call[c].kind
             p == call[c].pc
  <1>1. /\ call[c] \in Call /\ k \in Kinds /\ call[c].session \in Sessions
        /\ p \in 1 .. Len(program(k)) /\ at(c) \in Session /\ at(c).owner = c
    BY DEF Calls, CallTypes, Held, Call, at
  <1>2. chained(k, program(k))  BY <1>1, ProgramWords
  <1>3. CASE more(c) /\ k = "query_read_only"
    <2>1. /\ call' = [call EXCEPT ![c].pc = @ + 1, ![c].error = error]
          /\ session' = session
      BY <1>3 DEF continues
    <2>2. call'[c] = [call[c] EXCEPT !.pc = @ + 1, !.error = error]
      BY <1>1, <2>1 DEF Calls, CallTypes, Call
    <2>3. follows(k, word(c), program(k)[p + 1])  BY <1>1, <1>2, <1>3 DEF chained, more, word
    <2>4. GoesOn(c, at(c), error)  BY <1>1, <1>3, <2>1, <2>2, <2>3 DEF GoesOn, at
    <2>5. Spares(c)  BY <1>1, <2>1, OwnConnection DEF Spares, SparesBut, Calls, CallTypes
    <2>6. CallTypes'
      <3>1. error \in Errors  OBVIOUS
      <3> DEFINE r == [call[c] EXCEPT !.pc = @ + 1]
      <3>2. r \in Call  BY <1>1 DEF Call
      <3>3. [r EXCEPT !.error = error] \in Call
        <4> HIDE DEF r
        <4> QED  BY <3>1, <3>2 DEF Call
      <3>4. [call[c] EXCEPT !.pc = @ + 1, !.error = error] \in Call  BY <3>3
      <3>5. \A d \in Callers \ {c} : call'[d] = call[d]  BY <2>5 DEF Spares, SparesBut
      <3>6. DOMAIN call' = Callers /\ call' = [d \in Callers |-> call'[d]]
        BY <2>1 DEF Calls, CallTypes
      <3>7. call' \in [Callers -> Call]  BY <2>2, <3>4, <3>5, <3>6 DEF Calls, CallTypes
      <3> QED  BY <2>1, <3>7, SameScenario DEF CallTypes, Calls
    <2>7. Held(c)'
      <3>1. /\ call'[c].session = call[c].session /\ call'[c].kind = k /\ call'[c].pc = p + 1
            /\ call'[c].statements = call[c].statements /\ call'[c].at = call[c].at
        BY <1>1, <2>2 DEF Call
      <3>2. p + 1 \in 1 .. Len(program(k))  BY <1>1, <1>2, <1>3 DEF more, chained
      <3> QED  BY <1>1, <1>3, <2>1, <3>1, <3>2, SameScenario DEF Held, Calls, at
    <2> QED  BY <1>3, <2>4, <2>5, <2>6, <2>7, OthersHeld DEF Calls, Spares
  <1>4. CASE ~ (more(c) /\ k = "query_read_only")
    <2>1. over(c, GivenUp(c), error)  BY <1>4 DEF continues, GivenUp
    <2>2. GivenUp(c) \in Session  BY <1>1 DEF GivenUp, Session
    <2>3. error \in Ends  BY DEF Errors, Ends
    <2>4. k = "query_read_only" => ends(k, word(c))
      BY <1>1, <1>2, <1>4 DEF chained, more, word
    <2> QED  BY <2>1, <2>2, <2>3, <2>4, Ended
  <1> QED  BY <1>3, <1>4
-------------------------------------------------------------------------------
(***************************************************************************)
(* What a step does: each action as what it makes of its caller, of the    *)
(* connection and of the database.                                         *)
(***************************************************************************)
\* A call is refused before anything is sent, or takes a connection that no other has.
Refused(c, kind) ==
    /\ call[c].result = "idle" /\ kind = "query_read_only"
    /\ call'[c] = [call[c] EXCEPT !.kind = kind, !.result = "refused"]
    /\ \A d \in Callers \ {c} : call'[d] = call[d]
    /\ UNCHANGED <<session, committed>>
Joins(c, kind, statements, x) ==
    /\ call[c].result = "idle" /\ kind \in Kinds /\ x \in Sessions /\ free(x)
    /\ statements \in Seq(scenario.statements) /\ Len(statements) \in Nat \ {0}
    /\ kind # "execute_in_transaction" => Len(statements) = 1
    /\ kind = "query_read_only" => read_only(statements[1])
    /\ session'[x] = [session[x] EXCEPT !.owner = c]
    /\ call'[c] = [NoCall EXCEPT !.kind = kind, !.statements = statements, !.session = x,
                                 !.result = "running"]
    /\ begins(kind, program(kind)[1]) /\ UNCHANGED committed

\* The word goes through, and leaves the connection as s.
opened(c) == [at(c) EXCEPT !.txn = IF at(c).next_read_only THEN "read_only" ELSE "open",
                           !.next_read_only = FALSE]
closed(c) == [at(c) EXCEPT !.txn = "none", !.pending = {}]
refused(c) == statement(c) \in Writes /\ refuses(at(c))

Does(c, s) ==
    \/ word(c) \in Words /\ s = set(c, word(c)) /\ UNCHANGED committed
    \/ word(c) = "begin" /\ at(c).txn = "none" /\ s = opened(c) /\ UNCHANGED committed
    \/ word(c) = "run" /\ ~ refused(c) /\ s = ran(c) /\ committed' = committed \cup commits(c)
    \/ word(c) = "commit" /\ s = closed(c) /\ committed' = committed \cup at(c).pending
Succeeds(c, s) ==
    /\ Does(c, s)
    /\ \/ word(c) = "run" /\ GoesDown(c, s)
       \/ /\ word(c) = "run" => call[c].at = Len(call[c].statements)
          /\ \/ GoesOn(c, s, call[c].error)
             \/ Stops(c, s, Outcome(c)) /\ ends(call[c].kind, word(c))

\* It fails, its connection goes, or its caller does.
Fails(c, error) ==
    /\ word(c) = "run" /\ UNCHANGED committed
    /\ error \in {"read_only", "failed"} /\ (error = "read_only" => refused(c))
    /\ \/ GoesOn(c, at(c), error) /\ call[c].kind = "query_read_only"
       \/ /\ Stops(c, GivenUp(c), error)
          /\ call[c].kind = "query_read_only" => ends(call[c].kind, word(c))
CannotBegin(c) ==
    word(c) = "begin" /\ at(c).txn # "none" /\ Stops(c, at(c), "failed") /\ UNCHANGED committed
IsCutOff(c) == word(c) = "timeout" /\ Stops(c, Fresh, "failed") /\ UNCHANGED committed
IsInDoubt(c) ==
    /\ word(c) = "commit" /\ may("commit") /\ Stops(c, at(c), "unknown")
    /\ \/ UNCHANGED committed
       \/ engine \notin Shared /\ committed' = committed \cup at(c).pending
IsDropped(c) ==
    /\ may("drop") /\ Stops(c, at(c), "dropped")
    /\ \/ UNCHANGED committed
       \/ word(c) = "run" /\ committed' = committed \cup commits(c)
       \/ word(c) = "commit" /\ committed' = committed \cup at(c).pending

\* The step that the caller c takes while it runs.
Acts(c) ==
    /\ runs(c) /\ Spares(c)
    /\ \/ \E s \in Session : Succeeds(c, s)
       \/ \E error \in Errors : Fails(c, error)
       \/ CannotBegin(c) \/ IsCutOff(c) \/ IsInDoubt(c) \/ IsDropped(c)
Arrives(c) ==
    \/ \E kind \in Kinds : Refused(c, kind)
    \/ \E kind \in Kinds, statements \in Seq(scenario.statements), x \in Sessions :
          Joins(c, kind, statements, x) /\ SparesBut(c, x)

LEMMA FreshType == Fresh \in Session
  BY DEF Fresh, Session

\* Where the callers of a shared connection take turns, a free one is nobody's.
LEMMA FreeIsFree ==
    ASSUME Calls, CallersAndScripts, TakeTurns, NEW x \in Sessions, free(x),
           scenario.in_turn => \A d \in Callers : ~ runs(d), NEW d \in Callers, runs(d)
    PROVE  call[d].session # x
  <1>1. engine \in Shared => scenario.in_turn  BY DEF TakeTurns, engine, Calls, CallTypes
  <1>2. session[x].owner = "nobody"  BY <1>1 DEF free
  <1>3. session[call[d].session].owner = d  BY DEF Calls, Held, at
  <1> QED  BY <1>2, <1>3 DEF CallersAndScripts

LEMMA Starts ==
    ASSUME Calls, CallersAndScripts, TakeTurns, NEW c \in Callers, NEW kind \in Kinds,
           NEW n \in 1 .. MaxStatements, NEW statements \in [1 .. n -> scenario.statements],
           start(c, kind, statements)
    PROVE  Calls' /\ scenario' = scenario /\ Arrives(c)
  <1>1. /\ scenario' = scenario /\ committed' = committed /\ call[c].result = "idle"
        /\ call[c] \in Call /\ n \in Nat \ {0}
    <2>1. scenario' = scenario /\ committed' = committed /\ call[c].result = "idle"  BY DEF start
    <2>2. call[c] \in Call  BY DEF Calls, CallTypes
    <2>3. n \in Nat \ {0}  BY DEF CallersAndScripts
    <2> QED  BY <2>1, <2>2, <2>3
  <1>2. statements \in Seq(scenario.statements) /\ Len(statements) = n  BY <1>1, SeqDef
  <1>3. CASE kind = "query_read_only" /\ ~ read_only(statements[1])
    <2>1. /\ call' = [call EXCEPT ![c].kind = kind, ![c].result = "refused"]
          /\ session' = session
      BY <1>3 DEF start
    <2> DEFINE r == [call[c] EXCEPT !.kind = kind, !.result = "refused"]
    <2>2. r \in Call  BY <1>1 DEF Call
    <2>3. call' = [call EXCEPT ![c] = r]  BY <2>1 DEF Calls, CallTypes
    <2> HIDE DEF r
    <2>4. /\ call' \in [Callers -> Call] /\ call'[c] = r
          /\ \A d \in Callers \ {c} : call'[d] = call[d]
      BY <2>2, <2>3 DEF Calls, CallTypes
    <2>5. CallTypes'  BY <1>1, <2>1, <2>4, SameScenario DEF Calls, CallTypes
    <2>6. r.result = "refused"  BY <1>1 DEF r, Call
    <2>7. Refused(c, kind)  BY <1>1, <1>3, <2>1, <2>4 DEF Refused, r
    <2>8. ASSUME NEW d \in Callers PROVE Held(d)'
      <3>1. CASE d = c  BY <2>4, <2>6, <3>1 DEF Held, runs
      <3>2. CASE d # c
        <4>1. call'[d] = call[d] /\ at(d)' = at(d)  BY <2>1, <2>4, <3>2 DEF at
        <4> QED  BY <1>1, <4>1, SameScenario DEF Held, Calls, runs
      <3> QED  BY <3>1, <3>2
    <2> QED  BY <1>1, <2>5, <2>7, <2>8 DEF Arrives, Calls
  <1>4. CASE ~ (kind = "query_read_only" /\ ~ read_only(statements[1]))
    <2> DEFINE r(x) == [NoCall EXCEPT !.kind = kind, !.statements = statements, !.session = x,
                                      !.result = "running"]
    <2>1. PICK x \in Sessions : /\ free(x) /\ session' = [session EXCEPT ![x].owner = c]
                                /\ call' = [call EXCEPT ![c] = r(x)]
      BY <1>4 DEF start
    <2>2. r(x) \in Call
      <3>1. NoCall.error = "none" /\ NoCall.pc = 1 /\ NoCall.at = 1  BY DEF NoCall
      <3> QED  BY <1>2 DEF Call, NoCall, Errors
    <2>3. /\ r(x).kind = kind /\ r(x).statements = statements /\ r(x).session = x
          /\ r(x).result = "running" /\ r(x).pc = 1 /\ r(x).at = 1 /\ r(x).error = "none"
      BY DEF NoCall
    <2>4. /\ session' \in [Sessions -> Session] /\ session'[x] = [session[x] EXCEPT !.owner = c]
          /\ \A y \in Sessions \ {x} : session'[y] = session[y]
      <3> DEFINE taken == [session[x] EXCEPT !.owner = c]
      <3>1. session \in [Sessions -> Session]  BY DEF Calls, CallTypes
      <3>2. taken \in Session  BY <3>1 DEF Session
      <3>3. session' = [session EXCEPT ![x] = taken]  BY <2>1
      <3> HIDE DEF taken
      <3>4. session' \in [Sessions -> Session] /\ session'[x] = taken
            /\ \A y \in Sessions \ {x} : session'[y] = session[y]
        BY <3>1, <3>2, <3>3
      <3> QED  BY <3>4 DEF taken
    <2>5. SparesBut(c, x)
      <3>1. scenario.in_turn => \A d \in Callers : ~ runs(d)  BY DEF start, runs
      <3>2. \A d \in Callers : runs(d) => call[d].session # x  BY <2>1, <3>1, FreeIsFree
      <3> QED  BY <2>1, <2>4, <3>2 DEF SparesBut, Calls, CallTypes
    <2>6. call' \in [Callers -> Call] /\ call'[c] = r(x)  BY <2>1, <2>2 DEF Calls, CallTypes
    <2>7. CallTypes'  BY <1>1, <2>4, <2>6, SameScenario DEF Calls, CallTypes
    <2>8. chained(kind, program(kind))  BY ProgramWords
    <2>9. Held(c)'
      <3>1. at(c)'.owner = c
        <4>1. session[x] \in Session  BY DEF Calls, CallTypes
        <4> QED  BY <2>3, <2>4, <2>6, <4>1 DEF at, Session
      <3>2. 1 \in 1 .. Len(program(kind)) /\ 1 \in 1 .. Len(statements)
        BY <1>1, <1>2, <2>8 DEF chained
      <3>3. kind # "execute_in_transaction" => Len(statements) = 1  BY DEF start
      <3> QED  BY <1>1, <2>3, <2>6, <3>1, <3>2, <3>3, SameScenario DEF Held
    <2>10. Joins(c, kind, statements, x)
      BY <1>1, <1>2, <1>4, <2>1, <2>4, <2>6, <2>8 DEF Joins, start, chained
    <2> QED  BY <1>1, <1>2, <2>5, <2>7, <2>9, <2>10, OthersHeld DEF Arrives, Calls
  <1> QED  BY <1>3, <1>4

\* What the words leave is a connection of the same owner.
LEMMA SetType ==
    ASSUME NEW c, at(c) \in Session, NEW w \in Words
    PROVE  set(c, w) \in Session /\ set(c, w).owner = at(c).owner
  BY DEF set, Words, Session, honours

LEMMA OpenedType ==
    ASSUME NEW c, at(c) \in Session
    PROVE  /\ opened(c) \in Session /\ opened(c).owner = at(c).owner
           /\ closed(c) \in Session /\ closed(c).owner = at(c).owner
  BY DEF opened, closed, Session

LEMMA RanType ==
    ASSUME NEW c \in Callers, at(c) \in Session, call[c].at \in Nat
    PROVE  ran(c) \in Session /\ ran(c).owner = at(c).owner
  <1> DEFINE write == {<<c, call[c].at>>}
  <1>1. write \subseteq Callers \X Nat  OBVIOUS
  <1>2. at(c).pending \cup write \in SUBSET (Callers \X Nat)  BY <1>1 DEF Session
  <1> HIDE DEF write
  <1>3. \A p \in SUBSET (Callers \X Nat) : /\ [at(c) EXCEPT !.pending = p] \in Session
                                           /\ [at(c) EXCEPT !.pending = p].owner = at(c).owner
    BY DEF Session
  <1>4. /\ [at(c) EXCEPT !.pending = @ \cup write] \in Session
        /\ [at(c) EXCEPT !.pending = @ \cup write].owner = at(c).owner
    BY <1>2, <1>3
  <1>5. /\ [at(c) EXCEPT !.next_read_only = FALSE] \in Session
        /\ [at(c) EXCEPT !.next_read_only = FALSE].owner = at(c).owner
    BY DEF Session
  <1>6. /\ [at(c) EXCEPT !.txn = "none", !.pending = {}] \in Session
        /\ [at(c) EXCEPT !.txn = "none", !.pending = {}].owner = at(c).owner
    BY DEF Session
  <1>7. ran(c) \in {at(c), [at(c) EXCEPT !.next_read_only = FALSE],
                    [at(c) EXCEPT !.txn = "none", !.pending = {}],
                    [at(c) EXCEPT !.pending = @ \cup write]}
    BY DEF ran, write
  <1> QED  BY <1>4, <1>5, <1>6, <1>7

LEMMA Acting ==
    ASSUME Calls, NEW c \in Callers, runs(c), scenario' = scenario,
           \/ \E w \in Words : setting(c, w)
           \/ timeout_fails(c) \/ begin(c) \/ run(c) \/ run_fails(c)
           \/ commit(c) \/ commit_fails(c) \/ drop(c)
    PROVE  Calls' /\ Acts(c)
  <1>1. at(c) \in Session /\ at(c).owner = c /\ call[c].at \in Nat
    BY DEF Calls, CallTypes, Held, at, Call
  <1>2. \A w : running(c, w) <=> word(c) = w  BY DEF running, word, runs
  <1>3. ASSUME NEW s \in Session, s.owner = c, Does(c, s), word(c) # "run", step(c, s)
        PROVE  Calls' /\ Acts(c)
    <2>1. Calls' /\ Spares(c) /\ (\/ GoesOn(c, s, call[c].error)
                                  \/ Stops(c, s, Outcome(c)) /\ ends(call[c].kind, word(c)))
      BY <1>3, Stepped
    <2>2. Succeeds(c, s)  BY <1>3, <2>1 DEF Succeeds
    <2> QED  BY <2>1, <2>2 DEF Acts
  <1>4. ASSUME NEW w \in Words, setting(c, w) PROVE Calls' /\ Acts(c)
    <2>1. set(c, w) \in Session /\ set(c, w).owner = c  BY <1>1, SetType
    <2>2. step(c, set(c, w)) /\ committed' = committed /\ word(c) = w  BY <1>2, <1>4 DEF setting
    <2>3. Does(c, set(c, w)) /\ w # "run"  BY <2>2 DEF Does, Words
    <2> QED  BY <1>3, <2>1, <2>2, <2>3
  <1>5. ASSUME NEW s \in Session, NEW result \in Ends, over(c, s, result)
        PROVE  Calls' /\ Spares(c) /\ Stops(c, s, result)
    BY <1>5, Ended
  <1>6. ASSUME timeout_fails(c) PROVE Calls' /\ Acts(c)
    <2>1. word(c) = "timeout" /\ over(c, Fresh, "failed") /\ committed' = committed
      BY <1>2, <1>6 DEF timeout_fails
    <2>2. Calls' /\ Spares(c) /\ Stops(c, Fresh, "failed")  BY <1>5, <2>1, FreshType DEF Ends
    <2> QED  BY <2>1, <2>2 DEF Acts, IsCutOff
  <1>7. ASSUME begin(c) PROVE Calls' /\ Acts(c)
    <2>1. word(c) = "begin" /\ committed' = committed  BY <1>2, <1>7 DEF begin
    <2>2. CASE at(c).txn # "none"
      <3>1. over(c, at(c), "failed")  BY <1>7, <2>2 DEF begin
      <3>2. Calls' /\ Spares(c) /\ Stops(c, at(c), "failed")  BY <1>1, <1>5, <3>1 DEF Ends
      <3> QED  BY <2>1, <2>2, <3>2 DEF Acts, CannotBegin
    <2>3. CASE at(c).txn = "none"
      <3>1. step(c, opened(c))  BY <1>7, <2>3 DEF begin, opened
      <3>2. opened(c) \in Session /\ opened(c).owner = c  BY <1>1, OpenedType
      <3>3. Does(c, opened(c))  BY <2>1, <2>3 DEF Does
      <3> QED  BY <1>3, <2>1, <3>1, <3>2, <3>3
    <2> QED  BY <2>2, <2>3
  <1>8. ASSUME NEW error \in Errors, word(c) = "run", fails(c, error),
               error \in {"read_only", "failed"}, error = "read_only" => refused(c)
        PROVE  Calls' /\ Acts(c)
    <2>1. continues(c, error) /\ committed' = committed  BY <1>8 DEF fails
    <2>2. error \in Errors \ {"none"}  BY <1>8
    <2>3. /\ Calls' /\ Spares(c)
          /\ \/ GoesOn(c, at(c), error) /\ call[c].kind = "query_read_only"
             \/ /\ Stops(c, GivenUp(c), error)
                /\ call[c].kind = "query_read_only" => ends(call[c].kind, word(c))
      BY <2>1, <2>2, Continued
    <2> QED  BY <1>8, <2>1, <2>3 DEF Acts, Fails
  <1>9. ASSUME run(c) PROVE Calls' /\ Acts(c)
    <2>1. word(c) = "run"  BY <1>2, <1>9 DEF run
    <2>2. CASE refused(c)
      <3>1. fails(c, "read_only")  BY <1>9, <2>2 DEF run, refused
      <3>2. "read_only" \in Errors  BY DEF Errors
      <3> QED  BY <1>8, <2>1, <2>2, <3>1, <3>2
    <2>3. CASE ~ refused(c)
      <3>1. next(c, ran(c)) /\ committed' = committed \cup commits(c)
        BY <1>9, <2>3 DEF run, refused
      <3>2. ran(c) \in Session /\ ran(c).owner = c  BY <1>1, RanType
      <3>3. /\ Calls' /\ Spares(c)
            /\ \/ GoesDown(c, ran(c))
               \/ /\ call[c].at = Len(call[c].statements)
                  /\ \/ GoesOn(c, ran(c), call[c].error)
                     \/ Stops(c, ran(c), Outcome(c)) /\ ends(call[c].kind, word(c))
        BY <3>1, <3>2, Nexted
      <3>4. Does(c, ran(c))  BY <2>1, <2>3, <3>1 DEF Does
      <3>5. Succeeds(c, ran(c))  BY <2>1, <3>3, <3>4 DEF Succeeds
      <3> QED  BY <3>2, <3>3, <3>5 DEF Acts
    <2> QED  BY <2>2, <2>3
  <1>10. ASSUME run_fails(c) PROVE Calls' /\ Acts(c)
    <2>1. word(c) = "run" /\ fails(c, "failed") /\ "failed" \in Errors
      BY <1>2, <1>10 DEF run_fails, Errors
    <2> QED  BY <1>8, <2>1
  <1>11. ASSUME commit(c) PROVE Calls' /\ Acts(c)
    <2>1. word(c) = "commit" /\ committed' = committed \cup at(c).pending /\ step(c, closed(c))
      BY <1>2, <1>11 DEF commit, closed
    <2>2. closed(c) \in Session /\ closed(c).owner = c  BY <1>1, OpenedType
    <2>3. Does(c, closed(c))  BY <2>1 DEF Does
    <2> QED  BY <1>3, <2>1, <2>2, <2>3
  <1>12. ASSUME commit_fails(c) PROVE Calls' /\ Acts(c)
    <2>1. word(c) = "commit" /\ may("commit") /\ over(c, at(c), "unknown")
      BY <1>2, <1>12 DEF commit_fails
    <2>2. \/ committed' = committed
          \/ engine \notin Shared /\ committed' = committed \cup at(c).pending
      BY <1>12 DEF commit_fails
    <2>3. Calls' /\ Spares(c) /\ Stops(c, at(c), "unknown")  BY <1>1, <1>5, <2>1 DEF Ends
    <2> QED  BY <2>1, <2>2, <2>3 DEF Acts, IsInDoubt
  <1>13. ASSUME drop(c) PROVE Calls' /\ Acts(c)
    <2>1. may("drop") /\ over(c, at(c), "dropped")  BY <1>13 DEF drop
    <2>2. \/ committed' = committed
          \/ word(c) = "run" /\ committed' = committed \cup commits(c)
          \/ word(c) = "commit" /\ committed' = committed \cup at(c).pending
      BY <1>2, <1>13 DEF drop
    <2>3. Calls' /\ Spares(c) /\ Stops(c, at(c), "dropped")  BY <1>1, <1>5, <2>1 DEF Ends
    <2> QED  BY <2>1, <2>2, <2>3 DEF Acts, IsDropped
  <1> QED  BY <1>4, <1>6, <1>7, <1>9, <1>10, <1>11, <1>12, <1>13

LEMMA Moves ==
    ASSUME Calls, CallersAndScripts, TakeTurns, EngineNext
    PROVE  Calls' /\ scenario' = scenario /\ \E c \in Callers : Arrives(c) \/ Acts(c)
  <1>1. PICK c \in Callers :
           \/ \E kind \in Kinds, n \in 1 .. MaxStatements :
                 \E statements \in [1 .. n -> scenario.statements] : start(c, kind, statements)
           \/ \E w \in Words : setting(c, w)
           \/ timeout_fails(c) \/ begin(c) \/ run(c) \/ run_fails(c)
           \/ commit(c) \/ commit_fails(c) \/ drop(c)
    BY DEF EngineNext
  <1>2. CASE \E kind \in Kinds, n \in 1 .. MaxStatements :
                \E statements \in [1 .. n -> scenario.statements] : start(c, kind, statements)
    BY <1>2, Starts
  <1>3. CASE \/ \E w \in Words : setting(c, w)
             \/ timeout_fails(c) \/ begin(c) \/ run(c) \/ run_fails(c)
             \/ commit(c) \/ commit_fails(c) \/ drop(c)
    <2>1. runs(c)
      BY <1>3 DEF setting, timeout_fails, begin, run, run_fails, commit, commit_fails, drop,
         running, runs
    <2>2. scenario' = scenario
      BY <1>3 DEF setting, timeout_fails, begin, run, run_fails, commit, commit_fails, drop
    <2> QED  BY <1>3, <2>1, <2>2, Acting
  <1> QED  BY <1>1, <1>2, <1>3

LEMMA Stutters ==
    ASSUME Calls, UNCHANGED EngineVars
    PROVE  Calls' /\ scenario' = scenario
  <1>1. /\ scenario' = scenario /\ session' = session /\ call' = call  BY DEF EngineVars
  <1>2. CallTypes'  BY <1>1, SameScenario DEF Calls, CallTypes
  <1>3. ASSUME NEW c \in Callers PROVE Held(c)'
    <2>1. at(c)' = at(c) /\ runs(c)' = runs(c)  BY <1>1 DEF at, runs
    <2> QED  BY <1>1, <2>1, SameScenario DEF Calls, Held
  <1> QED  BY <1>1, <1>2, <1>3 DEF Calls

LEMMA CallsInit ==
    ASSUME EngineInit
    PROVE  Calls
  <1>1. scenario \in Scenarios /\ session \in [Sessions -> Session]
    BY FreshType DEF EngineInit
  <1>2. NoCall \in Call /\ NoCall.result = "idle"
    <2>1. <<>> \in Seq(scenario.statements)  BY EmptySeq
    <2> QED  BY <2>1 DEF NoCall, Call, Kinds, Errors
  <1>3. call \in [Callers -> Call] /\ \A c \in Callers : ~ runs(c)
    BY <1>2 DEF EngineInit, runs
  <1> QED  BY <1>1, <1>3 DEF Calls, CallTypes, Held

\* What c does not touch is as it was.
LEMMA OthersSame ==
    ASSUME Calls, NEW c \in Callers, NEW x, SparesBut(c, x), scenario' = scenario,
           NEW d \in Callers \ {c}
    PROVE  /\ call'[d] = call[d] /\ runs(d)' = runs(d) /\ word(d)' = word(d)
           /\ runs(d) => at(d)' = at(d)
  <1>1. call'[d] = call[d]  BY DEF SparesBut
  <1>2. runs(d)' = runs(d) /\ word(d)' = word(d)  BY <1>1, SameScenario DEF runs, word
  <1>3. ASSUME runs(d) PROVE at(d)' = at(d)
    <2>1. call[d].session \in Sessions /\ call[d].session # x
      BY <1>3 DEF Calls, Held, SparesBut
    <2>2. session'[call[d].session] = session[call[d].session]  BY <2>1 DEF SparesBut
    <2> QED  BY <1>1, <2>2 DEF at
  <1> QED  BY <1>1, <1>2, <1>3

\* The word c sends is one of its program.
LEMMA ItsWord ==
    ASSUME Calls, NEW c \in Callers, runs(c)
    PROVE  /\ \/ ends(call[c].kind, word(c))
              \/ more(c) /\ follows(call[c].kind, word(c), program(call[c].kind)[call[c].pc + 1])
           /\ more(c) => follows(call[c].kind, word(c), program(call[c].kind)[call[c].pc + 1])
  <1> DEFINE k == call[c].kind
             p == call[c].pc
  <1>1. k \in Kinds /\ p \in 1 .. Len(program(k))  BY DEF Calls, CallTypes, Held, Call
  <1>2. chained(k, program(k))  BY <1>1, ProgramWords
  <1> QED  BY <1>1, <1>2 DEF chained, more, word

LEMMA RestoreWord ==
    ASSUME Calls, NEW c \in Callers, runs(c)
    PROVE  call[c].kind = "execute_in_transaction" <=> word(c) = "commit" \/
              (word(c) \in {"begin", "run"} /\ call[c].kind = "execute_in_transaction")
  BY ItsWord DEF follows, ends

\* What the fields of a call become.
LEMMA CallAfter ==
    ASSUME Calls, NEW c \in Callers, runs(c), scenario' = scenario
    PROVE  /\ \A s, error : GoesOn(c, s, error) =>
                 /\ runs(c)' /\ call'[c].kind = call[c].kind /\ call'[c].error = error
                 /\ call'[c].statements = call[c].statements /\ call'[c].at = call[c].at
                 /\ call'[c].session = call[c].session /\ at(c)' = s
                 /\ follows(call[c].kind, word(c), word(c)')
           /\ \A s : GoesDown(c, s) =>
                 /\ runs(c)' /\ call'[c].kind = call[c].kind /\ call'[c].error = call[c].error
                 /\ call'[c].statements = call[c].statements /\ call'[c].at = call[c].at + 1
                 /\ call'[c].session = call[c].session /\ at(c)' = s /\ word(c)' = word(c)
           /\ \A s, result : Stops(c, s, result) =>
                 /\ call'[c].result = result /\ call'[c].kind = call[c].kind
                 /\ call'[c].statements = call[c].statements
                 /\ call'[c].session = call[c].session
                 /\ session'[call[c].session] = returned(s)
  <1>1. call[c] \in Call  BY DEF Calls, CallTypes
  <1>2. ASSUME NEW s, NEW error, GoesOn(c, s, error)
        PROVE  /\ runs(c)' /\ call'[c].kind = call[c].kind /\ call'[c].error = error
               /\ call'[c].statements = call[c].statements /\ call'[c].at = call[c].at
               /\ call'[c].session = call[c].session /\ at(c)' = s
               /\ follows(call[c].kind, word(c), word(c)')
    <2>1. /\ call'[c] = [call[c] EXCEPT !.pc = @ + 1, !.error = error]
          /\ session'[call[c].session] = s
          /\ follows(call[c].kind, word(c), program(call[c].kind)[call[c].pc + 1])
      BY <1>2 DEF GoesOn
    <2>2. /\ call'[c].kind = call[c].kind /\ call'[c].pc = call[c].pc + 1
          /\ call'[c].session = call[c].session
      BY <1>1, <2>1 DEF Call
    <2>3. word(c)' = program(call[c].kind)[call[c].pc + 1]  BY <2>2, SameScenario DEF word
    <2>4. at(c)' = s  BY <2>1, <2>2 DEF at
    <2>5. runs(c)'  BY <1>1, <2>1 DEF runs, Call
    <2> QED  BY <1>1, <2>1, <2>2, <2>3, <2>4, <2>5 DEF Call
  <1>3. ASSUME NEW s, GoesDown(c, s)
        PROVE  /\ runs(c)' /\ call'[c].kind = call[c].kind /\ call'[c].error = call[c].error
               /\ call'[c].statements = call[c].statements /\ call'[c].at = call[c].at + 1
               /\ call'[c].session = call[c].session /\ at(c)' = s /\ word(c)' = word(c)
    <2>1. call'[c] = [call[c] EXCEPT !.at = @ + 1] /\ session'[call[c].session] = s
      BY <1>3 DEF GoesDown
    <2>2. /\ call'[c].kind = call[c].kind /\ call'[c].pc = call[c].pc
          /\ call'[c].session = call[c].session
      BY <1>1, <2>1 DEF Call
    <2>3. word(c)' = word(c)  BY <2>2, SameScenario DEF word
    <2>4. at(c)' = s  BY <2>1, <2>2 DEF at
    <2>5. runs(c)'  BY <1>1, <2>1 DEF runs, Call
    <2> QED  BY <1>1, <2>1, <2>2, <2>3, <2>4, <2>5 DEF Call
  <1>4. ASSUME NEW s, NEW result, Stops(c, s, result)
        PROVE  /\ call'[c].result = result /\ call'[c].kind = call[c].kind
               /\ call'[c].statements = call[c].statements
               /\ call'[c].session = call[c].session
               /\ session'[call[c].session] = returned(s)
    BY <1>1, <1>4 DEF Stops, Call
  <1> QED  BY <1>2, <1>3, <1>4
-------------------------------------------------------------------------------
(***************************************************************************)
(* A restore takes effect as a whole or not at all.                        *)
(***************************************************************************)
\* The writes among the first n statements of c.
written(c, n) == {w \in {c} \X (1 .. n) : call[c].statements[w[2]] \in Writes}
none_of(c) == \A i \in Nat : <<c, i>> \notin committed

\* A transaction that is not open holds nothing back.
Tidy(s) == s.txn = "none" => s.pending = {}

\* What a restore has written waits on its connection until it commits.
Waits(c) ==
    runs(c) /\ call[c].kind = "execute_in_transaction" =>
        /\ none_of(c)
        /\ word(c) = "begin" => call[c].at = 1
        /\ word(c) = "run" => at(c).txn # "none" /\ at(c).pending = written(c, call[c].at - 1)
        /\ word(c) = "commit" => at(c).pending = written(c, Len(call[c].statements))

Whole(c) ==
    LET mine == {i \in DOMAIN call[c].statements : call[c].statements[i] \in Writes}
        done == {i \in DOMAIN call[c].statements : <<c, i>> \in committed}
    IN call[c].kind = "execute_in_transaction" =>
          /\ call[c].result = "ok" => done = mine
          /\ call[c].result \in {"unknown", "dropped"} => done \in {{}, mine}
          /\ call[c].result \notin {"ok", "unknown", "dropped"} => done = {}

AllOrNothingInv ==
    /\ \A s \in Sessions : Tidy(session[s])
    /\ \A c \in Callers : (call[c].result = "idle" => none_of(c)) /\ Waits(c) /\ Whole(c)

\* No word but a restart of the transaction leaves one that is not open with something in it.
LEMMA StaysTidy ==
    ASSUME NEW c \in Callers, at(c) \in Session, Tidy(at(c))
    PROVE  /\ \A s \in Session : Does(c, s) => Tidy(s)
           /\ Tidy(at(c)) /\ Tidy(GivenUp(c)) /\ Tidy(Fresh)
           /\ \A s \in Session : Tidy(s) => Tidy(returned(s))
  <1>1. ASSUME NEW s \in Session, Does(c, s) PROVE Tidy(s)
    <2>1. CASE word(c) \in Words /\ s = set(c, word(c))
      BY <2>1 DEF Words, set, Tidy, Session
    <2>2. CASE word(c) = "begin" /\ s = opened(c)  BY <2>2 DEF opened, Tidy, Session
    <2>3. CASE word(c) = "run" /\ s = ran(c)
      <3>1. CASE at(c).txn = "none"
        <4>1. s = [at(c) EXCEPT !.next_read_only = FALSE]  BY <2>3, <3>1 DEF ran
        <4> QED  BY <4>1 DEF Tidy, Session
      <3>2. CASE at(c).txn # "none"
        BY <2>3, <3>2 DEF ran, Tidy, Session
      <3> QED  BY <3>1, <3>2
    <2>4. CASE word(c) = "commit" /\ s = closed(c)  BY <2>4 DEF closed, Tidy, Session
    <2> QED  BY <1>1, <2>1, <2>2, <2>3, <2>4 DEF Does
  <1>2. Tidy(GivenUp(c))  BY DEF GivenUp, Tidy, Session
  <1>3. Tidy(Fresh)  BY DEF Fresh, Tidy
  <1>4. \A s \in Session : Tidy(s) => Tidy(returned(s))  BY DEF returned, Tidy, Session
  <1> QED  BY <1>1, <1>2, <1>3, <1>4

\* Every connection stays so.
LEMMA TidyKept ==
    ASSUME Calls, NEW c \in Callers, Acts(c), scenario' = scenario,
           \A s \in Sessions : Tidy(session[s])
    PROVE  \A s \in Sessions : Tidy(session'[s])
  <1>1. call[c].session \in Sessions /\ at(c) \in Session /\ Tidy(at(c))
    BY DEF Acts, Calls, CallTypes, Held, at
  <1>2. Tidy(session'[call[c].session])
    <2>1. CASE \E s \in Session : Succeeds(c, s)
      <3>1. PICK s \in Session : Succeeds(c, s)  BY <2>1
      <3>2. session'[call[c].session] \in {s, returned(s)}
        BY <3>1 DEF Succeeds, GoesOn, GoesDown, Stops
      <3> QED  BY <1>1, <3>1, <3>2, StaysTidy DEF Succeeds
    <2>2. CASE \E error \in Errors : Fails(c, error)
      <3>1. session'[call[c].session] \in {at(c), returned(GivenUp(c))}
        BY <2>2 DEF Fails, GoesOn, Stops
      <3>2. GivenUp(c) \in Session  BY <1>1 DEF GivenUp, Session
      <3> QED  BY <1>1, <3>1, <3>2, StaysTidy
    <2>3. CASE CannotBegin(c) \/ IsInDoubt(c) \/ IsDropped(c)
      <3>1. session'[call[c].session] = returned(at(c))
        BY <2>3 DEF CannotBegin, IsInDoubt, IsDropped, Stops
      <3> QED  BY <1>1, <3>1, StaysTidy
    <2>4. CASE IsCutOff(c)
      <3>1. session'[call[c].session] = returned(Fresh)  BY <2>4 DEF IsCutOff, Stops
      <3> QED  BY <1>1, <3>1, StaysTidy, FreshType
    <2> QED  BY <2>1, <2>2, <2>3, <2>4 DEF Acts
  <1>3. ASSUME NEW s \in Sessions \ {call[c].session} PROVE Tidy(session'[s])
    BY DEF Acts, Spares, SparesBut
  <1> QED  BY <1>2, <1>3

\* A statement commits its own write and nothing else, and within a transaction nothing.
LEMMA CommitsItsOwn ==
    ASSUME Calls, NoImplicitCommit, NEW c \in Callers, runs(c)
    PROVE  /\ commits(c) \subseteq {<<c, call[c].at>>}
           /\ at(c).txn # "none" => commits(c) = {}
           /\ at(c).txn # "none" /\ statement(c) \in Writes =>
                 ran(c) = [at(c) EXCEPT !.pending = @ \cup {<<c, call[c].at>>}]
           /\ at(c).txn # "none" /\ statement(c) \notin Writes => ran(c) = at(c)
  <1>1. /\ call[c].statements \in Seq(scenario.statements)
        /\ call[c].at \in 1 .. Len(call[c].statements)
    BY DEF Calls, CallTypes, Call, Held
  <1>2. statement(c) \in scenario.statements  BY <1>1, ElementOfSeq DEF statement
  <1>3. ~ (statement(c) = "ddl" /\ engine \in {"mysql", "mariadb"})
    BY <1>2 DEF NoImplicitCommit, engine, Calls, CallTypes
  <1> QED  BY <1>3 DEF commits, ran

\* What takes effect in a step of c is c's.
LEMMA OnlyItsOwn ==
    ASSUME Calls, NoImplicitCommit, NEW c \in Callers, Acts(c), Waits(c),
           NEW d, d # c, NEW i
    PROVE  <<d, i>> \in committed' <=> <<d, i>> \in committed
  <1>1. runs(c)  BY DEF Acts
  <1>2. commits(c) \subseteq {<<c, call[c].at>>}  BY <1>1, CommitsItsOwn
  <1>3. word(c) = "commit" => \A w \in at(c).pending : w[1] = c
    <2>1. word(c) = "commit" => at(c).pending = written(c, Len(call[c].statements))
      BY <1>1, RestoreWord DEF Waits
    <2> QED  BY <2>1 DEF written
  <1>4. \/ committed' = committed
        \/ committed' = committed \cup commits(c)
        \/ word(c) = "commit" /\ committed' = committed \cup at(c).pending
    <2>1. \A s : Succeeds(c, s) => \/ committed' = committed
                                   \/ committed' = committed \cup commits(c)
                                   \/ word(c) = "commit" /\ committed' = committed \cup at(c).pending
      BY DEF Succeeds, Does
    <2>2. \A error : Fails(c, error) => committed' = committed  BY DEF Fails
    <2>3. CannotBegin(c) \/ IsCutOff(c) => committed' = committed  BY DEF CannotBegin, IsCutOff
    <2>4. IsInDoubt(c) \/ IsDropped(c) =>
             \/ committed' = committed
             \/ committed' = committed \cup commits(c)
             \/ word(c) = "commit" /\ committed' = committed \cup at(c).pending
      BY DEF IsInDoubt, IsDropped
    <2> QED  BY <2>1, <2>2, <2>3, <2>4 DEF Acts
  <1> QED  BY <1>2, <1>3, <1>4

\* The two ways in which a restore is whole.
LEMMA NothingDone ==
    ASSUME Calls, NEW c \in Callers, Calls', none_of(c)'
    PROVE  (call'[c].result \notin {"ok"} => Whole(c)')
  <1>1. call'[c].statements \in Seq(scenario'.statements)  BY DEF Calls, CallTypes, Call
  <1>2. \A i \in DOMAIN call'[c].statements : i \in Nat  BY <1>1
  <1> QED  BY <1>2 DEF Whole, none_of

LEMMA AllDone ==
    ASSUME Calls, NEW c \in Callers, Calls', none_of(c),
           call'[c].statements = call[c].statements,
           call'[c].result \in {"ok", "unknown", "dropped"},
           committed' = committed \cup written(c, Len(call[c].statements))
    PROVE  Whole(c)'
  <1> DEFINE p == call[c].statements
  <1>1. call[c].statements \in Seq(scenario.statements)  BY DEF Calls, CallTypes, Call
  <1>2. DOMAIN p = 1 .. Len(p) /\ Len(p) \in Nat  BY <1>1
  <1>3. \A i \in 1 .. Len(p) : <<c, i>> \in committed' <=> p[i] \in Writes
    <2>1. \A i \in 1 .. Len(p) : <<c, i>> \notin committed  BY <1>2 DEF none_of
    <2>2. \A i \in 1 .. Len(p) : <<c, i>> \in written(c, Len(p)) <=> p[i] \in Writes
      BY DEF written
    <2> QED  BY <2>1, <2>2
  <1>4. {i \in DOMAIN call'[c].statements : <<c, i>> \in committed'} =
        {i \in DOMAIN call'[c].statements : call'[c].statements[i] \in Writes}
    BY <1>2, <1>3
  <1> QED  BY <1>4 DEF Whole

\* A step of a restore.
LEMMA RestoreActs ==
    ASSUME Calls, Calls', NoImplicitCommit, NEW c \in Callers, Acts(c), scenario' = scenario,
           Waits(c), Tidy(at(c)), call[c].kind = "execute_in_transaction"
    PROVE  Waits(c)' /\ Whole(c)'
  <1> DEFINE p == call[c].statements
  <1>1. /\ runs(c) /\ call[c].error = "none" /\ at(c) \in Session /\ none_of(c)
        /\ call[c].at \in 1 .. Len(p) /\ Len(p) \in Nat
    BY DEF Acts, Calls, CallTypes, Call, Held, Waits, at
  <1>2. /\ word(c) \in {"begin", "run", "commit"}
        /\ ends(call[c].kind, word(c)) => word(c) = "commit"
        /\ \A w : follows(call[c].kind, word(c), w) =>
                     \/ word(c) = "begin" /\ w = "run"
                     \/ word(c) = "run" /\ w = "commit"
    BY <1>1, RestoreWord DEF follows, ends
  <1>3. word(c) = "run" => commits(c) = {}
    BY <1>1, CommitsItsOwn DEF Waits
  <1>4. ASSUME NEW s, NEW result, Stops(c, s, result), result # "running"
        PROVE  Waits(c)' /\ call'[c].result = result /\ call'[c].statements = p
    <2>1. call'[c].result = result /\ call'[c].statements = p  BY <1>1, <1>4, CallAfter
    <2>2. ~ runs(c)'  BY <1>4, <2>1 DEF runs
    <2> QED  BY <2>1, <2>2 DEF Waits
  <1>5. ASSUME NEW s \in Session, Succeeds(c, s) PROVE Waits(c)' /\ Whole(c)'
    <2>1. CASE word(c) = "begin"
      <3>1. /\ s = opened(c) /\ committed' = committed /\ GoesOn(c, s, call[c].error)
        BY <1>2, <1>5, <2>1 DEF Succeeds, Does, Words
      <3>2. /\ runs(c)' /\ call'[c].statements = p /\ call'[c].at = call[c].at /\ at(c)' = s
            /\ word(c)' = "run" /\ call'[c].kind = call[c].kind
        BY <1>1, <1>2, <2>1, <3>1, CallAfter
      <3>3. s.txn # "none" /\ s.pending = {}
        <4>1. at(c).txn = "none"  BY <1>5, <2>1 DEF Succeeds, Does, Words
        <4> QED  BY <1>1, <3>1, <4>1 DEF opened, Tidy, Session
      <3>4. call[c].at = 1  BY <1>1, <2>1 DEF Waits
      <3>5. written(c, call[c].at - 1)' = {}  BY <3>2, <3>4 DEF written
      <3>6. Waits(c)'  BY <1>1, <3>1, <3>2, <3>3, <3>5 DEF Waits, none_of
      <3>7. Whole(c)'  BY <1>1, <3>2, <3>6, NothingDone DEF runs, Waits, Whole
      <3> QED  BY <3>6, <3>7
    <2>2. CASE word(c) = "run"
      <3>1. s = ran(c) /\ committed' = committed
        <4>1. s = ran(c) /\ committed' = committed \cup commits(c)
          BY <1>5, <2>2 DEF Succeeds, Does, Words
        <4> QED  BY <1>3, <2>2, <4>1
      <3>2. at(c).txn # "none" /\ at(c).pending = written(c, call[c].at - 1)
        BY <1>1, <2>2 DEF Waits
      <3>3. s.txn = at(c).txn /\ s.pending = written(c, call[c].at)
        <4>1. call[c].at - 1 \in Nat /\ call[c].at \in Nat  BY <1>1
        <4>2. \A i \in 1 .. call[c].at : i \in 1 .. (call[c].at - 1) \/ i = call[c].at
          BY <4>1
        <4>3. CASE statement(c) \in Writes
          <5>1. s = [at(c) EXCEPT !.pending = @ \cup {<<c, call[c].at>>}]
            BY <1>1, <3>1, <3>2, <4>3, CommitsItsOwn
          <5>2. written(c, call[c].at) = written(c, call[c].at - 1) \cup {<<c, call[c].at>>}
            BY <1>1, <4>1, <4>2, <4>3 DEF written, statement
          <5> QED  BY <1>1, <3>2, <5>1, <5>2 DEF Session
        <4>4. CASE statement(c) \notin Writes
          <5>1. s = at(c)  BY <1>1, <3>1, <3>2, <4>4, CommitsItsOwn
          <5>2. written(c, call[c].at) = written(c, call[c].at - 1)
            BY <1>1, <4>1, <4>2, <4>4 DEF written, statement
          <5> QED  BY <3>2, <5>1, <5>2
        <4> QED  BY <4>3, <4>4
      <3>4. CASE GoesDown(c, s)
        <4>1. /\ runs(c)' /\ call'[c].statements = p /\ call'[c].at = call[c].at + 1
              /\ at(c)' = s /\ word(c)' = "run" /\ call'[c].kind = call[c].kind
          BY <1>1, <2>2, <3>4, CallAfter
        <4>2. call'[c].at - 1 = call[c].at  BY <1>1, <4>1
        <4>3. written(c, call[c].at - 1)' = written(c, call[c].at)  BY <4>1, <4>2 DEF written
        <4>4. Waits(c)'  BY <1>1, <3>1, <3>2, <3>3, <4>1, <4>3 DEF Waits, none_of
        <4>5. Whole(c)'  BY <1>1, <4>1, <4>4, NothingDone DEF runs, Waits, Whole
        <4> QED  BY <4>4, <4>5
      <3>5. CASE ~ GoesDown(c, s)
        <4>1. GoesOn(c, s, call[c].error) /\ call[c].at = Len(p)
          BY <1>2, <1>5, <2>2, <3>5 DEF Succeeds
        <4>2. /\ runs(c)' /\ call'[c].statements = p /\ call'[c].at = call[c].at
              /\ at(c)' = s /\ word(c)' = "commit" /\ call'[c].kind = call[c].kind
          BY <1>1, <1>2, <2>2, <4>1, CallAfter
        <4>3. written(c, Len(call[c].statements))' = written(c, call[c].at)
          BY <4>1, <4>2 DEF written
        <4>4. Waits(c)'  BY <1>1, <3>1, <3>3, <4>2, <4>3 DEF Waits, none_of
        <4>5. Whole(c)'  BY <1>1, <4>2, <4>4, NothingDone DEF runs, Waits, Whole
        <4> QED  BY <4>4, <4>5
      <3> QED  BY <3>4, <3>5
    <2>3. CASE word(c) = "commit"
      <3>1. committed' = committed \cup at(c).pending  BY <1>5, <2>3 DEF Succeeds, Does, Words
      <3>2. Stops(c, s, Outcome(c)) /\ Outcome(c) = "ok"
        <4>1. ~ GoesOn(c, s, call[c].error)  BY <1>2, <2>3 DEF GoesOn
        <4> QED  BY <1>1, <1>5, <2>3, <4>1 DEF Succeeds, Outcome
      <3>3. at(c).pending = written(c, Len(p))  BY <1>1, <2>3 DEF Waits
      <3> QED  BY <1>1, <1>4, <3>1, <3>2, <3>3, AllDone
    <2> QED  BY <1>2, <2>1, <2>2, <2>3
  <1>6. ASSUME NEW s, NEW result \in Ends \ {"ok"}, Stops(c, s, result), committed' = committed
        PROVE  Waits(c)' /\ Whole(c)'
    <2>1. Waits(c)' /\ call'[c].result = result  BY <1>4, <1>6 DEF Ends
    <2>2. none_of(c)'  BY <1>1, <1>6 DEF none_of
    <2> QED  BY <2>1, <2>2, NothingDone
  <1>7. ASSUME NEW error \in Errors, Fails(c, error) PROVE Waits(c)' /\ Whole(c)'
    BY <1>6, <1>7 DEF Fails, Ends
  <1>8. ASSUME CannotBegin(c) PROVE Waits(c)' /\ Whole(c)'
    BY <1>6, <1>8 DEF CannotBegin, Ends
  <1>9. ASSUME IsCutOff(c) PROVE Waits(c)' /\ Whole(c)'
    BY <1>6, <1>9 DEF IsCutOff, Ends
  <1>10. ASSUME NEW s, NEW result \in {"unknown", "dropped"}, Stops(c, s, result),
                word(c) = "commit", committed' = committed \cup at(c).pending
         PROVE  Waits(c)' /\ Whole(c)'
    <2>1. at(c).pending = written(c, Len(p))  BY <1>1, <1>10 DEF Waits
    <2>2. Waits(c)' /\ call'[c].result = result /\ call'[c].statements = p  BY <1>4, <1>10
    <2> QED  BY <1>1, <1>10, <2>1, <2>2, AllDone
  <1>11. ASSUME IsInDoubt(c) PROVE Waits(c)' /\ Whole(c)'
    BY <1>6, <1>10, <1>11 DEF IsInDoubt, Ends
  <1>12. ASSUME IsDropped(c) PROVE Waits(c)' /\ Whole(c)'
    BY <1>3, <1>6, <1>10, <1>12 DEF IsDropped, Ends
  <1> QED  BY <1>5, <1>7, <1>8, <1>9, <1>11, <1>12 DEF Acts

\* A step of c keeps what the others' restores wait for.
LEMMA OthersWhole ==
    ASSUME Calls, NEW c \in Callers, NEW x, SparesBut(c, x), scenario' = scenario,
           NEW d \in Callers \ {c}, \A i : <<d, i>> \in committed' <=> <<d, i>> \in committed
    PROVE  /\ none_of(d)' <=> none_of(d)
           /\ Waits(d) => Waits(d)'
           /\ Whole(d) => Whole(d)'
  <1>1. /\ call'[d] = call[d] /\ runs(d)' = runs(d) /\ word(d)' = word(d)
        /\ runs(d) => at(d)' = at(d)
    BY OthersSame
  <1>2. none_of(d)' <=> none_of(d)  BY DEF none_of
  <1>3. \A n : written(d, n)' = written(d, n)  BY <1>1 DEF written
  <1>4. Waits(d) => Waits(d)'  BY <1>1, <1>2, <1>3 DEF Waits
  <1>5. Whole(d) => Whole(d)'  BY <1>1 DEF Whole
  <1> QED  BY <1>2, <1>4, <1>5

\* A call keeps its kind, and does not come back.
LEMMA KindStays ==
    ASSUME Calls, NEW c \in Callers, Acts(c), scenario' = scenario
    PROVE  call'[c].kind = call[c].kind /\ call'[c].result # "idle"
  <1>1. runs(c)  BY DEF Acts
  <1>2. ASSUME NEW s \in Session, Succeeds(c, s)
        PROVE  call'[c].kind = call[c].kind /\ call'[c].result # "idle"
    <2>1. Outcome(c) # "idle"  BY DEF Outcome, Calls, CallTypes, Call, Errors
    <2> QED  BY <1>1, <1>2, <2>1, CallAfter DEF Succeeds, runs
  <1>3. ASSUME NEW error \in Errors, Fails(c, error)
        PROVE  call'[c].kind = call[c].kind /\ call'[c].result # "idle"
    BY <1>1, <1>3, CallAfter DEF Fails, runs
  <1>4. ASSUME CannotBegin(c) \/ IsCutOff(c) \/ IsInDoubt(c) \/ IsDropped(c)
        PROVE  call'[c].kind = call[c].kind /\ call'[c].result # "idle"
    BY <1>1, <1>4, CallAfter DEF CannotBegin, IsCutOff, IsInDoubt, IsDropped
  <1> QED  BY <1>2, <1>3, <1>4 DEF Acts

LEMMA AllOrNothingKept ==
    ASSUME Calls, Calls', NoImplicitCommit, AllOrNothingInv, scenario' = scenario,
           NEW c \in Callers, Arrives(c) \/ Acts(c)
    PROVE  AllOrNothingInv'
  <1>1. CASE \E kind \in Kinds : Refused(c, kind)
    <2>1. PICK kind \in Kinds : Refused(c, kind)  BY <1>1
    <2>2. session' = session /\ committed' = committed /\ kind = "query_read_only"
      BY <2>1 DEF Refused
    <2>3. call'[c].kind = kind /\ call'[c].result = "refused"
      BY <2>1 DEF Refused, Calls, CallTypes, Call
    <2>4. Waits(c)' /\ Whole(c)' /\ call'[c].result # "idle"
      BY <2>2, <2>3 DEF Waits, Whole, runs
    <2>5. ASSUME NEW d \in Callers \ {c}
          PROVE  (call'[d].result = "idle" => none_of(d)') /\ Waits(d)' /\ Whole(d)'
      <3>1. call'[d] = call[d]  BY <2>1 DEF Refused
      <3>2. runs(d)' = runs(d) /\ word(d)' = word(d) /\ at(d)' = at(d)
        BY <2>2, <3>1, SameScenario DEF runs, word, at
      <3>3. none_of(d)' <=> none_of(d)  BY <2>2 DEF none_of
      <3>4. \A n : written(d, n)' = written(d, n)  BY <3>1 DEF written
      <3>5. Waits(d)'  BY <3>1, <3>2, <3>3, <3>4 DEF Waits, AllOrNothingInv
      <3>6. Whole(d)'  BY <2>2, <3>1 DEF Whole, AllOrNothingInv
      <3> QED  BY <3>1, <3>3, <3>5, <3>6 DEF AllOrNothingInv
    <2> QED  BY <2>2, <2>4, <2>5, SameScenario DEF AllOrNothingInv
  <1>2. CASE \E kind \in Kinds, statements \in Seq(scenario.statements), x \in Sessions :
                Joins(c, kind, statements, x) /\ SparesBut(c, x)
    <2>1. PICK kind \in Kinds, statements \in Seq(scenario.statements), x \in Sessions :
                  Joins(c, kind, statements, x) /\ SparesBut(c, x)
      BY <1>2
    <2>2. /\ committed' = committed /\ call[c].result = "idle"
          /\ session'[x] = [session[x] EXCEPT !.owner = c]
      BY <2>1 DEF Joins
    <2>3. /\ call'[c].kind = kind /\ call'[c].result = "running" /\ call'[c].at = 1
          /\ call'[c].pc = 1 /\ runs(c)'
      BY <2>1 DEF Joins, NoCall, runs
    <2>4. begins(kind, word(c)')
      BY <2>1, <2>3, SameScenario DEF Joins, word
    <2>5. none_of(c)'  BY <2>2 DEF AllOrNothingInv, none_of
    <2>6. Waits(c)'  BY <2>3, <2>4, <2>5 DEF Waits, begins
    <2>7. Whole(c)'  BY <2>3, <2>5, NothingDone
    <2>8. \A s \in Sessions : Tidy(session'[s])
      <3>1. Tidy(session'[x])  BY <2>2 DEF AllOrNothingInv, Tidy, Calls, CallTypes, Session
      <3>2. \A s \in Sessions \ {x} : session'[s] = session[s]  BY <2>1 DEF SparesBut
      <3> QED  BY <3>1, <3>2 DEF AllOrNothingInv
    <2>9. ASSUME NEW d \in Callers \ {c}
          PROVE  (call'[d].result = "idle" => none_of(d)') /\ Waits(d)' /\ Whole(d)'
      <3>1. call'[d] = call[d]  BY <2>1 DEF SparesBut
      <3> QED  BY <2>1, <2>2, <3>1, OthersWhole DEF AllOrNothingInv
    <2> QED  BY <2>3, <2>6, <2>7, <2>8, <2>9, SameScenario DEF AllOrNothingInv
  <1>3. CASE Acts(c)
    <2>1. Waits(c) /\ Whole(c) /\ runs(c) /\ Spares(c) /\ \A s \in Sessions : Tidy(session[s])
      BY <1>3 DEF AllOrNothingInv, Acts
    <2>2. Tidy(at(c))  BY <2>1 DEF at, Calls, Held
    <2>3. call'[c].kind = call[c].kind /\ call'[c].result # "idle"  BY <1>3, KindStays
    <2>4. Waits(c)' /\ Whole(c)'
      <3>1. CASE call[c].kind = "execute_in_transaction"
        BY <1>3, <2>1, <2>2, <3>1, RestoreActs
      <3>2. CASE call[c].kind # "execute_in_transaction"
        BY <2>3, <3>2 DEF Waits, Whole
      <3> QED  BY <3>1, <3>2
    <2>5. \A s \in Sessions : Tidy(session'[s])  BY <1>3, <2>1, TidyKept
    <2>6. ASSUME NEW d \in Callers \ {c}
          PROVE  (call'[d].result = "idle" => none_of(d)') /\ Waits(d)' /\ Whole(d)'
      <3>1. call'[d] = call[d]  BY <2>1 DEF Spares, SparesBut
      <3>2. \A i : <<d, i>> \in committed' <=> <<d, i>> \in committed
        BY <1>3, <2>1, OnlyItsOwn
      <3> QED  BY <2>1, <3>1, <3>2, OthersWhole DEF AllOrNothingInv, Spares
    <2> QED  BY <2>3, <2>4, <2>5, <2>6, SameScenario DEF AllOrNothingInv
  <1> QED  BY <1>1, <1>2, <1>3 DEF Arrives

\* A restore that reports success has written everything, one that reports a failure
\* nothing, and one whose COMMIT was lost all or nothing, whatever fails and whoever
\* runs beside it (execute_in_transaction of the adapters, has_atomic_restore).  Scripts
\* for MySQL hold no DDL and the callers of a shared connection wait for each other.
THEOREM RestoresAreWhole ==
    ASSUME CallersAndScripts, TakeTurns, NoImplicitCommit
    PROVE  EngineSpec => []AllOrNothing
  <1> DEFINE Inv == Calls /\ AllOrNothingInv
  <1>1. EngineInit => Inv
    <2> SUFFICES ASSUME EngineInit PROVE Inv  OBVIOUS
    <2>1. Calls  BY CallsInit
    <2>2. AllOrNothingInv
      <3>1. \A s \in Sessions : Tidy(session[s])  BY DEF EngineInit, Tidy, Fresh
      <3>2. ASSUME NEW c \in Callers PROVE none_of(c) /\ Waits(c) /\ Whole(c)
        <4>1. call[c] = NoCall /\ committed = {}  BY DEF EngineInit
        <4> QED  BY <4>1 DEF none_of, Waits, Whole, NoCall, runs
      <3> QED  BY <3>1, <3>2 DEF AllOrNothingInv
    <2> QED  BY <2>1, <2>2
  <1>2. Inv /\ [EngineNext]_EngineVars => Inv'
    <2> SUFFICES ASSUME Inv, [EngineNext]_EngineVars PROVE Inv'  OBVIOUS
    <2>1. CASE EngineNext
      <3>1. PICK c \in Callers : Calls' /\ scenario' = scenario /\ (Arrives(c) \/ Acts(c))
        BY <2>1, Moves
      <3> QED  BY <3>1, AllOrNothingKept
    <2>2. CASE UNCHANGED EngineVars
      <3>1. Calls' /\ scenario' = scenario  BY <2>2, Stutters
      <3>2. session' = session /\ call' = call /\ committed' = committed  BY <2>2 DEF EngineVars
      <3>3. ASSUME NEW c \in Callers
            PROVE  /\ none_of(c)' <=> none_of(c)
                   /\ Waits(c) => Waits(c)'
                   /\ Whole(c) => Whole(c)'
        <4>1. runs(c)' = runs(c) /\ word(c)' = word(c) /\ at(c)' = at(c)
          BY <3>1, <3>2, SameScenario DEF runs, word, at
        <4>2. \A n : written(c, n)' = written(c, n)  BY <3>2 DEF written
        <4>3. none_of(c)' <=> none_of(c)  BY <3>2 DEF none_of
        <4>4. Whole(c) => Whole(c)'  BY <3>2 DEF Whole
        <4> QED  BY <3>2, <4>1, <4>2, <4>3, <4>4 DEF Waits
      <3> QED  BY <3>1, <3>2, <3>3, SameScenario DEF AllOrNothingInv
    <2> QED  BY <2>1, <2>2
  <1>3. Inv => AllOrNothing  BY DEF AllOrNothingInv, AllOrNothing, Whole
  <1> QED  BY <1>1, <1>2, <1>3, PTL DEF EngineSpec
-------------------------------------------------------------------------------
(***************************************************************************)
(* A read of an engine that has a read-only mode changes nothing.          *)
(***************************************************************************)
Barred(c) == enforced(engine) /\ call[c].kind = "query_read_only"

\* The write w is of a call that was allowed to make it.
Allowed(w) == w[1] \in Callers /\ call[w[1]].result # "idle" /\ ~ Barred(w[1])

\* The mode is set where the statement of a read is sent.
Guarded(c) ==
    runs(c) /\ Barred(c) =>
        /\ word(c) = "run" => refuses(at(c))
        /\ engine \in {"mysql", "mariadb"} /\ word(c) \in {"timeout", "begin"} =>
              at(c).next_read_only

ReadOnlyInv ==
    /\ \A w \in committed : Allowed(w)
    /\ \A s \in Sessions : \A w \in session[s].pending : Allowed(w)
    /\ \A c \in Callers : Guarded(c)

\* What a step of c may add to the database and to its connection.
leaves(c) == at(c).pending \cup (IF Barred(c) THEN {} ELSE {<<c, call[c].at>>})

LEMMA RanLeaves ==
    ASSUME NEW c \in Callers, at(c) \in Session, word(c) = "run", runs(c), Guarded(c)
    PROVE  /\ ~ refused(c) => ran(c).pending \subseteq leaves(c)
           /\ commits(c) \subseteq leaves(c)
  <1>1. CASE Barred(c)
    <2>1. refuses(at(c))  BY <1>1 DEF Guarded
    <2>2. commits(c) = {}  BY <2>1 DEF commits
    <2>3. ASSUME ~ refused(c) PROVE ran(c).pending = at(c).pending
      <3>1. statement(c) \notin Writes  BY <2>1, <2>3 DEF refused
      <3> QED  BY <3>1 DEF ran, Session
    <2> QED  BY <2>2, <2>3 DEF leaves
  <1>2. CASE ~ Barred(c)
    <2>1. commits(c) \subseteq leaves(c)  BY <1>2 DEF commits, leaves
    <2>2. CASE at(c).txn = "none"
      <3>1. ran(c) = [at(c) EXCEPT !.next_read_only = FALSE]  BY <2>2 DEF ran
      <3>2. ran(c).pending = at(c).pending  BY <3>1 DEF Session
      <3> QED  BY <2>1, <3>2 DEF leaves
    <2>3. CASE at(c).txn # "none"
      <3>1. ran(c).pending \subseteq at(c).pending \cup {<<c, call[c].at>>}
        BY <2>3 DEF ran, Session
      <3> QED  BY <1>2, <2>1, <3>1 DEF leaves
    <2> QED  BY <2>2, <2>3
  <1> QED  BY <1>1, <1>2

LEMMA ActLeaves ==
    ASSUME Calls, NEW c \in Callers, Acts(c), Guarded(c), scenario' = scenario
    PROVE  /\ committed' \subseteq committed \cup leaves(c)
           /\ session'[call[c].session].pending \subseteq leaves(c)
  <1>1. runs(c) /\ at(c) \in Session  BY DEF Acts, Calls, CallTypes, Held, at
  <1>2. \A s \in Session : returned(s).pending \subseteq s.pending  BY DEF returned, Session
  <1>3. at(c).pending \subseteq leaves(c)  BY DEF leaves
  <1>4. ASSUME NEW s \in Session, Succeeds(c, s)
        PROVE  committed' \subseteq committed \cup leaves(c)
                /\ session'[call[c].session].pending \subseteq leaves(c)
    <2>1. s.pending \subseteq leaves(c) /\ committed' \subseteq committed \cup leaves(c)
      <3>1. CASE word(c) \in Words /\ s = set(c, word(c)) /\ committed' = committed
        <4>1. set(c, word(c)).pending \subseteq at(c).pending
          BY <1>1, <3>1 DEF set, Words, Session
        <4> QED  BY <1>3, <3>1, <4>1
      <3>2. CASE word(c) = "begin" /\ s = opened(c) /\ committed' = committed
        BY <1>1, <1>3, <3>2 DEF opened, Session
      <3>3. CASE word(c) = "run" /\ ~ refused(c) /\ s = ran(c)
                   /\ committed' = committed \cup commits(c)
        BY <1>1, <3>3, RanLeaves
      <3>4. CASE word(c) = "commit" /\ s = closed(c) /\ committed' = committed \cup at(c).pending
        BY <1>1, <1>3, <3>4 DEF closed, Session
      <3> QED  BY <1>4, <3>1, <3>2, <3>3, <3>4 DEF Succeeds, Does
    <2>2. session'[call[c].session] \in {s, returned(s)}
      BY <1>4 DEF Succeeds, GoesOn, GoesDown, Stops
    <2> QED  BY <1>2, <2>1, <2>2
  <1>5. ASSUME NEW error \in Errors, Fails(c, error)
        PROVE  committed' \subseteq committed \cup leaves(c)
                /\ session'[call[c].session].pending \subseteq leaves(c)
    <2>1. session'[call[c].session] \in {at(c), returned(GivenUp(c))} /\ committed' = committed
      BY <1>5 DEF Fails, GoesOn, Stops
    <2>2. GivenUp(c) \in Session /\ GivenUp(c).pending \subseteq at(c).pending
      BY <1>1 DEF GivenUp, Session
    <2> QED  BY <1>2, <1>3, <2>1, <2>2
  <1>6. ASSUME CannotBegin(c) \/ IsInDoubt(c) \/ IsDropped(c)
        PROVE  committed' \subseteq committed \cup leaves(c)
                /\ session'[call[c].session].pending \subseteq leaves(c)
    <2>1. session'[call[c].session] = returned(at(c))
      BY <1>6 DEF CannotBegin, IsInDoubt, IsDropped, Stops
    <2>2. \/ committed' = committed
          \/ word(c) = "run" /\ committed' = committed \cup commits(c)
          \/ committed' = committed \cup at(c).pending
      BY <1>6 DEF CannotBegin, IsInDoubt, IsDropped
    <2>3. committed' \subseteq committed \cup leaves(c)
      BY <1>1, <1>3, <2>2, RanLeaves
    <2> QED  BY <1>1, <1>2, <1>3, <2>1, <2>3
  <1>7. ASSUME IsCutOff(c)
        PROVE  committed' \subseteq committed \cup leaves(c)
                /\ session'[call[c].session].pending \subseteq leaves(c)
    <2>1. session'[call[c].session] = returned(Fresh) /\ committed' = committed
      BY <1>7 DEF IsCutOff, Stops
    <2>2. Fresh.pending = {}  BY DEF Fresh
    <2> QED  BY <1>2, <2>1, <2>2, FreshType
  <1> QED  BY <1>4, <1>5, <1>6, <1>7 DEF Acts

\* The mode is on when the program comes to the statement.
LEMMA StaysGuarded ==
    ASSUME Calls, NEW c \in Callers, Acts(c), Guarded(c), scenario' = scenario
    PROVE  Guarded(c)'
  <1>1. runs(c) /\ at(c) \in Session  BY DEF Acts, Calls, CallTypes, Held, at
  <1>2. CASE ~ Barred(c)
    <2>1. ~ Barred(c)'  BY <1>2, KindStays, SameScenario DEF Barred, enforced
    <2> QED  BY <2>1 DEF Guarded
  <1>3. CASE Barred(c) /\ runs(c)'
    <2>1. /\ call[c].kind = "query_read_only"
          /\ engine \in {"postgres", "mysql", "mariadb", "turso"}
          /\ Len(call[c].statements) = 1 /\ call[c].at = 1
      <3>1. engine \in {"postgres", "mysql", "mariadb", "turso"}
        BY <1>3 DEF Barred, enforced, probe_read_only_enforcement, honours, Shared
      <3>2. call[c].kind = "query_read_only"  BY <1>3 DEF Barred
      <3>3. Len(call[c].statements) = 1 /\ call[c].at \in 1 .. Len(call[c].statements)
        BY <1>1, <3>2 DEF Calls, Held
      <3>4. call[c].at = 1  BY <3>3
      <3> QED  BY <3>1, <3>2, <3>3, <3>4
    <2>2. ASSUME NEW s \in Session, NEW error \in Errors, GoesOn(c, s, error),
                 \/ Does(c, s)
                 \/ word(c) = "run"
          PROVE  Guarded(c)'
      <3>1. /\ at(c)' = s /\ follows(call[c].kind, word(c), word(c)')
        BY <1>1, <2>2, CallAfter
      <3>2. CASE engine = "postgres"
        <4>1. word(c)' # "run" \/ (word(c) = "read_only" /\ s = set(c, "read_only"))
          BY <2>1, <2>2, <3>1, <3>2 DEF follows, Does, Words
        <4>2. word(c)' = "run" => refuses(s)  BY <1>1, <4>1 DEF set, refuses, Session
        <4>3. refuses(at(c))' = refuses(s)  BY <3>1 DEF refuses
        <4> QED  BY <3>1, <3>2, <4>2, <4>3, SameScenario DEF Guarded
      <3>3. CASE engine = "turso"
        <4>1. word(c)' # "run" \/ (word(c) = "query_only_on" /\ s = set(c, "query_only_on"))
          BY <2>1, <2>2, <3>1, <3>3 DEF follows, Does, Words
        <4>2. word(c)' = "run" => refuses(s)
          BY <1>1, <3>3, <4>1 DEF set, refuses, Session, honours
        <4>3. refuses(at(c))' = refuses(s)  BY <3>1 DEF refuses
        <4> QED  BY <3>1, <3>3, <4>2, <4>3, SameScenario DEF Guarded
      <3>4. CASE engine \in {"mysql", "mariadb"}
        <4>1. \/ word(c)' \notin {"run", "timeout", "begin"}
              \/ word(c) = "begin" /\ word(c)' = "run" /\ s = opened(c)
              \/ word(c) = "next_read_only" /\ word(c)' = "timeout" /\ s = set(c, "next_read_only")
              \/ word(c) = "timeout" /\ word(c)' = "begin" /\ s = set(c, "timeout")
          BY <2>1, <2>2, <3>1, <3>4 DEF follows, Does, Words
        <4>2. word(c)' = "run" => refuses(s)
          BY <1>1, <1>3, <3>4, <4>1 DEF opened, refuses, Session, Guarded
        <4>3. word(c)' \in {"timeout", "begin"} => s.next_read_only
          BY <1>1, <1>3, <3>4, <4>1 DEF set, Session, Guarded
        <4>4. refuses(at(c))' = refuses(s)  BY <3>1 DEF refuses
        <4> QED  BY <3>1, <3>4, <4>2, <4>3, <4>4, SameScenario DEF Guarded
      <3> QED  BY <2>1, <3>2, <3>3, <3>4
    <2>3. ASSUME NEW s \in Session, Succeeds(c, s) PROVE Guarded(c)'
      <3>1. ~ GoesDown(c, s)  BY <2>1 DEF GoesDown
      <3>2. call[c].error \in Errors /\ Outcome(c) # "running"
        BY DEF Calls, CallTypes, Call, Errors, Outcome
      <3>3. GoesOn(c, s, call[c].error)
        BY <1>1, <1>3, <2>3, <3>1, <3>2, CallAfter DEF Succeeds, runs
      <3> QED  BY <2>2, <2>3, <3>2, <3>3 DEF Succeeds
    <2>4. ASSUME NEW error \in Errors, Fails(c, error) PROVE Guarded(c)'
      <3>1. GoesOn(c, at(c), error) /\ word(c) = "run"
        BY <1>1, <1>3, <2>4, CallAfter DEF Fails, runs
      <3> QED  BY <1>1, <2>2, <3>1
    <2>5. ~ (CannotBegin(c) \/ IsCutOff(c) \/ IsInDoubt(c) \/ IsDropped(c))
      BY <1>1, <1>3, CallAfter DEF CannotBegin, IsCutOff, IsInDoubt, IsDropped, runs
    <2> QED  BY <2>3, <2>4, <2>5 DEF Acts
  <1>4. CASE ~ runs(c)'  BY <1>4 DEF Guarded
  <1> QED  BY <1>2, <1>3, <1>4

LEMMA ReadOnlyKept ==
    ASSUME Calls, ReadOnlyInv, scenario' = scenario, NEW c \in Callers, Arrives(c) \/ Acts(c)
    PROVE  ReadOnlyInv'
  <1>1. enforced(engine)' = enforced(engine)  BY SameScenario DEF enforced
  <1>2. ASSUME NEW d \in Callers \ {c}, call'[d] = call[d]
        PROVE  Barred(d)' = Barred(d)
    BY <1>1, <1>2 DEF Barred
  <1>3. ASSUME NEW x, SparesBut(c, x), NEW d \in Callers \ {c}
        PROVE  Guarded(d)'
    <2>1. /\ call'[d] = call[d] /\ runs(d)' = runs(d) /\ word(d)' = word(d)
          /\ runs(d) => at(d)' = at(d)
      BY <1>3, OthersSame
    <2>2. runs(d) => refuses(at(d))' = refuses(at(d))  BY <2>1 DEF refuses
    <2> QED  BY <1>2, <2>1, <2>2, SameScenario DEF Guarded, ReadOnlyInv
  <1>4. CASE \E kind \in Kinds : Refused(c, kind)
    <2>1. PICK kind \in Kinds : Refused(c, kind)  BY <1>4
    <2>2. /\ session' = session /\ committed' = committed /\ call[c].result = "idle"
          /\ \A d \in Callers \ {c} : call'[d] = call[d]
      BY <2>1 DEF Refused
    <2>3. \A w : Allowed(w) => Allowed(w)'  BY <1>2, <2>2 DEF Allowed
    <2>4. call'[c].result = "refused"  BY <2>1 DEF Refused, Calls, CallTypes, Call
    <2>5. Guarded(c)'  BY <2>4 DEF Guarded, runs
    <2>6. ASSUME NEW d \in Callers \ {c} PROVE Guarded(d)'
      <3>1. runs(d)' = runs(d) /\ word(d)' = word(d) /\ at(d)' = at(d)
        BY <2>2, SameScenario DEF runs, word, at
      <3>2. refuses(at(d))' = refuses(at(d))  BY <3>1 DEF refuses
      <3> QED  BY <1>2, <2>2, <3>1, <3>2, SameScenario DEF Guarded, ReadOnlyInv
    <2> QED  BY <2>2, <2>3, <2>5, <2>6, SameScenario DEF ReadOnlyInv
  <1>5. CASE \E kind \in Kinds, statements \in Seq(scenario.statements), x \in Sessions :
                Joins(c, kind, statements, x) /\ SparesBut(c, x)
    <2>1. PICK kind \in Kinds, statements \in Seq(scenario.statements), x \in Sessions :
                  Joins(c, kind, statements, x) /\ SparesBut(c, x)
      BY <1>5
    <2>2. /\ committed' = committed /\ call[c].result = "idle"
          /\ session'[x] = [session[x] EXCEPT !.owner = c]
          /\ \A s \in Sessions \ {x} : session'[s] = session[s]
          /\ \A d \in Callers \ {c} : call'[d] = call[d]
      BY <2>1 DEF Joins, SparesBut
    <2>3. \A w : Allowed(w) => Allowed(w)'  BY <1>2, <2>2 DEF Allowed
    <2>4. session'[x].pending = session[x].pending
      BY <2>2 DEF Calls, CallTypes, Session
    <2>5. /\ call'[c].kind = kind /\ call'[c].pc = 1 /\ begins(kind, word(c)')
      <3>1. call'[c].kind = kind /\ call'[c].pc = 1  BY <2>1 DEF Joins, NoCall
      <3> QED  BY <2>1, <3>1, SameScenario DEF Joins, word
    <2>6. Guarded(c)'
      <3>1. CASE Barred(c)'
        <4>1. kind = "query_read_only" /\ enforced(engine)
          BY <1>1, <2>5, <3>1 DEF Barred
        <4>2. engine \in {"postgres", "mysql", "mariadb", "turso"}
          BY <4>1 DEF enforced, probe_read_only_enforcement, honours, Shared
        <4>3. word(c)' # "run"
          BY <2>5, <4>1, <4>2 DEF begins, HasReadProgram
        <4>4. engine \in {"mysql", "mariadb"} => word(c)' \notin {"timeout", "begin"}
          BY <2>5, <4>1 DEF begins, HasReadProgram
        <4> QED  BY <4>3, <4>4, SameScenario DEF Guarded
      <3>2. CASE ~ Barred(c)'  BY <3>2 DEF Guarded
      <3> QED  BY <3>1, <3>2
    <2>7. \A s \in Sessions : \A w \in session'[s].pending : Allowed(w)'
      BY <2>2, <2>3, <2>4 DEF ReadOnlyInv
    <2> QED  BY <1>3, <2>1, <2>2, <2>3, <2>6, <2>7, SameScenario DEF ReadOnlyInv
  <1>6. CASE Acts(c)
    <2>1. Guarded(c) /\ runs(c) /\ Spares(c) /\ call[c].session \in Sessions
      BY <1>6 DEF ReadOnlyInv, Acts, Calls, Held
    <2>2. /\ \A d \in Callers \ {c} : call'[d] = call[d]
          /\ \A s \in Sessions \ {call[c].session} : session'[s] = session[s]
      BY <2>1 DEF Spares, SparesBut
    <2>3. call'[c].result # "idle" /\ Barred(c)' = Barred(c)
      BY <1>1, <1>6, KindStays DEF Barred
    <2>4. \A w : Allowed(w) => Allowed(w)'
      <3>1. ASSUME NEW w, Allowed(w), w[1] = c PROVE Allowed(w)'
        BY <2>3, <3>1 DEF Allowed
      <3>2. ASSUME NEW w, Allowed(w), w[1] # c PROVE Allowed(w)'
        BY <1>2, <2>2, <3>2 DEF Allowed
      <3> QED  BY <3>1, <3>2
    <2>5. \A w \in leaves(c) : Allowed(w)'
      <3>1. \A w \in at(c).pending : Allowed(w)  BY <2>1 DEF ReadOnlyInv, at
      <3>2. ~ Barred(c) => Allowed(<<c, call[c].at>>)
        BY <2>1 DEF Allowed, runs
      <3> QED  BY <2>4, <3>1, <3>2 DEF leaves
    <2>6. /\ committed' \subseteq committed \cup leaves(c)
          /\ session'[call[c].session].pending \subseteq leaves(c)
      BY <1>6, <2>1, ActLeaves
    <2>7. \A w \in committed' : Allowed(w)'  BY <2>4, <2>5, <2>6 DEF ReadOnlyInv
    <2>8. \A s \in Sessions : \A w \in session'[s].pending : Allowed(w)'
      BY <2>2, <2>4, <2>5, <2>6 DEF ReadOnlyInv
    <2>9. Guarded(c)'  BY <1>6, <2>1, StaysGuarded
    <2>10. \A d \in Callers \ {c} : Guarded(d)'  BY <1>3, <2>1 DEF Spares
    <2> QED  BY <2>7, <2>8, <2>9, <2>10, SameScenario DEF ReadOnlyInv
  <1> QED  BY <1>4, <1>5, <1>6 DEF Arrives

\* Where the engine has a read-only mode nothing that a read sent ever takes effect,
\* not even a write that the classifier took for a query, not of a read that failed or
\* was dropped, and whatever else runs (run_read_only_txn, TursoAdapter::query_read_only).
THEOREM ReadsChangeNothing ==
    ASSUME CallersAndScripts, TakeTurns
    PROVE  EngineSpec => []ReadOnlyKeepsItsWord
  <1> DEFINE Inv == Calls /\ ReadOnlyInv
  <1>1. EngineInit => Inv
    <2> SUFFICES ASSUME EngineInit PROVE Inv  OBVIOUS
    <2>1. Calls  BY CallsInit
    <2>2. /\ committed = {} /\ \A s \in Sessions : session[s].pending = {}
          /\ \A c \in Callers : ~ runs(c)
      BY DEF EngineInit, Fresh, NoCall, runs
    <2> QED  BY <2>1, <2>2 DEF ReadOnlyInv, Guarded
  <1>2. Inv /\ [EngineNext]_EngineVars => Inv'
    <2> SUFFICES ASSUME Inv, [EngineNext]_EngineVars PROVE Inv'  OBVIOUS
    <2>1. CASE EngineNext
      <3>1. PICK c \in Callers : Calls' /\ scenario' = scenario /\ (Arrives(c) \/ Acts(c))
        BY <2>1, Moves
      <3> QED  BY <3>1, ReadOnlyKept
    <2>2. CASE UNCHANGED EngineVars
      <3>1. Calls' /\ scenario' = scenario  BY <2>2, Stutters
      <3>2. session' = session /\ call' = call /\ committed' = committed  BY <2>2 DEF EngineVars
      <3>3. \A c \in Callers : Barred(c)' = Barred(c)
        BY <3>1, <3>2, SameScenario DEF Barred, enforced
      <3>4. \A w : Allowed(w) => Allowed(w)'  BY <3>2, <3>3 DEF Allowed
      <3>5. ASSUME NEW c \in Callers PROVE Guarded(c)'
        <4>1. /\ runs(c)' = runs(c) /\ word(c)' = word(c)
              /\ at(c)' = at(c) /\ refuses(at(c))' = refuses(at(c))
          BY <3>1, <3>2, SameScenario DEF runs, word, at, refuses
        <4> QED  BY <3>1, <3>3, <4>1, SameScenario DEF Guarded, ReadOnlyInv
      <3> QED  BY <3>1, <3>2, <3>4, <3>5, SameScenario DEF ReadOnlyInv
    <2> QED  BY <2>1, <2>2
  <1>3. Inv => ReadOnlyKeepsItsWord
    BY DEF ReadOnlyInv, ReadOnlyKeepsItsWord, Allowed, Barred
  <1> QED  BY <1>1, <1>2, <1>3, PTL DEF EngineSpec
-------------------------------------------------------------------------------
(***************************************************************************)
(* A mode lasts as long as the read that set it.                           *)
(***************************************************************************)
\* The program of c has no transaction open at this word.
Settled(c) ==
    \/ call[c].kind = "query"
    \/ /\ call[c].kind = "query_read_only"
       /\ engine \notin {"postgres", "aurora-dsql", "mysql", "mariadb"}
    \/ word(c) \notin {"read_only", "run", "rollback", "commit"}

\* What is set on the connection of c is what its program has set and not yet cleared.
Modes(c) ==
    /\ at(c).query_only =>
          /\ call[c].kind = "query_read_only" /\ engine = "turso"
          /\ word(c) \in {"run", "query_only_off"}
    /\ at(c).next_read_only =>
          /\ call[c].kind = "query_read_only" /\ engine \in {"mysql", "mariadb"}
          /\ word(c) \in {"timeout", "begin"}
    /\ at(c).timeout =>
          /\ call[c].kind = "query_read_only" /\ engine = "mariadb"
          /\ word(c) \in {"begin", "run", "rollback", "reset_timeout"}
    /\ Settled(c) => at(c).txn = "none"
    /\ call[c].kind # "query_read_only" => at(c).txn # "read_only"

\* A connection that carries nothing.
Clean(s) ==
    s.txn = "none" /\ s.pending = {} /\ ~ s.query_only /\ ~ s.next_read_only /\ ~ s.timeout

LEMMA CleanIs ==
    ASSUME NEW s \in Session
    PROVE  Clean(s) <=> s = [Fresh EXCEPT !.owner = s.owner]
  <1>1. ASSUME Clean(s) PROVE s = [Fresh EXCEPT !.owner = s.owner]
    <2>1. s.query_only = FALSE /\ s.next_read_only = FALSE /\ s.timeout = FALSE
      BY <1>1 DEF Clean, Session
    <2> DEFINE f == [Fresh EXCEPT !.owner = s.owner]
    <2>2. f \in Session /\ f.owner = s.owner
      <3>1. s.owner \in Callers \cup {"nobody"} /\ Fresh \in Session  BY FreshType DEF Session
      <3> QED  BY <3>1 DEF Session
    <2>3. /\ f.txn = "none" /\ f.pending = {} /\ f.query_only = FALSE
          /\ f.next_read_only = FALSE /\ f.timeout = FALSE
      BY DEF Fresh
    <2> HIDE DEF f
    <2>4. s = f  BY <1>1, <2>1, <2>2, <2>3 DEF Clean, Session
    <2> QED  BY <2>4 DEF f
  <1>2. ASSUME s = [Fresh EXCEPT !.owner = s.owner] PROVE Clean(s)
    <2> DEFINE o == s.owner
    <2>1. s = [Fresh EXCEPT !.owner = o]  BY <1>2
    <2> HIDE DEF o
    <2> QED  BY <2>1 DEF Clean, Fresh
  <1> QED  BY <1>1, <1>2

LEMMA ReturnedClean ==
    ASSUME NEW s \in Session,
           Clean(s) \/ (/\ engine \notin Shared
                        /\ ~ s.query_only /\ ~ s.next_read_only /\ ~ s.timeout)
    PROVE  Clean(returned(s))
  BY DEF Clean, returned, Session

\* A statement of the caller's changes no mode but what MySQL keeps for the next one.
LEMMA RanModes ==
    ASSUME NEW c \in Callers, at(c) \in Session
    PROVE  /\ ran(c).query_only = at(c).query_only /\ ran(c).timeout = at(c).timeout
           /\ ran(c).next_read_only => at(c).next_read_only
           /\ ran(c).txn \in {at(c).txn, "none"}
           /\ at(c).txn = "none" => ran(c).pending = at(c).pending
  <1>1. CASE at(c).txn = "none"
    <2>1. ran(c) = [at(c) EXCEPT !.next_read_only = FALSE]  BY <1>1 DEF ran
    <2> QED  BY <2>1 DEF Session
  <1>2. CASE at(c).txn # "none"  BY <1>2 DEF ran, Session
  <1> QED  BY <1>1, <1>2

\* A program starts on a connection that carries nothing.
LEMMA StartsClean ==
    ASSUME NEW c \in Callers, begins(call[c].kind, word(c)), Clean(at(c))
    PROVE  Modes(c)
  BY DEF Modes, Clean

\* What the words of a program make of the modes.
LEMMA DoesModes ==
    ASSUME Calls, NEW c \in Callers, runs(c), Modes(c), Tidy(at(c)),
           NEW s \in Session, Succeeds(c, s), scenario' = scenario
    PROVE  (runs(c)' => Modes(c)') /\ (~ runs(c)' => Clean(s))
  <1> DEFINE k == call[c].kind
  <1>1. /\ at(c) \in Session /\ k \in Kinds /\ call[c].at \in 1 .. Len(call[c].statements)
        /\ k # "execute_in_transaction" => Len(call[c].statements) = 1
    BY DEF Calls, CallTypes, Call, Held, at
  <1>2. /\ word(c) = "run" => s = ran(c)
        /\ word(c) = "begin" => s = opened(c) /\ at(c).txn = "none"
        /\ word(c) = "commit" => s = closed(c)
        /\ word(c) \in Words => s = set(c, word(c))
    BY DEF Succeeds, Does, Words
  <1>3. GoesOn(c, s, call[c].error) => /\ runs(c)' /\ call'[c].kind = k /\ at(c)' = s
                                       /\ follows(k, word(c), word(c)')
    BY CallAfter
  <1>4. GoesDown(c, s) => /\ runs(c)' /\ call'[c].kind = k /\ at(c)' = s /\ word(c)' = word(c)
    BY CallAfter
  <1>5. \A result : Stops(c, s, result) => call'[c].result = result
    BY CallAfter
  <1>6. Outcome(c) # "running"  BY DEF Outcome, Calls, CallTypes, Call, Errors
  <1>7. CASE k = "query"
    <2>1. word(c) = "run" /\ ~ more(c)  BY <1>7, ItsWord DEF ends, follows
    <2>2. ~ GoesOn(c, s, call[c].error)  BY <2>1 DEF GoesOn
    <2>3. ~ GoesDown(c, s)
      <3>1. Len(call[c].statements) = 1 /\ call[c].at \in 1 .. Len(call[c].statements)
        BY <1>1, <1>7
      <3>2. ~ (call[c].at < Len(call[c].statements))  BY <3>1
      <3> QED  BY <3>2 DEF GoesDown
    <2>4. ~ runs(c)'  BY <1>5, <1>6, <2>2, <2>3 DEF Succeeds, runs
    <2>5. at(c).txn = "none"  BY <1>7 DEF Modes, Settled
    <2>6. Clean(ran(c))  BY <1>1, <1>7, <2>5, RanModes DEF Modes, Clean, Tidy
    <2> QED  BY <1>2, <2>1, <2>4, <2>6
  <1>8. CASE k = "execute_in_transaction"
    <2>1. word(c) \in {"begin", "run", "commit"}  BY <1>8, ItsWord DEF ends, follows
    <2>2. ~ at(c).query_only /\ ~ at(c).next_read_only /\ ~ at(c).timeout
          /\ at(c).txn # "read_only"
      BY <1>8 DEF Modes
    <2>3. CASE word(c) = "begin"
      <3>1. GoesOn(c, s, call[c].error)
        BY <1>8, <2>3 DEF Succeeds, ends
      <3>2. ~ s.query_only /\ ~ s.next_read_only /\ ~ s.timeout /\ s.txn = "open"
        BY <1>1, <1>2, <2>2, <2>3 DEF opened, Session
      <3>3. word(c)' = "run" /\ runs(c)' /\ call'[c].kind = k /\ at(c)' = s
        BY <1>3, <1>8, <2>3, <3>1 DEF follows
      <3> QED  BY <1>8, <3>2, <3>3, SameScenario DEF Modes, Settled
    <2>4. CASE word(c) = "run"
      <3>1. ~ s.query_only /\ ~ s.next_read_only /\ ~ s.timeout /\ s.txn # "read_only"
        BY <1>1, <1>2, <2>2, <2>4, RanModes
      <3>2. GoesDown(c, s) \/ GoesOn(c, s, call[c].error)  BY <1>8, <2>4 DEF Succeeds, ends
      <3>3. word(c)' \in {"run", "commit"} /\ runs(c)' /\ call'[c].kind = k /\ at(c)' = s
        BY <1>3, <1>4, <1>8, <2>4, <3>2 DEF follows
      <3> QED  BY <1>8, <3>1, <3>3, SameScenario DEF Modes, Settled
    <2>5. CASE word(c) = "commit"
      <3>1. ~ GoesOn(c, s, call[c].error)  BY <1>3, <1>8, <2>5 DEF follows
      <3>2. ~ runs(c)'  BY <1>5, <1>6, <2>5, <3>1 DEF Succeeds, runs
      <3>3. Clean(closed(c))  BY <1>1, <2>2 DEF closed, Clean, Session
      <3> QED  BY <1>2, <2>5, <3>2, <3>3
    <2> QED  BY <2>1, <2>3, <2>4, <2>5
  <1>9. CASE k = "query_read_only"
    <2>1. ~ GoesDown(c, s)
      <3>1. Len(call[c].statements) = 1 /\ call[c].at \in 1 .. Len(call[c].statements)
        BY <1>1, <1>9
      <3>2. ~ (call[c].at < Len(call[c].statements))  BY <3>1
      <3> QED  BY <3>2 DEF GoesDown
    <2>2. CASE GoesOn(c, s, call[c].error)
      <3>1. runs(c)' /\ call'[c].kind = k /\ at(c)' = s /\ follows(k, word(c), word(c)')
        BY <1>3, <2>2
      <3>2. word(c) = "run" =>
               /\ s.query_only => at(c).query_only
               /\ s.next_read_only => at(c).next_read_only
               /\ s.timeout => at(c).timeout
               /\ at(c).txn = "none" => s.txn = "none"
        BY <1>1, <1>2, RanModes
      <3>3. CASE engine \in {"postgres", "aurora-dsql"}
        <4>1. \/ word(c) = "begin" /\ word(c)' \in {"read_only", "run"} /\ s = opened(c)
              \/ word(c) = "read_only" /\ word(c)' = "run" /\ s = set(c, "read_only")
              \/ word(c) = "run" /\ word(c)' = "rollback"
          BY <1>2, <1>9, <3>1, <3>3 DEF follows, Words
        <4>2. ~ s.query_only /\ ~ s.next_read_only /\ ~ s.timeout
          BY <1>1, <3>2, <3>3, <4>1 DEF Modes, opened, set, Session
        <4>3. ~ Settled(c)'
          BY <1>9, <3>1, <3>3, <4>1, SameScenario DEF Settled
        <4> QED  BY <1>9, <3>1, <4>2, <4>3 DEF Modes
      <3>4. CASE engine \in {"mysql", "mariadb"}
        <4>1. \/ word(c) = "next_read_only" /\ word(c)' = "timeout" /\ s = set(c, "next_read_only")
              \/ word(c) = "timeout" /\ word(c)' = "begin" /\ s = set(c, "timeout")
              \/ word(c) = "begin" /\ word(c)' = "run" /\ s = opened(c)
              \/ word(c) = "run" /\ word(c)' = "rollback"
              \/ /\ engine = "mariadb" /\ word(c) = "rollback" /\ word(c)' = "reset_timeout"
                 /\ s = set(c, "rollback")
          BY <1>2, <1>9, <3>1, <3>4 DEF follows, Words
        <4>2. ~ s.query_only
          BY <1>1, <3>2, <3>4, <4>1 DEF Modes, opened, set, Session
        <4>3. s.next_read_only => word(c)' \in {"timeout", "begin"}
          BY <1>1, <3>2, <3>4, <4>1 DEF Modes, opened, set, Session
        <4>4. s.timeout => /\ engine = "mariadb"
                           /\ word(c)' \in {"begin", "run", "rollback", "reset_timeout"}
          BY <1>1, <3>2, <3>4, <4>1 DEF Modes, opened, set, Session
        <4>5. word(c)' \in {"timeout", "begin", "reset_timeout"} => s.txn = "none"
          BY <1>1, <4>1 DEF Modes, Settled, set, Session
        <4>6. Settled(c)' => word(c)' \in {"timeout", "begin", "reset_timeout"}
          BY <1>9, <3>1, <3>4, <4>1, SameScenario DEF Settled
        <4> QED  BY <1>9, <3>1, <3>4, <4>2, <4>3, <4>4, <4>5, <4>6, SameScenario DEF Modes
      <3>5. CASE engine = "turso"
        <4>1. \/ word(c) = "query_only_on" /\ word(c)' = "run" /\ s = set(c, "query_only_on")
              \/ word(c) = "run" /\ word(c)' = "query_only_off"
          BY <1>2, <1>9, <3>1, <3>5 DEF follows, Words
        <4>2. at(c).txn = "none"  BY <1>9, <3>5 DEF Modes, Settled
        <4>3. s.txn = "none" /\ ~ s.next_read_only /\ ~ s.timeout
          BY <1>1, <3>2, <3>5, <4>1, <4>2 DEF Modes, set, Session
        <4> QED  BY <1>9, <3>1, <3>5, <4>1, <4>3, SameScenario DEF Modes
      <3> QED  BY <1>9, <3>1, <3>3, <3>4, <3>5 DEF follows
    <2>3. CASE Stops(c, s, Outcome(c)) /\ ends(k, word(c))
      <3>1. ~ runs(c)'  BY <1>5, <1>6, <2>3 DEF runs
      <3>2. CASE word(c) = "rollback"
        <4>1. engine \in {"postgres", "aurora-dsql", "mysql"}
          BY <1>9, <2>3, <3>2 DEF ends
        <4>2. s = [at(c) EXCEPT !.txn = "none", !.pending = {}]
          BY <1>2, <3>2 DEF set, Words
        <4> QED  BY <1>1, <3>1, <3>2, <4>1, <4>2 DEF Modes, Clean, Session
      <3>3. CASE word(c) = "reset_timeout"
        <4>1. s = [at(c) EXCEPT !.timeout = FALSE]  BY <1>2, <3>3 DEF set, Words
        <4>2. at(c).txn = "none" /\ at(c).pending = {}  BY <3>3 DEF Modes, Settled, Tidy
        <4> QED  BY <1>1, <3>1, <3>3, <4>1, <4>2 DEF Modes, Clean, Session
      <3>4. CASE word(c) = "query_only_off"
        <4>1. s = [at(c) EXCEPT !.query_only = FALSE]  BY <1>2, <3>4 DEF set, Words
        <4>2. at(c).txn = "none" /\ at(c).pending = {}  BY <3>4 DEF Modes, Settled, Tidy
        <4>3. engine = "turso"  BY <1>9, <2>3, <3>4 DEF ends
        <4> QED  BY <1>1, <3>1, <4>1, <4>2, <4>3 DEF Modes, Clean, Session
      <3>5. CASE word(c) = "run"
        <4>1. ~ HasReadProgram(engine)  BY <1>9, <2>3, <3>5 DEF ends
        <4>2. at(c).txn = "none" /\ at(c).pending = {}
          BY <1>9, <4>1 DEF Modes, Settled, Tidy, HasReadProgram
        <4>3. ~ at(c).query_only /\ ~ at(c).next_read_only /\ ~ at(c).timeout
          BY <4>1 DEF Modes, HasReadProgram
        <4>4. Clean(ran(c))  BY <1>1, <4>2, <4>3, RanModes DEF Clean
        <4> QED  BY <1>2, <3>1, <3>5, <4>4
      <3> QED  BY <1>9, <2>3, <3>2, <3>3, <3>4, <3>5 DEF ends
    <2> QED  BY <2>1, <2>2, <2>3 DEF Succeeds
  <1> QED  BY <1>1, <1>7, <1>8, <1>9 DEF Kinds

\* A step that ends its call leaves its connection with nothing on it.
LEMMA ActModes ==
    ASSUME Calls, ModesAreTakenBack, NEW c \in Callers, Acts(c), Modes(c), Tidy(at(c)),
           scenario' = scenario
    PROVE  (runs(c)' => Modes(c)') /\ (~ runs(c)' => Clean(session'[call[c].session]))
  <1>1. runs(c) /\ at(c) \in Session /\ call[c].kind \in Kinds
    BY DEF Acts, Calls, CallTypes, Call, Held, at
  <1>2. ASSUME NEW s, NEW result, Stops(c, s, result), result # "running"
        PROVE  ~ runs(c)' /\ session'[call[c].session] = returned(s)
    BY <1>1, <1>2, CallAfter DEF runs
  <1>3. ASSUME NEW s \in Session, Succeeds(c, s)
        PROVE  (runs(c)' => Modes(c)') /\ (~ runs(c)' => Clean(session'[call[c].session]))
    <2>1. (runs(c)' => Modes(c)') /\ (~ runs(c)' => Clean(s))  BY <1>1, <1>3, DoesModes
    <2>2. ~ runs(c)' => session'[call[c].session] = returned(s)
      BY <1>1, <1>3, CallAfter DEF Succeeds
    <2> QED  BY <2>1, <2>2, ReturnedClean
  <1>4. ASSUME NEW error \in Errors, Fails(c, error)
        PROVE  (runs(c)' => Modes(c)') /\ (~ runs(c)' => Clean(session'[call[c].session]))
    <2>1. word(c) = "run" /\ error # "running"  BY <1>4 DEF Fails
    <2>2. CASE GoesOn(c, at(c), error) /\ call[c].kind = "query_read_only"
      <3>1. /\ runs(c)' /\ call'[c].kind = call[c].kind /\ at(c)' = at(c)
            /\ follows(call[c].kind, word(c), word(c)')
        BY <1>1, <2>2, CallAfter
      <3>2. \/ engine \in {"postgres", "aurora-dsql", "mysql", "mariadb"} /\ word(c)' = "rollback"
            \/ engine = "turso" /\ word(c)' = "query_only_off"
        BY <2>1, <2>2, <3>1 DEF follows
      <3>3. Settled(c)' => Settled(c)
        BY <2>2, <3>1, <3>2, SameScenario DEF Settled
      <3>4. Modes(c)'
        BY <2>1, <2>2, <3>1, <3>2, <3>3, SameScenario DEF Modes
      <3> QED  BY <3>1, <3>4
    <2>3. CASE /\ Stops(c, GivenUp(c), error)
               /\ call[c].kind = "query_read_only" => ends(call[c].kind, word(c))
      <3>1. ~ runs(c)' /\ session'[call[c].session] = returned(GivenUp(c))  BY <1>2, <2>1, <2>3
      <3>2. GivenUp(c) \in Session  BY <1>1 DEF GivenUp, Session
      <3>3. Clean(GivenUp(c))
        <4>1. CASE call[c].kind = "execute_in_transaction"
          BY <1>1, <4>1 DEF GivenUp, Modes, Clean, Session
        <4>2. CASE call[c].kind = "query"
          BY <1>1, <4>2 DEF GivenUp, Modes, Settled, Tidy, Clean
        <4>3. CASE call[c].kind = "query_read_only"
          <5>1. ~ HasReadProgram(engine)  BY <2>1, <2>3, <4>3 DEF ends
          <5> QED  BY <1>1, <4>3, <5>1 DEF GivenUp, Modes, Settled, Tidy, Clean, HasReadProgram
        <4> QED  BY <1>1, <4>1, <4>2, <4>3 DEF Kinds
      <3> QED  BY <3>1, <3>2, <3>3, ReturnedClean
    <2> QED  BY <1>4, <2>2, <2>3 DEF Fails
  <1>5. ASSUME CannotBegin(c) PROVE FALSE
    BY <1>5 DEF CannotBegin, Modes, Settled
  <1>6. ASSUME IsCutOff(c)
        PROVE  ~ runs(c)' /\ Clean(session'[call[c].session])
    <2>1. ~ runs(c)' /\ session'[call[c].session] = returned(Fresh)  BY <1>2, <1>6 DEF IsCutOff
    <2>2. Clean(Fresh)  BY DEF Clean, Fresh
    <2> QED  BY <2>1, <2>2, FreshType, ReturnedClean
  <1>7. ASSUME IsInDoubt(c) \/ IsDropped(c)
        PROVE  ~ runs(c)' /\ Clean(session'[call[c].session])
    <2>1. ~ runs(c)' /\ session'[call[c].session] = returned(at(c))
      BY <1>2, <1>7 DEF IsInDoubt, IsDropped
    <2>2. scenario \in Scenarios  BY DEF Calls, CallTypes
    <2>3. engine \notin Shared /\ ~ at(c).query_only /\ ~ at(c).next_read_only /\ ~ at(c).timeout
      <3>1. CASE IsInDoubt(c)
        <4>1. engine \notin Shared
          BY <2>2, <3>1 DEF IsInDoubt, may, ModesAreTakenBack, engine
        <4>2. call[c].kind = "execute_in_transaction"
          BY <1>1, <3>1, RestoreWord DEF IsInDoubt
        <4> QED  BY <4>1, <4>2 DEF Modes
      <3>2. CASE IsDropped(c)
        <4>1. engine \notin Shared \cup {"mysql", "mariadb"}
          BY <2>2, <3>2 DEF IsDropped, may, ModesAreTakenBack, engine
        <4> QED  BY <4>1 DEF Modes, Shared
      <3> QED  BY <1>7, <3>1, <3>2
    <2> QED  BY <1>1, <2>1, <2>3, ReturnedClean
  <1> QED  BY <1>3, <1>4, <1>5, <1>6, <1>7 DEF Acts

\* What an ordinary call was told, and what was done.
Stands(c) ==
    /\ call[c].kind # "query_read_only" => call[c].result # "read_only"
    /\ call[c].kind = "query" /\ call[c].result = "ok" /\ call[c].statements[1] \in Writes =>
          <<c, 1>> \in committed

CleanInv ==
    /\ \A s \in Sessions : Tidy(session[s])
    /\ \A c \in Callers : (runs(c) => Modes(c)) /\ Stands(c)
    /\ \A s \in Sessions : (\A c \in Callers : runs(c) => call[c].session # s) => Clean(session[s])

\* What took effect stays.
LEMMA NothingIsUndone ==
    ASSUME NEW c \in Callers, Acts(c)
    PROVE  committed \subseteq committed'
  <1>1. \A s : Succeeds(c, s) => committed \subseteq committed'  BY DEF Succeeds, Does
  <1>2. \A error : Fails(c, error) => committed \subseteq committed'  BY DEF Fails
  <1>3. CannotBegin(c) \/ IsCutOff(c) \/ IsInDoubt(c) \/ IsDropped(c) =>
           committed \subseteq committed'
    BY DEF CannotBegin, IsCutOff, IsInDoubt, IsDropped
  <1> QED  BY <1>1, <1>2, <1>3 DEF Acts

\* No mode of a read stands in the way of an ordinary call.
LEMMA StandsKept ==
    ASSUME Calls, NEW c \in Callers, Acts(c), Modes(c), scenario' = scenario
    PROVE  Stands(c)'
  <1>1. /\ runs(c) /\ call[c].kind \in Kinds /\ call[c].error \in Errors
        /\ call[c].kind # "query_read_only" => call[c].error = "none"
    BY DEF Acts, Calls, CallTypes, Call, Held
  <1>2. ASSUME call[c].kind # "query_read_only" PROVE ~ refuses(at(c))
    BY <1>1, <1>2 DEF Modes, refuses
  <1>3. call'[c].kind = call[c].kind  BY KindStays
  <1>4. ASSUME NEW s \in Session, Succeeds(c, s) PROVE Stands(c)'
    <2>1. CASE runs(c)'  BY <2>1 DEF Stands, runs
    <2>2. CASE ~ runs(c)'
      <3>1. /\ Stops(c, s, Outcome(c)) /\ ends(call[c].kind, word(c))
            /\ word(c) = "run" => call[c].at = Len(call[c].statements)
        BY <1>1, <1>4, <2>2, CallAfter DEF Succeeds
      <3>2. call'[c].result = Outcome(c) /\ call'[c].statements = call[c].statements
        BY <1>1, <3>1, CallAfter
      <3>3. call[c].kind # "query_read_only" => call'[c].result = "ok"
        BY <1>1, <3>2 DEF Outcome
      <3>4. ASSUME call[c].kind = "query", call[c].statements[1] \in Writes
            PROVE  <<c, 1>> \in committed'
        <4>1. word(c) = "run" /\ call[c].at = 1
          <5>1. word(c) = "run"  BY <3>1, <3>4 DEF ends
          <5>2. Len(call[c].statements) = 1  BY <1>1, <3>4 DEF Calls, Held
          <5> QED  BY <3>1, <5>1, <5>2
        <4>2. committed' = committed \cup commits(c)  BY <1>4, <4>1 DEF Succeeds, Does, Words
        <4>3. at(c).txn = "none"  BY <3>4 DEF Modes, Settled
        <4>4. commits(c) = {<<c, 1>>}
          BY <1>2, <3>4, <4>1, <4>3 DEF commits, statement
        <4> QED  BY <4>2, <4>4
      <3> QED  BY <1>3, <3>2, <3>3, <3>4 DEF Stands
    <2> QED  BY <2>1, <2>2
  <1>5. ASSUME NEW error \in Errors, Fails(c, error) PROVE Stands(c)'
    <2>1. error # "read_only" \/ call[c].kind = "query_read_only"
      BY <1>2, <1>5 DEF Fails, refused
    <2>2. call'[c].result = error \/ runs(c)'
      BY <1>1, <1>5, CallAfter DEF Fails
    <2>3. error # "ok"  BY DEF Errors
    <2> QED  BY <1>3, <2>1, <2>2, <2>3 DEF Stands, runs
  <1>6. ASSUME CannotBegin(c) \/ IsCutOff(c) \/ IsInDoubt(c) \/ IsDropped(c) PROVE Stands(c)'
    <2>1. call'[c].result \in {"failed", "unknown", "dropped"}
      BY <1>1, <1>6, CallAfter DEF CannotBegin, IsCutOff, IsInDoubt, IsDropped
    <2> QED  BY <2>1 DEF Stands
  <1> QED  BY <1>4, <1>5, <1>6 DEF Acts

LEMMA CleanKept ==
    ASSUME Calls, Calls', ModesAreTakenBack, CleanInv, scenario' = scenario,
           NEW c \in Callers, Arrives(c) \/ Acts(c)
    PROVE  CleanInv'
  <1>1. ASSUME NEW x, SparesBut(c, x), NEW d \in Callers \ {c}, committed \subseteq committed'
        PROVE  (runs(d)' => Modes(d)') /\ Stands(d)'
    <2>1. /\ call'[d] = call[d] /\ runs(d)' = runs(d) /\ word(d)' = word(d)
          /\ runs(d) => at(d)' = at(d)
      BY <1>1, OthersSame
    <2>2. Settled(d)' = Settled(d)  BY <2>1, SameScenario DEF Settled
    <2>3. runs(d)' => Modes(d)'  BY <2>1, <2>2, SameScenario DEF Modes, CleanInv
    <2>4. Stands(d)'  BY <1>1, <2>1 DEF Stands, CleanInv
    <2> QED  BY <2>3, <2>4
  <1>2. CASE \E kind \in Kinds : Refused(c, kind)
    <2>1. PICK kind \in Kinds : Refused(c, kind)  BY <1>2
    <2>2. /\ session' = session /\ committed' = committed /\ call[c].result = "idle"
          /\ \A d \in Callers \ {c} : call'[d] = call[d]
      BY <2>1 DEF Refused
    <2>3. call'[c].result = "refused"  BY <2>1 DEF Refused, Calls, CallTypes, Call
    <2>4. ~ runs(c)' /\ ~ runs(c) /\ Stands(c)'  BY <2>2, <2>3 DEF Stands, runs
    <2>5. ASSUME NEW d \in Callers \ {c}
          PROVE  (runs(d)' => Modes(d)') /\ Stands(d)' /\ runs(d)' = runs(d)
      <3>1. call'[d] = call[d] /\ runs(d)' = runs(d) /\ word(d)' = word(d) /\ at(d)' = at(d)
        BY <2>2, SameScenario DEF runs, word, at
      <3>2. Settled(d)' = Settled(d)  BY <3>1, SameScenario DEF Settled
      <3>3. runs(d)' => Modes(d)'  BY <3>1, <3>2, SameScenario DEF Modes, CleanInv
      <3> QED  BY <2>2, <3>1, <3>3 DEF Stands, CleanInv
    <2>6. ASSUME NEW s \in Sessions, \A d \in Callers : runs(d)' => call'[d].session # s
          PROVE  Clean(session'[s])
      <3>1. \A d \in Callers : runs(d) => call[d].session # s
        BY <2>2, <2>4, <2>5, <2>6
      <3> QED  BY <2>2, <3>1 DEF CleanInv
    <2> QED  BY <2>2, <2>4, <2>5, <2>6, SameScenario DEF CleanInv
  <1>3. CASE \E kind \in Kinds, statements \in Seq(scenario.statements), x \in Sessions :
                Joins(c, kind, statements, x) /\ SparesBut(c, x)
    <2>1. PICK kind \in Kinds, statements \in Seq(scenario.statements), x \in Sessions :
                  Joins(c, kind, statements, x) /\ SparesBut(c, x)
      BY <1>3
    <2>2. /\ committed' = committed /\ call[c].result = "idle"
          /\ session'[x] = [session[x] EXCEPT !.owner = c]
          /\ \A s \in Sessions \ {x} : session'[s] = session[s]
          /\ \A d \in Callers \ {c} : call'[d] = call[d] /\ (runs(d) => call[d].session # x)
      BY <2>1 DEF Joins, SparesBut
    <2>3. ~ runs(c)  BY <2>2 DEF runs
    <2>4. Clean(session[x]) /\ session[x] \in Session
      BY <2>2, <2>3 DEF CleanInv, Calls, CallTypes
    <2>5. Clean(session'[x]) /\ Tidy(session'[x])
      BY <2>2, <2>4 DEF Clean, Tidy, Session
    <2>6. /\ call'[c].kind = kind /\ call'[c].pc = 1 /\ call'[c].session = x
          /\ call'[c].result = "running"
      BY <2>1 DEF Joins, NoCall
    <2>7. begins(kind, word(c)') /\ at(c)' = session'[x]
      BY <2>1, <2>6, SameScenario DEF Joins, word, at
    <2>8. Modes(c)'
      <3>1. Clean(at(c)')  BY <2>5, <2>7
      <3>2. /\ at(c)'.txn = "none" /\ ~ at(c)'.query_only
            /\ ~ at(c)'.next_read_only /\ ~ at(c)'.timeout
        BY <3>1 DEF Clean
      <3> QED  BY <3>2 DEF Modes
    <2>9. Stands(c)' /\ runs(c)'  BY <2>6 DEF Stands, runs
    <2>10. \A d \in Callers \ {c} : (runs(d)' => Modes(d)') /\ Stands(d)'
      BY <1>1, <2>1, <2>2
    <2>11. \A s \in Sessions : Tidy(session'[s])  BY <2>2, <2>5 DEF CleanInv
    <2>12. ASSUME NEW s \in Sessions, \A d \in Callers : runs(d)' => call'[d].session # s
           PROVE  Clean(session'[s])
      <3>1. s # x  BY <2>6, <2>9, <2>12
      <3>2. \A d \in Callers \ {c} : runs(d)' = runs(d)  BY <2>2 DEF runs
      <3>3. \A d \in Callers : runs(d) => call[d].session # s
        BY <2>2, <2>3, <2>12, <3>2
      <3> QED  BY <2>2, <3>1, <3>3 DEF CleanInv
    <2> QED  BY <2>8, <2>9, <2>10, <2>11, <2>12, SameScenario DEF CleanInv
  <1>4. CASE Acts(c)
    <2> DEFINE x == call[c].session
    <2>1. /\ runs(c) /\ Spares(c) /\ Modes(c) /\ x \in Sessions /\ Tidy(at(c))
          /\ \A s \in Sessions : Tidy(session[s])
      BY <1>4 DEF CleanInv, Acts, Calls, Held, at
    <2>2. /\ \A d \in Callers \ {c} : call'[d] = call[d]
          /\ \A s \in Sessions \ {x} : session'[s] = session[s]
      BY <2>1 DEF Spares, SparesBut
    <2>3. (runs(c)' => Modes(c)') /\ (~ runs(c)' => Clean(session'[x]))
      BY <1>4, <2>1, ActModes
    <2>4. Stands(c)'  BY <1>4, <2>1, StandsKept
    <2>5. committed \subseteq committed'  BY <1>4, NothingIsUndone
    <2>6. \A d \in Callers \ {c} : (runs(d)' => Modes(d)') /\ Stands(d)'
      BY <1>1, <2>1, <2>5 DEF Spares
    <2>7. \A s \in Sessions : Tidy(session'[s])  BY <1>4, <2>1, TidyKept
    <2>8. call'[c].session = x
      <3>1. ASSUME NEW s, Succeeds(c, s) PROVE call'[c].session = x
        BY <2>1, <3>1, CallAfter DEF Succeeds
      <3>2. ASSUME NEW error, Fails(c, error) PROVE call'[c].session = x
        BY <2>1, <3>2, CallAfter DEF Fails
      <3>3. ASSUME CannotBegin(c) \/ IsCutOff(c) \/ IsInDoubt(c) \/ IsDropped(c)
            PROVE  call'[c].session = x
        BY <2>1, <3>3, CallAfter DEF CannotBegin, IsCutOff, IsInDoubt, IsDropped
      <3> QED  BY <1>4, <3>1, <3>2, <3>3 DEF Acts
    <2>9. ASSUME NEW s \in Sessions, \A d \in Callers : runs(d)' => call'[d].session # s
          PROVE  Clean(session'[s])
      <3>1. CASE s = x
        <4>1. ~ runs(c)'  BY <2>8, <2>9, <3>1
        <4> QED  BY <2>3, <3>1, <4>1
      <3>2. CASE s # x
        <4>1. \A d \in Callers \ {c} : runs(d)' = runs(d)  BY <2>2 DEF runs
        <4>2. \A d \in Callers : runs(d) => call[d].session # s
          BY <2>2, <2>9, <3>2, <4>1
        <4> QED  BY <2>2, <3>2, <4>2 DEF CleanInv
      <3> QED  BY <3>1, <3>2
    <2> QED  BY <2>3, <2>4, <2>6, <2>7, <2>9, SameScenario DEF CleanInv
  <1> QED  BY <1>2, <1>3, <1>4 DEF Arrives

LEMMA CleanAlways ==
    ASSUME CallersAndScripts, TakeTurns, ModesAreTakenBack
    PROVE  EngineSpec => [](Calls /\ CleanInv)
  <1> DEFINE Inv == Calls /\ CleanInv
  <1>1. EngineInit => Inv
    <2> SUFFICES ASSUME EngineInit PROVE Inv  OBVIOUS
    <2>1. Calls  BY CallsInit
    <2>2. \A s \in Sessions : Clean(session[s]) /\ Tidy(session[s])
      BY DEF EngineInit, Clean, Tidy, Fresh
    <2>3. \A c \in Callers : ~ runs(c) /\ Stands(c)  BY DEF EngineInit, Stands, NoCall, runs
    <2> QED  BY <2>1, <2>2, <2>3 DEF CleanInv
  <1>2. Inv /\ [EngineNext]_EngineVars => Inv'
    <2> SUFFICES ASSUME Inv, [EngineNext]_EngineVars PROVE Inv'  OBVIOUS
    <2>1. CASE EngineNext
      <3>1. PICK c \in Callers : Calls' /\ scenario' = scenario /\ (Arrives(c) \/ Acts(c))
        BY <2>1, Moves
      <3> QED  BY <3>1, CleanKept
    <2>2. CASE UNCHANGED EngineVars
      <3>1. Calls' /\ scenario' = scenario  BY <2>2, Stutters
      <3>2. session' = session /\ call' = call /\ committed' = committed  BY <2>2 DEF EngineVars
      <3>3. ASSUME NEW c \in Callers
            PROVE  (runs(c)' => Modes(c)') /\ Stands(c)' /\ runs(c)' = runs(c)
        <4>1. runs(c)' = runs(c) /\ word(c)' = word(c) /\ at(c)' = at(c)
          BY <3>1, <3>2, SameScenario DEF runs, word, at
        <4>2. Settled(c)' = Settled(c)  BY <3>1, <3>2, <4>1, SameScenario DEF Settled
        <4>3. runs(c)' => Modes(c)'
          BY <3>1, <3>2, <4>1, <4>2, SameScenario DEF Modes, CleanInv
        <4> QED  BY <3>2, <4>1, <4>3 DEF Stands, CleanInv
      <3> QED  BY <3>1, <3>2, <3>3, SameScenario DEF CleanInv
    <2> QED  BY <2>1, <2>2
  <1> QED  BY <1>1, <1>2, PTL DEF EngineSpec

\* A connection nobody uses carries nothing of the calls before, neither a mode that
\* refuses writes nor a timeout nor a transaction, whichever statement failed
\* (reset_statement, run_read_only_txn), where nobody is dropped between setting a mode
\* and taking it back.
THEOREM ConnectionsComeBackClean ==
    ASSUME CallersAndScripts, TakeTurns, ModesAreTakenBack
    PROVE  EngineSpec => []IdleSessionsAreClean
  <1>1. Calls /\ CleanInv => IdleSessionsAreClean
    BY CleanIs DEF CleanInv, IdleSessionsAreClean, Calls, CallTypes, runs
  <1> QED  BY <1>1, CleanAlways, PTL

\* No ordinary write is refused for a read that went before it or runs beside it, and
\* one that was reported as done is in the database ("a connection left read-only would
\* corrupt later writes silently").
THEOREM OrdinaryWritesGoThrough ==
    ASSUME CallersAndScripts, TakeTurns, ModesAreTakenBack
    PROVE  EngineSpec => []OrdinaryWritesStand
  <1>1. Calls /\ CleanInv => OrdinaryWritesStand
    BY DEF CleanInv, OrdinaryWritesStand, Stands
  <1> QED  BY <1>1, CleanAlways, PTL

-------------------------------------------------------------------------------
(***************************************************************************)
(* RedisReads.                                                             *)
(***************************************************************************)
\* A line's words.  (The union names the mark of a number as the string it is: the provers
\* know of no literal that it is one.)
Tokens == [s : STRING \union {"#"}, n : Int]
Sentences == Seq(Tokens)

\* The lines are made of words, the server holds finitely many elements, and a caller is
\* allowed at least one row and no more than a result may hold (limits.rs, run_read_query).
RedisAssumption ==
    /\ Requests \subseteq Sentences
    /\ IsFiniteSet(Elements) /\ Buckets \in Nat
    /\ MaxRows \in Nat \ {0} /\ MAX_RESULT_ROWS \in Nat /\ DEFAULT_SCAN_ROWS \in Nat
    /\ MaxRows <= MAX_RESULT_ROWS

-------------------------------------------------------------------------------
(* The community modules' operators, where the module uses them. *)

LEMMA OfTwo ==
    ASSUME NEW a \in Int, NEW b \in Int
    PROVE  /\ Min({a, b}) = (IF a <= b THEN a ELSE b)
           /\ Max({a, b}) = (IF a <= b THEN b ELSE a)
<1>1. Min({a, b}) \in {a, b} /\ \A y \in {a, b} : Min({a, b}) <= y
  <2>1. \E x \in {a, b} : \A y \in {a, b} : x <= y
    <3>1. CASE a <= b
      BY <3>1
    <3>2. CASE ~ a <= b
      <4>1. b <= a /\ b <= b
        BY <3>2
      <4>2. QED
        BY <4>1
    <3>3. QED
      BY <3>1, <3>2
  <2>2. QED
    BY <2>1 DEF Min
<1>2. Max({a, b}) \in {a, b} /\ \A y \in {a, b} : Max({a, b}) >= y
  <2>1. \E x \in {a, b} : \A y \in {a, b} : x >= y
    <3>1. CASE a <= b
      <4>1. b >= a /\ b >= b
        BY <3>1
      <4>2. QED
        BY <4>1
    <3>2. CASE ~ a <= b
      <4>1. a >= b /\ a >= a
        BY <3>2
      <4>2. QED
        BY <4>1
    <3>3. QED
      BY <3>1, <3>2
  <2>2. QED
    BY <2>1 DEF Max
<1>3. QED
  BY <1>1, <1>2

LEMMA LastOfTwo == Max(1 .. 2) = 2
<1>1. 1 .. 2 = {1, 2}
  OBVIOUS
<1>2. Max({1, 2}) = 2
  BY OfTwo
<1>3. QED
  BY <1>1, <1>2

LEMMA ListedOnce ==
    ASSUME NEW S, IsFiniteSet(S)
    PROVE  SetToSeq(S) \in Seq(S) /\ ToSet(SetToSeq(S)) = S
<1>1. PICK n \in Nat : \E f : f \in Bijection(1 .. n, S)
  BY FS_NatBijection DEF ExistsBijection
<1>2. PICK f : f \in Bijection(1 .. n, S)
  BY <1>1
<1>3. n = Cardinality(S)
  BY <1>2, FS_CountingElements DEF ExistsBijection
<1>4. f \in [1 .. n -> S] /\ IsInjective(f) /\ \A x \in S : \E i \in 1 .. n : f[i] = x
  BY <1>2 DEF Bijection, Injection, Surjection, IsInjective
<1>5. SetToSeq(S) \in [1 .. n -> S] /\ IsInjective(SetToSeq(S))
  BY <1>3, <1>4 DEF SetToSeq
<1>6. SetToSeq(S) \in Surjection(1 .. n, S)
  <2>1. SetToSeq(S) \in Injection(1 .. n, S)
    BY <1>5 DEF Injection
  <2>2. IsFiniteSet(1 .. n) /\ Cardinality(1 .. n) = n
    BY FS_Interval
  <2>3. QED
    BY <1>3, <2>1, <2>2, FS_Injection
<1>7. ToSet(SetToSeq(S)) = S
  BY <1>5, <1>6 DEF ToSet, Surjection
<1>8. QED
  BY <1>1, <1>5, <1>7

LEMMA JoinedSets ==
    ASSUME NEW T, NEW a \in Seq(T), NEW b \in Seq(T)
    PROVE  ToSet(a \o b) = ToSet(a) \union ToSet(b)
<1>1. Len(a \o b) = Len(a) + Len(b) /\ a \o b \in Seq(T)
  OBVIOUS
<1>2. \A i \in 1 .. Len(a) : (a \o b)[i] = a[i]
  OBVIOUS
<1>3. \A i \in 1 .. Len(b) : (a \o b)[Len(a) + i] = b[i]
  OBVIOUS
<1>4. \A x \in ToSet(a \o b) : x \in ToSet(a) \union ToSet(b)
  <2> SUFFICES ASSUME NEW k \in 1 .. Len(a) + Len(b) PROVE (a \o b)[k] \in ToSet(a) \union ToSet(b)
    BY <1>1 DEF ToSet
  <2>1. CASE k <= Len(a)
    BY <1>2, <2>1 DEF ToSet
  <2>2. CASE k > Len(a)
    <3>1. k - Len(a) \in 1 .. Len(b) /\ Len(a) + (k - Len(a)) = k
      BY <2>2
    <3>2. (a \o b)[k] = b[k - Len(a)]
      BY <1>3, <3>1
    <3>3. QED
      BY <3>1, <3>2 DEF ToSet
  <2>3. QED
    BY <2>1, <2>2
<1>5. \A x \in ToSet(a) \union ToSet(b) : x \in ToSet(a \o b)
  <2>1. ASSUME NEW i \in 1 .. Len(a) PROVE a[i] \in ToSet(a \o b)
    BY <1>1, <1>2 DEF ToSet
  <2>2. ASSUME NEW i \in 1 .. Len(b) PROVE b[i] \in ToSet(a \o b)
    <3>1. Len(a) + i \in 1 .. Len(a \o b)
      BY <1>1
    <3>2. QED
      BY <1>1, <1>3, <3>1 DEF ToSet
  <2>3. ToSet(a) = {a[i] : i \in 1 .. Len(a)} /\ ToSet(b) = {b[i] : i \in 1 .. Len(b)}
    BY DEF ToSet
  <2>4. QED
    BY <2>1, <2>2, <2>3
<1>6. QED
  BY <1>4, <1>5

-------------------------------------------------------------------------------
(* What the classifier lets through. *)

LEMMA VerdictOfAScan ==
    ASSUME NEW words \in Sentences, words # <<>>, words[1].s = "SCAN"
    PROVE  classify(words).shape \in {"refused", "ScanKeys"} /\ classify(words).guard = "none"
<1>1. PICK name, args : name = words[1].s /\ args = Tail(words)
  OBVIOUS
<1>2. classify(words) = rule("SCAN", args)
  BY <1>1 DEF classify
<1>3. rule("SCAN", args) = scan("SCAN", args, 0)
  BY Zenon DEF rule
<1>4. scan("SCAN", args, 0) \in {NotARead, plain("ScanKeys")}
  BY ZenonT(30) DEF scan
<1>5. QED
  BY <1>2, <1>3, <1>4 DEF NotARead, plain

\* A range that is let through as it is covers few elements.
LEMMA SmallRanges ==
    ASSUME RedisAssumption, NEW n \in Nat, NEW a \in Int, NEW b \in Int,
           a >= 0, b >= a, b - a < MAX_RESULT_ROWS
    PROVE  Cardinality({i \in 0 .. n - 1 : i >= a /\ i <= b}) \in 0 .. MAX_RESULT_ROWS
<1>1. PICK S : S = {i \in 0 .. n - 1 : i >= a /\ i <= b}
  OBVIOUS
<1>2. S \subseteq a .. b
  BY <1>1
<1>3. IsFiniteSet(a .. b) /\ Cardinality(a .. b) = b - a + 1
  BY FS_Interval
<1>4. IsFiniteSet(S) /\ Cardinality(S) <= Cardinality(a .. b)
  BY <1>2, <1>3, FS_Subset
<1>5. Cardinality(S) \in Nat
  BY <1>4, FS_CardinalityType
<1>6. QED
  BY <1>1, <1>3, <1>4, <1>5 DEF RedisAssumption

\* A measured range covers no more than there is.
LEMMA AnyRange ==
    ASSUME NEW n \in Nat, NEW a \in Int, NEW b \in Int
    PROVE  Cardinality({i \in 0 .. n - 1 : i >= a /\ i <= b}) \in 0 .. n
<1>1. PICK S : S = {i \in 0 .. n - 1 : i >= a /\ i <= b}
  OBVIOUS
<1>2. S \subseteq 0 .. n - 1
  BY <1>1
<1>3. IsFiniteSet(0 .. n - 1) /\ Cardinality(0 .. n - 1) = n
  BY FS_Interval
<1>4. IsFiniteSet(S) /\ Cardinality(S) <= Cardinality(0 .. n - 1)
  BY <1>2, <1>3, FS_Subset
<1>5. Cardinality(S) \in Nat
  BY <1>4, FS_CardinalityType
<1>6. QED
  BY <1>1, <1>3, <1>4, <1>5

LEMMA VerdictOfARange ==
    ASSUME NEW args \in Sentences, NEW shape, NEW len, len # "none",
           range(args, shape, len).guard = "none", range(args, shape, len).shape # "refused"
    PROVE  Len(args) = 3 /\ small_range(args)
<1>1. arity(args, 3, 3) /\ small_range(args)
  BY DEF range, NotARead, plain, guarded
<1>2. QED
  BY <1>1 DEF arity, Sentences

Ranges == {"LRANGE", "ZRANGE"}
Streams == {"XRANGE", "XREVRANGE"}
Wholes == {"HGETALL", "HKEYS", "HVALS", "SMEMBERS"}

LEMMA RulesOfNames ==
    ASSUME NEW args
    PROVE  /\ rule("LRANGE", args) = range(args, "Values", "LLEN")
           /\ rule("ZRANGE", args) = zrange(args)
           /\ rule("XRANGE", args) = xrange(args) /\ rule("XREVRANGE", args) = xrange(args)
           /\ rule("HGETALL", args) = whole(args, "HLEN", "FieldValues")
           /\ rule("HKEYS", args) = whole(args, "HLEN", "Values")
           /\ rule("HVALS", args) = whole(args, "HLEN", "Values")
           /\ rule("SMEMBERS", args) = whole(args, "SCARD", "Values")
<1>1. rule("LRANGE", args) = range(args, "Values", "LLEN")
  BY Zenon DEF rule
<1>2. rule("ZRANGE", args) = zrange(args)
  BY Zenon DEF rule
<1>3. rule("XRANGE", args) = xrange(args) /\ rule("XREVRANGE", args) = xrange(args)
  BY Zenon DEF rule
<1>4. rule("HGETALL", args) = whole(args, "HLEN", "FieldValues")
  BY Zenon DEF rule
<1>5. rule("HKEYS", args) = whole(args, "HLEN", "Values") /\ rule("HVALS", args) = whole(args, "HLEN", "Values")
  BY Zenon DEF rule
<1>6. rule("SMEMBERS", args) = whole(args, "SCARD", "Values")
  BY Zenon DEF rule
<1>7. QED
  BY <1>1, <1>2, <1>3, <1>4, <1>5, <1>6

at_index(i, n) == IF i < 0 THEN n + i ELSE i

LEMMA AskedFor ==
    ASSUME NEW words, NEW w, NEW n, n = Cardinality(Everything(w))
    PROVE  /\ words[1].s \in Ranges =>
                 asked_for(words, w) =
                    Cardinality({i \in 0 .. n - 1 : /\ i >= at_index(words[3].n, n)
                                                   /\ i <= at_index(words[4].n, n)})
           /\ words[1].s \in Streams => asked_for(words, w) = IF words[6].n < n THEN words[6].n ELSE n
           /\ words[1].s \in Wholes => asked_for(words, w) = n
           /\ words[1].s \notin Ranges \union Streams \union Wholes => asked_for(words, w) = 1
<1>1. words[1].s \in Ranges =>
                 asked_for(words, w) =
                    Cardinality({i \in 0 .. n - 1 : /\ i >= at_index(words[3].n, n)
                                                   /\ i <= at_index(words[4].n, n)})
  BY ZenonT(30) DEF asked_for, Ranges, at_index
<1>2. words[1].s \in Streams => asked_for(words, w) = IF words[6].n < n THEN words[6].n ELSE n
  BY ZenonT(30) DEF asked_for, Streams
<1>3. words[1].s \in Wholes => asked_for(words, w) = n
  BY ZenonT(30) DEF asked_for, Wholes
<1>4. words[1].s \notin Ranges \union Streams \union Wholes => asked_for(words, w) = 1
  BY ZenonT(30) DEF asked_for, Ranges, Streams, Wholes
<1>5. QED
  BY <1>1, <1>2, <1>3, <1>4

\* A line that is sent as it is asks for no more than a result may hold, however much the
\* server has; one that is measured, for no more than was measured.
LEMMA LetThrough ==
    ASSUME RedisAssumption, NEW words \in Sentences, words # <<>>, NEW w,
           Cardinality(Everything(w)) \in Nat, classify(words).shape # "refused"
    PROVE  /\ asked_for(words, w) \in Nat
           /\ classify(words).guard = "none" => asked_for(words, w) <= MAX_RESULT_ROWS
           /\ Cardinality(Everything(w)) <= MaxRows => asked_for(words, w) <= MaxRows
<1>1. PICK n \in Nat : n = Cardinality(Everything(w))
  OBVIOUS
<1>2. PICK name, args : name = words[1].s /\ args = Tail(words)
  OBVIOUS
<1>3. /\ args \in Sentences /\ Len(args) \in Nat
      /\ \A i \in 1 .. Len(args) : args[i] = words[i + 1] /\ args[i] \in Tokens
  <2>1. Tail(words) \in Sentences /\ Len(Tail(words)) \in Nat /\ Len(Tail(words)) = Len(words) - 1
    BY DEF Sentences
  <2>2. ASSUME NEW i \in 1 .. Len(Tail(words)) PROVE Tail(words)[i] = words[i + 1]
    BY DEF Sentences
  <2>3. ASSUME NEW i \in 1 .. Len(Tail(words)) PROVE Tail(words)[i] \in Tokens
    BY <2>1, ElementOfSeq DEF Sentences
  <2>4. QED
    BY <1>2, <2>1, <2>2, <2>3
<1>35. PICK l \in Nat : l = Len(args)
  BY <1>3
<1>4. classify(words) = rule(name, args)
  BY <1>2 DEF classify
<1>5. CASE name \in Ranges
  <2>1. asked_for(words, w) =
            Cardinality({i \in 0 .. n - 1 : /\ i >= at_index(words[3].n, n)
                                           /\ i <= at_index(words[4].n, n)})
    BY <1>1, <1>2, <1>5, AskedFor
  <2>2. Len(args) >= 3
    <3>1. CASE name = "LRANGE"
      <4>1. arity(args, 3, 3)
        BY <1>4, <3>1, RulesOfNames DEF range, NotARead
      <4>2. QED
        <5>1. l \in 3 .. 3
          BY <1>35, <4>1 DEF arity
        <5>2. l >= 3
          BY <5>1
        <5>3. QED
          BY <1>35, <5>2
    <3>2. CASE name = "ZRANGE"
      <4>1. zrange(args) # NotARead
        BY <1>4, <3>2, RulesOfNames DEF NotARead
      <4>2. ~ Len(args) < 3
        BY Zenon, <4>1 DEF zrange
      <4>3. l >= 3
        BY <1>35, <4>2
      <4>4. QED
        BY <1>35, <4>3
    <3>3. QED
      BY <1>5, <3>1, <3>2 DEF Ranges
  <2>3. words[3] = args[2] /\ words[4] = args[3] /\ args[2] \in Tokens
        /\ args[3] \in Tokens
    <3>1. 2 \in 1 .. Len(args) /\ 3 \in 1 .. Len(args)
      BY <1>3, <2>2
    <3>2. QED
      BY <1>3, <3>1
  <2>4. PICK a \in Int, b \in Int : a = at_index(words[3].n, n) /\ b = at_index(words[4].n, n)
    BY <2>3 DEF at_index, Tokens
  <2>5. asked_for(words, w) \in 0 .. n
    <3>1. asked_for(words, w) = Cardinality({i \in 0 .. n - 1 : i >= a /\ i <= b})
      BY <2>1, <2>4
    <3>2. Cardinality({i \in 0 .. n - 1 : i >= a /\ i <= b}) \in 0 .. n
      BY AnyRange
    <3>3. QED
      BY <3>1, <3>2
  <2>6. ASSUME classify(words).guard = "none" PROVE asked_for(words, w) <= MAX_RESULT_ROWS
    <3>1. small_range(args)
      <4>1. CASE name = "LRANGE"
        BY <1>3, <1>4, <2>6, <4>1, RulesOfNames, VerdictOfARange
      <4>2. CASE name = "ZRANGE"
        <5>1. PICK three, shape :
                 /\ three \in Sentences /\ three = SubSeq(args, 1, 3) /\ classify(words) = range(three, shape, "ZCARD")
                 /\ three[2] = args[2] /\ three[3] = args[3]
          <6>1. /\ SubSeq(args, 1, 3) \in Sentences
                /\ SubSeq(args, 1, 3)[2] = args[2] /\ SubSeq(args, 1, 3)[3] = args[3]
            <7>1. \A k \in 1 .. 3 : k \in 1 .. Len(args)
              BY <1>3, <2>2
            <7>2. \A k \in 1 .. 3 : args[k] \in Tokens
              BY <1>3, <7>1
            <7>3. SubSeq(args, 1, 3) = [k \in 1 .. 3 |-> args[k]]
              BY <1>3, <2>2 DEF Sentences
            <7>4. QED
              BY <7>2, <7>3 DEF Sentences
          <6>2. \E shape : zrange(args) \in {NotARead, range(SubSeq(args, 1, 3), shape, "ZCARD")}
            BY DEF zrange
          <6>3. classify(words) = zrange(args)
            BY <1>4, <4>2, RulesOfNames
          <6>4. QED
            <7>1. classify(words) # NotARead
              BY DEF NotARead
            <7>2. PICK three : three = SubSeq(args, 1, 3)
              OBVIOUS
            <7>3. QED
              BY <6>1, <6>2, <6>3, <7>1, <7>2
        <5>2. small_range(three)
          BY <2>6, <5>1, VerdictOfARange
        <5>3. QED
          BY <5>1, <5>2 DEF small_range
      <4>3. QED
        BY <1>5, <4>1, <4>2 DEF Ranges
    <3>2. args[2].n >= 0 /\ args[3].n >= args[2].n /\ args[3].n - args[2].n < MAX_RESULT_ROWS
      BY <3>1 DEF small_range
    <3>3. a = args[2].n /\ b = args[3].n
      BY <2>3, <2>4, <3>2 DEF at_index, Tokens
    <3>4. asked_for(words, w) \in 0 .. MAX_RESULT_ROWS
      <4>1. asked_for(words, w) = Cardinality({i \in 0 .. n - 1 : i >= a /\ i <= b})
        BY <2>1, <2>4
      <4>2. a >= 0 /\ b >= a /\ b - a < MAX_RESULT_ROWS
        BY <3>2, <3>3
      <4>3. Cardinality({i \in 0 .. n - 1 : i >= a /\ i <= b}) \in 0 .. MAX_RESULT_ROWS
        BY <4>2, SmallRanges
      <4>4. QED
        BY <4>1, <4>3
    <3>5. QED
      BY <3>4 DEF RedisAssumption
  <2>7. QED
    BY <1>1, <2>5, <2>6 DEF RedisAssumption
<1>6. CASE name \in Streams
  <2>1. /\ Len(args) = 5 /\ args[5].n \in 0 .. MAX_RESULT_ROWS
    BY <1>4, <1>6, RulesOfNames DEF Streams, xrange, NotARead
  <2>2. words[6] = args[5]
    <3>1. 5 \in 1 .. Len(args)
      BY <2>1
    <3>2. QED
      BY <1>3, <3>1
  <2>3. asked_for(words, w) = IF words[6].n < n THEN words[6].n ELSE n
    BY <1>1, <1>2, <1>6, AskedFor
  <2>4. QED
    BY <1>1, <2>1, <2>2, <2>3 DEF RedisAssumption
<1>7. CASE name \in Wholes
  <2>1. asked_for(words, w) = n
    BY <1>1, <1>2, <1>7, AskedFor
  <2>2. classify(words).guard # "none"
    BY <1>4, <1>7, RulesOfNames DEF Wholes, whole, guarded, NotARead
  <2>3. QED
    BY <1>1, <2>1, <2>2
<1>8. CASE name \notin Ranges \union Streams \union Wholes
  <2>1. asked_for(words, w) = 1
    BY <1>1, <1>2, <1>8, AskedFor
  <2>2. QED
    BY <2>1 DEF RedisAssumption
<1>9. QED
  BY <1>5, <1>6, <1>7, <1>8

LEMMA RowsWanted ==
    ASSUME RedisAssumption, NEW words \in Sentences
    PROVE  wanted(words) \in 1 .. MaxRows
<1>1. PICK named : named = {i \in 1 .. Len(words) - 1 :
                     /\ words[i].s = "COUNT" /\ \A j \in 1 .. i - 1 : words[j].s # "COUNT"
                     /\ words[i + 1].s = "#" /\ words[i + 1].n >= 0}
  OBVIOUS
<1>2. PICK count : count = (IF named = {} THEN DEFAULT_SCAN_ROWS
                            ELSE LET place == CHOOSE i \in named : TRUE IN words[place + 1].n)
  OBVIOUS
<1>3. count \in Int
  <2>1. CASE named = {}
    BY <1>2, <2>1 DEF RedisAssumption
  <2>2. CASE named # {}
    <3>1. PICK place : place = (CHOOSE i \in named : TRUE)
      OBVIOUS
    <3>2. place \in named
      BY <2>2, <3>1
    <3>3. place \in Nat /\ place + 1 \in 1 .. Len(words)
      BY <1>1, <3>2 DEF Sentences
    <3>4. words[place + 1] \in Tokens
      BY <3>3, ElementOfSeq DEF Sentences
    <3>5. count = words[place + 1].n
      BY <1>2, <2>2, <3>1
    <3>6. QED
      BY <3>4, <3>5 DEF Tokens
  <2>3. QED
    BY <2>1, <2>2
<1>4. wanted(words) = Max({1, Min({count, Max({1, MaxRows})})})
  BY <1>1, <1>2 DEF wanted
<1>5. Max({1, MaxRows}) = MaxRows
  <2>1. 1 \in Int /\ MaxRows \in Int /\ 1 <= MaxRows
    BY DEF RedisAssumption
  <2>2. Max({1, MaxRows}) = (IF 1 <= MaxRows THEN MaxRows ELSE 1)
    BY <2>1, OfTwo
  <2>3. QED
    BY <2>1, <2>2
<1>6. PICK m \in Int : m = Min({count, MaxRows}) /\ m <= MaxRows
  BY <1>3, OfTwo DEF RedisAssumption
<1>7. Max({1, m}) \in 1 .. MaxRows
  <2>1. 1 \in Int /\ MaxRows \in Int /\ 1 <= MaxRows
    BY DEF RedisAssumption
  <2>2. Max({1, m}) = (IF 1 <= m THEN m ELSE 1)
    BY <1>6, <2>1, OfTwo
  <2>3. QED
    BY <1>6, <2>1, <2>2
<1>8. QED
  BY <1>4, <1>5, <1>6, <1>7

-------------------------------------------------------------------------------
(* The invariant. *)

\* What the node being walked and those before it have given.
FollowedSoFar ==
    command.complete =>
        \A e \in walk.stable :
            /\ where[e][1] < command.node => e \in ToSet(command.found)
            /\ where[e][1] = command.node /\ where[e][2] <= command.cursor
                  => e \in ToSet(command.items)

CommandUnderway ==
    /\ command.words \in Sentences /\ command.node \in {1, 2}
    /\ command.items \in Seq(Elements) /\ command.found \in Seq(Elements)
    /\ command.complete \in BOOLEAN
    /\ Len(command.found) <= wanted(command.words)
    /\ walk.kind # <<>> /\ command.shape = classify(walk.kind).shape
    /\ command.at # "follow" => command.words = walk.kind
    /\ node_by_node => walk.next = "none" /\ command.cursor \in Nat /\ FollowedSoFar

Walked ==
    /\ walk.kind = <<>> \/ (walk.kind \in Sentences /\ classify(walk.kind).shape # "refused")
    /\ walk.cursor \in Int /\ walk.last \in Int /\ walk.last <= MaxRows
    /\ walk.next = "more" =>
          walk.kind # <<>> /\ ~ (cluster /\ classify(walk.kind).shape = "ScanKeys")
    /\ walk.stable \subseteq Everything(where)

IsACommand(c) ==
    c = [at |-> c.at, words |-> c.words, shape |-> c.shape, node |-> c.node, cursor |-> c.cursor,
         calls |-> c.calls, items |-> c.items, found |-> c.found, complete |-> c.complete]
IsAWalk(w) ==
    w = [rows |-> w.rows, next |-> w.next, cursor |-> w.cursor, stable |-> w.stable,
         pages |-> w.pages, kind |-> w.kind, last |-> w.last]

RedisInv ==
    /\ cluster \in BOOLEAN /\ where \in [Elements -> Places(Nodes)]
    /\ IsACommand(command)
    /\ IsAWalk(walk)
    /\ command.at # "idle" => CommandUnderway
    /\ Walked /\ ClusterScanIsWhole

\* A call that ends with an error leaves nothing.
LEMMA GivingUp ==
    ASSUME RedisAssumption, RedisInv, command' = NoCommand,
           walk' = [NoWalk EXCEPT !.pages = walk.pages + 1], UNCHANGED <<cluster, where>>
    PROVE  RedisInv'
<1>1. /\ walk'.rows = {} /\ walk'.next = "none" /\ walk'.cursor = 0 /\ walk'.stable = {}
      /\ walk'.kind = <<>> /\ walk'.last = 0
  BY DEF NoWalk
<1>2. IsAWalk(walk')
  BY DEF IsAWalk, NoWalk
<1>3. Walked'
  BY <1>1 DEF Walked, RedisAssumption
<1>4. ClusterScanIsWhole'
  BY <1>1 DEF ClusterScanIsWhole
<1>5. Nodes' = Nodes
  BY DEF Nodes
<1>6. QED
  BY <1>2, <1>3, <1>4, <1>5 DEF RedisInv, IsACommand, NoCommand, Places

\* A command that ends with rows.
LEMMA Ending ==
    ASSUME RedisAssumption, RedisInv, command.at # "idle", UNCHANGED <<cluster, where>>,
           NEW rows, NEW count \in Int, count <= MaxRows, NEW onward, NEW cursor \in Int,
           ended(rows, count, onward, cursor),
           onward = "more" => ~ (cluster /\ command.shape = "ScanKeys"),
           node_by_node /\ onward = "0" => walk.stable \subseteq rows
    PROVE  RedisInv'
<1>1. CommandUnderway /\ Walked
  BY DEF RedisInv
<1>2. /\ walk'.rows = walk.rows \union rows /\ walk'.next = onward /\ walk'.cursor = cursor
      /\ walk'.stable = walk.stable /\ walk'.kind = walk.kind /\ walk'.last = count
      /\ IsAWalk(walk')
  BY DEF IsAWalk, RedisInv, ended
<1>3. Walked'
  BY <1>1, <1>2 DEF Walked, CommandUnderway, Everything
<1>4. ClusterScanIsWhole'
  <2> SUFFICES ASSUME cluster, walk.kind[1].s = "SCAN", onward = "0"
               PROVE  walk.stable \subseteq rows
    BY <1>2 DEF ClusterScanIsWhole
  <2>1. classify(walk.kind).shape = "ScanKeys"
    BY <1>1, VerdictOfAScan DEF Walked, CommandUnderway
  <2>2. QED
    BY <1>1, <2>1 DEF CommandUnderway, node_by_node
<1>5. Nodes' = Nodes
  BY DEF Nodes
<1>6. QED
  BY <1>2, <1>3, <1>4, <1>5 DEF RedisInv, IsACommand, NoCommand, Places, ended

LEMMA Running ==
    ASSUME RedisAssumption, RedisInv, run_command
    PROVE  RedisInv'
<1>1. UNCHANGED <<cluster, where>> /\ Nodes' = Nodes
  BY DEF run_command, Nodes
<1>2. PICK words \in Requests :
         LET verdict == classify(words)
             cursor == IF verdict.shape \in Scans THEN words[at_cursor(verdict.shape)].n ELSE 0
             fresh == [NoWalk EXCEPT !.stable = Everything(where), !.pages = walk.pages,
                                     !.kind = words]
         IN  IF \/ verdict.shape = "refused"
                \/ verdict.shape = "ScanKeys" /\ cluster /\ cursor # 0
             THEN /\ command' = NoCommand
                  /\ walk' = [NoWalk EXCEPT !.pages = walk.pages + 1]
             ELSE /\ command' = [NoCommand EXCEPT
                       !.at = IF verdict.guard # "none" THEN "measure"
                              ELSE IF verdict.shape \in Scans THEN "follow" ELSE "read",
                       !.words = words, !.shape = verdict.shape, !.cursor = cursor]
                  /\ walk' = fresh
  BY Zenon DEF run_command
<1>3. words \in Sentences
  BY DEF RedisAssumption, Sentences
<1>4. PICK shape, guard, cursor :
         /\ shape = classify(words).shape /\ guard = classify(words).guard
         /\ cursor = (IF shape \in Scans THEN words[at_cursor(shape)].n ELSE 0)
  OBVIOUS
<1>5. CASE shape = "refused" \/ (shape = "ScanKeys" /\ cluster /\ cursor # 0)
  <2>1. command' = NoCommand /\ walk' = [NoWalk EXCEPT !.pages = walk.pages + 1]
    BY <1>2, <1>4, <1>5
  <2>2. QED
    BY <1>1, <2>1, GivingUp
<1>6. CASE ~ (shape = "refused" \/ (shape = "ScanKeys" /\ cluster /\ cursor # 0))
  <2>1. PICK phase : phase = (IF guard # "none" THEN "measure"
                        ELSE IF shape \in Scans THEN "follow" ELSE "read")
    OBVIOUS
  <2>2. /\ command' = [NoCommand EXCEPT !.at = phase, !.words = words, !.shape = shape, !.cursor = cursor]
        /\ walk' = [NoWalk EXCEPT !.stable = Everything(where), !.pages = walk.pages, !.kind = words]
    BY <1>2, <1>4, <1>6, <2>1
  <2>3. words # <<>>
    BY <1>4, <1>6 DEF classify, NotARead
  <2>4. /\ command'.at = phase /\ command'.words = words /\ command'.shape = shape /\ command'.node = 1
        /\ command'.cursor = cursor /\ command'.items = <<>> /\ command'.found = <<>>
        /\ command'.complete = TRUE
        /\ IsACommand(command')
    BY <2>2 DEF IsACommand, NoCommand
  <2>5. /\ walk'.rows = {} /\ walk'.next = "none" /\ walk'.cursor = 0 /\ walk'.stable = Everything(where)
        /\ walk'.kind = words /\ walk'.last = 0
        /\ IsAWalk(walk')
    BY <2>2 DEF IsAWalk, NoWalk
  <2>6. ASSUME cluster, shape = "ScanKeys" PROVE cursor = 0 /\ FollowedSoFar'
    <3>1. cursor = 0
      BY <1>6, <2>6
    <3>2. ASSUME NEW e \in Everything(where) PROVE ~ where[e][1] < 1 /\ ~ where[e][2] <= 0
      <4>1. where[e] \in Nodes \X (1 .. Buckets)
        BY <3>2 DEF Everything, RedisInv, Places
      <4>2. QED
        BY <4>1 DEF Nodes, RedisAssumption
    <3>3. QED
      BY <1>1, <2>4, <2>5, <3>1, <3>2 DEF FollowedSoFar
  <2>65. Len(command'.found) <= wanted(words)
    <3>1. PICK k : k = wanted(words) /\ k \in 1 .. MaxRows
      BY <1>3, RowsWanted
    <3>2. QED
      BY <2>4, <3>1 DEF RedisAssumption
  <2>7. CommandUnderway'
    <3>1. node_by_node' <=> cluster /\ shape = "ScanKeys"
      BY <1>1, <2>4 DEF node_by_node
    <3>2. wanted(command.words)' = wanted(words)
      BY <2>4 DEF wanted
    <3>3. /\ command'.words \in Sentences /\ command'.node \in {1, 2}
          /\ command'.items \in Seq(Elements) /\ command'.found \in Seq(Elements)
          /\ command'.complete \in BOOLEAN /\ Len(command'.found) <= wanted(command.words)'
      <4>1. Len(command'.found) <= wanted(command.words)'
        BY <2>65, <3>2, Zenon
      <4>2. <<>> \in Seq(Elements)
        OBVIOUS
      <4>3. QED
        BY <1>3, <2>4, <4>1, <4>2
    <3>4. walk'.kind # <<>> /\ command'.shape = classify(walk'.kind).shape /\ command'.words = walk'.kind
      BY <1>4, <2>3, <2>4, <2>5
    <3>5. node_by_node' => walk'.next = "none" /\ command'.cursor \in Nat /\ FollowedSoFar'
      BY <2>4, <2>5, <2>6, <3>1
    <3>6. QED
      BY <3>3, <3>4, <3>5 DEF CommandUnderway
  <2>8. Walked'
    BY <1>1, <1>3, <1>4, <1>6, <2>5 DEF Walked, Everything, RedisAssumption
  <2>9. QED
    BY <1>1, <2>4, <2>5, <2>7, <2>8 DEF RedisInv, ClusterScanIsWhole, Places
<1>7. QED
  BY <1>5, <1>6

LEMMA OneReplaced ==
    ASSUME NEW T, NEW q \in Seq(T), NEW i, NEW x \in T
    PROVE  [q EXCEPT ![i] = x] \in Seq(T)
<1>1. PICK l \in Nat : q \in [1 .. l -> T]
  BY LenProperties
<1>2. [q EXCEPT ![i] = x] \in [1 .. l -> T]
  BY <1>1
<1>3. QED
  BY <1>2, SeqDef

LEMMA FiniteThings ==
    ASSUME RedisAssumption, NEW w
    PROVE  Cardinality(Everything(w)) \in Nat
<1>1. Everything(w) \subseteq Elements
  BY DEF Everything
<1>2. QED
  BY <1>1, FS_Subset, FS_CardinalityType DEF RedisAssumption

LEMMA RunningOn ==
    ASSUME RedisAssumption, RedisInv, run_on
    PROVE  RedisInv'
<1>1. /\ UNCHANGED <<cluster, where, walk>> /\ Nodes' = Nodes /\ Walked /\ walk.next = "more"
  BY DEF run_on, Nodes, RedisInv
<1>2. PICK shape, words : /\ shape = classify(walk.kind).shape
                          /\ words = [walk.kind EXCEPT ![at_cursor(shape)] = Num(walk.cursor)]
  OBVIOUS
<1>3. command' = [NoCommand EXCEPT !.at = "follow", !.words = words, !.shape = shape,
                                   !.cursor = walk.cursor]
  BY <1>2 DEF run_on
<1>4. walk.kind \in Sentences /\ walk.kind # <<>> /\ ~ (cluster /\ shape = "ScanKeys")
  BY <1>1, <1>2 DEF Walked
<1>5. words \in Sentences
  <2>1. PICK num : num = Num(walk.cursor)
    OBVIOUS
  <2>2. num \in Tokens
    BY <1>1, <2>1 DEF Num, Walked, Tokens
  <2>3. QED
    BY <1>2, <1>4, <2>1, <2>2, OneReplaced DEF Sentences
<1>6. /\ command'.at = "follow" /\ command'.words = words /\ command'.shape = shape /\ command'.node = 1
      /\ command'.items = <<>> /\ command'.found = <<>> /\ command'.complete = TRUE
      /\ IsACommand(command')
  BY <1>3 DEF IsACommand, NoCommand
<1>7. CommandUnderway'
  <2>1. PICK k : k = wanted(words) /\ k \in 1 .. MaxRows
    BY <1>5, RowsWanted
  <2>2. wanted(command.words)' = wanted(words)
    BY <1>6 DEF wanted
  <2>3. Len(command'.found) <= k
    BY <1>6, <2>1 DEF RedisAssumption
  <2>4. Len(command'.found) <= wanted(command.words)'
    BY <2>1, <2>2, <2>3, Zenon
  <2>5. <<>> \in Seq(Elements)
    OBVIOUS
  <2>6. ~ node_by_node'
    BY <1>1, <1>4, <1>6 DEF node_by_node
  <2>7. QED
    BY <1>1, <1>2, <1>4, <1>5, <1>6, <2>4, <2>5, <2>6 DEF CommandUnderway
<1>8. QED
  BY <1>1, <1>6, <1>7 DEF RedisInv, Walked, Everything, ClusterScanIsWhole, Places

LEMMA Measuring ==
    ASSUME RedisAssumption, RedisInv, check_size
    PROVE  RedisInv'
<1>1. command.at = "measure" /\ CommandUnderway
  BY DEF check_size, RedisInv
<1>2. CASE gives_up
  BY <1>2, GivingUp DEF gives_up
<1>3. CASE command' = [command EXCEPT !.at = "read"] /\ UNCHANGED <<cluster, where, walk, changed>>
  <2>1. /\ command'.at = "read" /\ command'.words = command.words /\ command'.shape = command.shape
        /\ command'.node = command.node /\ command'.cursor = command.cursor
        /\ command'.items = command.items /\ command'.found = command.found
        /\ command'.complete = command.complete
        /\ IsACommand(command')
    BY <1>3 DEF IsACommand, RedisInv
  <2>2. wanted(command.words)' = wanted(command.words)
    BY <2>1 DEF wanted
  <2>3. CommandUnderway'
    BY <1>1, <1>3, <2>1, <2>2 DEF CommandUnderway, FollowedSoFar, node_by_node
  <2>4. Nodes' = Nodes
    BY <1>3 DEF Nodes
  <2>5. QED
    BY <1>3, <2>1, <2>3, <2>4 DEF RedisInv, Walked, Everything, ClusterScanIsWhole, Places
<1>4. QED
  BY <1>2, <1>3 DEF check_size

LEMMA Sending ==
    ASSUME RedisAssumption, RedisInv, send
    PROVE  RedisInv'
<1>1. command.at = "read" /\ CommandUnderway /\ Walked
  BY DEF send, RedisInv
<1>2. PICK n : n = asked_for(command.words, where)
  OBVIOUS
<1>3. CASE gives_up
  BY <1>3, GivingUp DEF gives_up
<1>4. CASE ~ over_cap(n) /\ ended({}, n, "none", 0) /\ UNCHANGED <<cluster, where, changed>>
  <2>1. n \in Nat
    <3>1. command.words = walk.kind /\ walk.kind \in Sentences /\ walk.kind # <<>>
          /\ classify(walk.kind).shape # "refused"
      BY <1>1 DEF CommandUnderway, Walked
    <3>2. QED
      BY <1>2, <3>1, LetThrough, FiniteThings
  <2>2. n <= MaxRows
    BY <1>4, <2>1 DEF over_cap, RedisAssumption
  <2>3. QED
    BY <1>1, <1>4, <2>1, <2>2, Ending
<1>5. QED
  BY <1>2, <1>3, <1>4 DEF send

LEMMA Changing ==
    ASSUME RedisAssumption, RedisInv, changes
    PROVE  RedisInv'
<1>1. PICK e \in Elements, p \in Places(Nodes) :
         /\ where' = [where EXCEPT ![e] = p] /\ walk' = [walk EXCEPT !.stable = @ \ {e}]
         /\ UNCHANGED <<cluster, command>>
  BY DEF changes
<1>2. /\ walk'.rows = walk.rows /\ walk'.next = walk.next /\ walk'.cursor = walk.cursor
      /\ walk'.stable = walk.stable \ {e} /\ walk'.kind = walk.kind /\ walk'.last = walk.last
      /\ IsAWalk(walk')
  BY <1>1 DEF IsAWalk, RedisInv
<1>3. /\ where' \in [Elements -> Places(Nodes)] /\ Nodes' = Nodes
      /\ \A x \in Elements : x # e => where'[x] = where[x]
  BY <1>1 DEF RedisInv, Nodes
<1>4. Walked'
  BY <1>1, <1>2, <1>3 DEF RedisInv, Walked, Everything
<1>5. ClusterScanIsWhole'
  BY <1>1, <1>2 DEF RedisInv, ClusterScanIsWhole
<1>6. ASSUME CommandUnderway PROVE CommandUnderway'
  <2>1. wanted(command.words)' = wanted(command.words)
    BY <1>1 DEF wanted
  <2>2. FollowedSoFar => FollowedSoFar'
    <3>1. walk.stable \subseteq Elements
      BY DEF RedisInv, Walked, Everything
    <3>2. \A x \in walk'.stable : x \in walk.stable /\ where'[x] = where[x]
      BY <1>2, <1>3, <3>1
    <3>3. QED
      BY <1>1, <3>2 DEF FollowedSoFar
  <2>3. QED
    BY <1>1, <1>2, <1>6, <2>1, <2>2 DEF CommandUnderway, node_by_node
<1>7. QED
  BY <1>1, <1>2, <1>3, <1>4, <1>5, <1>6 DEF RedisInv, Places

\* A walk hands out no more than is wanted, and drops something only when it has that much.
LEMMA Truncating ==
    ASSUME RedisAssumption, CommandUnderway, NEW items \in Seq(Elements)
    PROVE  /\ truncated(items) \in Seq(Elements) /\ Len(truncated(items)) \in Nat
           /\ Len(command.found) + Len(truncated(items)) <= wanted(command.words)
           /\ Len(command.found) + Len(truncated(items)) < wanted(command.words) =>
                 truncated(items) = items
<1>1. PICK w, l : w = wanted(command.words) /\ l = Len(command.found)
  OBVIOUS
<1>2. w \in 1 .. MaxRows /\ l \in Nat /\ l <= w
  BY <1>1, RowsWanted DEF CommandUnderway
<1>3. w \in Nat /\ w - l \in Nat
  BY <1>2 DEF RedisAssumption
<1>4. PICK k \in Nat, n \in Nat : k = w - l /\ n = Len(items)
  BY <1>3
<1>5. PICK m : m = Min({k, n})
  OBVIOUS
<1>6. m = (IF k <= n THEN k ELSE n)
  BY <1>5, OfTwo
<1>7. m \in 0 .. n /\ m <= k
  BY <1>6
<1>8. truncated(items) = SubSeq(items, 1, m)
  BY <1>1, <1>4, <1>5 DEF truncated, want
<1>9. SubSeq(items, 1, m) \in Seq(Elements) /\ Len(SubSeq(items, 1, m)) = m
  BY <1>4, <1>7
<1>10. m = n => SubSeq(items, 1, m) = items
  BY <1>4
<1>11. l + m <= w /\ (l + m < w => m = n)
  BY <1>2, <1>3, <1>4, <1>6
<1>12. PICK t : t = truncated(items)
  OBVIOUS
<1>13. t \in Seq(Elements) /\ Len(t) = m /\ (m = n => t = items)
  BY <1>8, <1>9, <1>10, <1>12
<1>14. Len(t) \in Nat /\ l + Len(t) <= w /\ (l + Len(t) < w => t = items)
  BY <1>7, <1>11, <1>13
<1>15. QED
  BY <1>1, <1>12, <1>13, <1>14

LEMMA Following ==
    ASSUME RedisAssumption, RedisInv, follow
    PROVE  RedisInv'
<1>1. command.at = "follow" /\ CommandUnderway /\ Walked /\ UNCHANGED <<cluster, where, changed>>
  BY DEF follow, RedisInv
<1>2. Nodes' = Nodes
  BY <1>1 DEF Nodes
<1>3. PICK last \in (command.cursor + 1) .. Buckets :
         LET page == Page(where, command.node, command.cursor + 1, last)
             items == command.items \o page
             onward == IF last = Buckets THEN 0 ELSE last
         IN  IF onward = 0 \/ Len(items) >= want \/ command.calls + 1 = MAX_SCAN_CALLS
             THEN node_done(items, onward)
             ELSE /\ command' = [command EXCEPT !.items = items, !.cursor = onward, !.calls = @ + 1]
                  /\ UNCHANGED walk
  BY Zenon DEF follow
<1>4. PICK S, page, items, onward :
         /\ S = {e \in Elements : where[e] \in {command.node} \X ((command.cursor + 1) .. last)}
         /\ page = SetToSeq(S) /\ items = command.items \o page
         /\ onward = (IF last = Buckets THEN 0 ELSE last)
  OBVIOUS
<1>5. page \in Seq(S) /\ ToSet(page) = S /\ S \subseteq Elements
  <2>1. S \subseteq Elements /\ IsFiniteSet(S)
    BY <1>4, FS_Subset DEF RedisAssumption
  <2>2. QED
    BY <1>4, <2>1, ListedOnce
<1>6. items \in Seq(Elements) /\ ToSet(items) = ToSet(command.items) \union S
  <2>1. page \in Seq(Elements) /\ command.items \in Seq(Elements)
    BY <1>1, <1>5 DEF CommandUnderway
  <2>2. ToSet(command.items \o page) = ToSet(command.items) \union ToSet(page)
    BY <2>1, JoinedSets
  <2>3. command.items \o page \in Seq(Elements)
    BY <2>1
  <2>4. QED
    BY <1>4, <1>5, <2>2, <2>3
<1>7. onward \in Int
  BY <1>4
<1>8. \A e \in walk.stable : e \in Elements /\ where[e] \in Nodes \X (1 .. Buckets)
  BY <1>1 DEF Walked, Everything, RedisInv, Places
\* A page goes on from the one before it.
<1>9. ASSUME node_by_node, command.complete, NEW e \in walk.stable, where[e][1] = command.node,
             where[e][2] <= last
      PROVE  e \in ToSet(items)
  <2>1. command.cursor \in Nat /\ FollowedSoFar
    BY <1>1, <1>9 DEF CommandUnderway
  <2>2. where[e][2] \in 1 .. Buckets /\ where[e] = <<where[e][1], where[e][2]>> /\ e \in Elements
    BY <1>8, <1>9
  <2>3. CASE where[e][2] <= command.cursor
    BY <1>6, <1>9, <2>1, <2>3 DEF FollowedSoFar
  <2>4. CASE ~ where[e][2] <= command.cursor
    <3>1. where[e][2] \in (command.cursor + 1) .. last
      BY <1>9, <2>1, <2>2, <2>4
    <3>2. e \in S
      BY <1>4, <1>9, <2>2, <3>1
    <3>3. QED
      BY <1>6, <3>2
  <2>5. QED
    BY <2>3, <2>4
<1>10. CASE ~ (onward = 0 \/ Len(items) >= want \/ command.calls + 1 = MAX_SCAN_CALLS)
  <2>1. PICK calls : calls = command.calls + 1
    OBVIOUS
  <2>2. command' = [command EXCEPT !.items = items, !.cursor = onward, !.calls = calls]
        /\ UNCHANGED walk
    BY <1>3, <1>4, <1>10, <2>1 DEF Page
  <2>3. /\ command'.at = command.at /\ command'.words = command.words /\ command'.shape = command.shape
        /\ command'.node = command.node /\ command'.cursor = onward
        /\ command'.items = items /\ command'.found = command.found
        /\ command'.complete = command.complete
        /\ IsACommand(command')
    BY <2>2 DEF IsACommand, RedisInv
  <2>4. wanted(command.words)' = wanted(command.words)
    BY <2>3 DEF wanted
  <2>5. onward = last
    BY <1>4, <1>10
  <2>6. ASSUME node_by_node PROVE onward \in Nat /\ FollowedSoFar'
    <3>1. command.cursor \in Nat /\ FollowedSoFar
      BY <1>1, <2>6 DEF CommandUnderway
    <3>2. onward \in Nat
      BY <2>5, <3>1
    <3>3. QED
      BY <1>1, <1>9, <2>2, <2>3, <2>5, <2>6, <3>1, <3>2 DEF FollowedSoFar
  <2>7. CommandUnderway'
    BY <1>1, <1>6, <2>2, <2>3, <2>4, <2>6 DEF CommandUnderway, node_by_node
  <2>8. QED
    BY <1>1, <1>2, <2>2, <2>3, <2>7 DEF RedisInv, Walked, Everything, ClusterScanIsWhole, Places
<1>11. CASE node_done(items, onward)
  <2>1. PICK t : t = truncated(items)
    OBVIOUS
  <2>2. PICK w, l, k : w = wanted(command.words) /\ l = Len(command.found) /\ k = Len(t)
    OBVIOUS
  <2>3. /\ t \in Seq(Elements) /\ k \in Nat /\ l \in Nat /\ l + k <= w /\ (l + k < w => t = items)
        /\ w \in Nat /\ w <= MaxRows
    <3>1. t \in Seq(Elements) /\ k \in Nat /\ l + k <= w /\ (l + k < w => t = items)
      BY <1>1, <1>6, <2>1, <2>2, Truncating
    <3>2. w \in 1 .. MaxRows /\ l \in Nat
      BY <1>1, <2>2, RowsWanted DEF CommandUnderway
    <3>3. QED
      BY <3>1, <3>2 DEF RedisAssumption
  <2>4. PICK found : found = command.found \o t
    OBVIOUS
  <2>5. found \in Seq(Elements) /\ Len(found) = l + k /\ ToSet(found) = ToSet(command.found) \union ToSet(t)
    <3>1. command.found \in Seq(Elements)
      BY <1>1 DEF CommandUnderway
    <3>2. ToSet(command.found \o t) = ToSet(command.found) \union ToSet(t)
      BY <2>3, <3>1, JoinedSets
    <3>3. command.found \o t \in Seq(Elements) /\ Len(command.found \o t) = Len(command.found) + Len(t)
      BY <2>3, <3>1
    <3>4. QED
      BY <2>2, <2>4, <3>2, <3>3
  <2>6. PICK full, complete : full = (Len(found) >= w) /\ complete = still_complete(onward)
    OBVIOUS
  <2>7. full \in BOOLEAN /\ complete \in BOOLEAN
    BY <2>6 DEF still_complete
  \* What the nodes so far have given, when none of it was dropped.
  <2>8. ASSUME node_by_node, complete, ~ full, NEW e \in walk.stable, where[e][1] <= command.node
        PROVE  e \in ToSet(found)
    <3>1. FollowedSoFar /\ command.complete /\ onward = 0 /\ command.cursor \in Nat
      BY <1>1, <2>6, <2>8 DEF CommandUnderway, still_complete
    <3>2. t = items
      <4>1. ~ Len(found) >= w
        BY <2>6, <2>8, Zenon
      <4>2. l + k < w
        BY <2>3, <2>5, <4>1
      <4>3. QED
        BY <2>3, <4>2
    <3>3. last = Buckets
      BY <1>4, <3>1
    <3>4. where[e][1] \in Int /\ where[e][2] <= Buckets
      BY <1>8, <2>8 DEF Nodes
    <3>5. CASE where[e][1] < command.node
      BY <2>5, <2>8, <3>1, <3>5 DEF FollowedSoFar
    <3>6. CASE where[e][1] = command.node
      BY <1>9, <2>5, <2>8, <3>1, <3>2, <3>3, <3>4, <3>6
    <3>7. QED
      BY <1>1, <2>8, <3>4, <3>5, <3>6 DEF CommandUnderway
  <2>9. CASE ~ node_by_node
    <3>1. PICK outcome : outcome = (IF onward = 0 THEN "0" ELSE "more")
      OBVIOUS
    <3>2. ended(ToSet(t), k, outcome, onward)
      BY <1>11, <2>1, <2>2, <2>9, <3>1 DEF node_done
    <3>3. ~ (cluster /\ command.shape = "ScanKeys")
      BY <2>9 DEF node_by_node
    <3>4. k \in Int /\ k <= MaxRows
      BY <2>3 DEF RedisAssumption
    <3>5. QED
      BY <1>1, <1>7, <2>9, <3>2, <3>3, <3>4, Ending
  <2>10. CASE node_by_node /\ (full \/ command.node = Max(Nodes))
    <3>1. PICK whole_or_not : whole_or_not = (IF complete /\ ~ full THEN "0" ELSE "partial")
      OBVIOUS
    <3>2. ended(ToSet(found), Len(found), whole_or_not, 0)
      BY <1>11, <2>1, <2>2, <2>4, <2>6, <2>10, <3>1 DEF node_done
    <3>3. whole_or_not = "0" => walk.stable \subseteq ToSet(found)
      <4> SUFFICES ASSUME complete, ~ full, NEW e \in walk.stable PROVE e \in ToSet(found)
        BY <3>1
      <4>1. Nodes = 1 .. 2
        BY <2>10 DEF node_by_node, Nodes
      <4>2. Max(1 .. 2) = 2
        BY LastOfTwo
      <4>3. where[e][1] <= command.node
        BY <1>8, <2>10, <4>1, <4>2
      <4>4. QED
        BY <2>8, <2>10, <4>3
    <3>4. Len(found) \in Int /\ Len(found) <= MaxRows
      BY <2>3, <2>5 DEF RedisAssumption
    <3>5. whole_or_not # "more"
      BY <3>1
    <3>6. QED
      BY <1>1, <3>2, <3>3, <3>4, <3>5, Ending
  <2>11. CASE node_by_node /\ ~ full /\ command.node # Max(Nodes)
    <3>1. PICK node : node = command.node + 1
      OBVIOUS
    <3>2. command' = [command EXCEPT !.node = node, !.cursor = 0, !.calls = 0,
                                     !.items = <<>>, !.found = found, !.complete = complete]
          /\ UNCHANGED walk
      BY <1>11, <2>1, <2>2, <2>4, <2>6, <2>11, <3>1 DEF node_done
    <3>3. /\ command'.at = command.at /\ command'.words = command.words /\ command'.shape = command.shape
          /\ command'.node = node /\ command'.cursor = 0
          /\ command'.items = <<>> /\ command'.found = found
          /\ command'.complete = complete
          /\ IsACommand(command')
      BY <3>2 DEF IsACommand, RedisInv
    <3>4. node = 2 /\ command.node = 1
      <4>1. Nodes = 1 .. 2
        BY <2>11 DEF node_by_node, Nodes
      <4>2. Max(1 .. 2) = 2
        BY LastOfTwo
      <4>3. QED
        BY <1>1, <2>11, <3>1, <4>1, <4>2 DEF CommandUnderway
    <3>5. wanted(command.words)' = wanted(command.words)
      BY <3>3 DEF wanted
    <3>6. FollowedSoFar'
      <4>1. ASSUME complete, NEW e \in walk.stable
            PROVE  /\ where[e][1] < node => e \in ToSet(found)
                   /\ ~ where[e][2] <= 0
        <5>1. where[e][1] \in {1, 2} /\ where[e][2] \in 1 .. Buckets
          BY <1>8, <4>1 DEF Nodes
        <5>2. ~ where[e][2] <= 0
          BY <5>1
        <5>3. where[e][1] < node => where[e][1] <= command.node
          BY <3>4, <5>1
        <5>4. QED
          BY <2>8, <2>11, <4>1, <5>2, <5>3
      <4>2. QED
        BY <1>1, <3>2, <3>3, <4>1 DEF FollowedSoFar
    <3>7. Len(found) <= wanted(command.words)
      BY <2>2, <2>3, <2>5
    <3>8. <<>> \in Seq(Elements)
      OBVIOUS
    <3>9. CommandUnderway'
      BY <1>1, <2>5, <2>7, <3>2, <3>3, <3>4, <3>5, <3>6, <3>7, <3>8 DEF CommandUnderway, node_by_node
    <3>10. QED
      BY <1>1, <1>2, <3>2, <3>3, <3>9 DEF RedisInv, Walked, Everything, ClusterScanIsWhole, Places
  <2>12. QED
    BY <2>9, <2>10, <2>11
<1>12. QED
  BY <1>3, <1>4, <1>10, <1>11 DEF Page

LEMMA RedisSafe ==
    ASSUME RedisAssumption
    PROVE  RedisSpec => []RedisInv
<1>1. RedisInit => RedisInv
  <2> SUFFICES ASSUME RedisInit PROVE RedisInv
    OBVIOUS
  <2>1. cluster \in BOOLEAN /\ where \in [Elements -> Places(Nodes)]
    BY DEF RedisInit
  <2>2. Walked
    BY DEF RedisInit, Walked, NoWalk, RedisAssumption
  <2>3. QED
    BY <2>1, <2>2 DEF RedisInit, RedisInv, IsACommand, IsAWalk, NoCommand, NoWalk, ClusterScanIsWhole
<1>2. ASSUME RedisInv, [RedisNext]_RedisVars PROVE RedisInv'
  <2>1. CASE send_fails
    BY <1>2, <2>1, GivingUp DEF send_fails, gives_up
  <2>2. CASE UNCHANGED RedisVars
    <3>1. /\ UNCHANGED <<cluster, where, command, walk>> /\ Nodes' = Nodes
          /\ wanted(command.words)' = wanted(command.words)
      BY <2>2 DEF RedisVars, Nodes, wanted
    <3>2. CommandUnderway => CommandUnderway'
      BY <3>1 DEF CommandUnderway, FollowedSoFar, node_by_node
    <3>3. QED
      BY <1>2, <3>1, <3>2 DEF RedisInv, Walked, Everything, ClusterScanIsWhole, Places
  <2>3. QED
    BY <1>2, <2>1, <2>2, Running, RunningOn, Measuring, Sending, Following, Changing DEF RedisNext
<1>3. QED
  BY <1>1, <1>2, PTL DEF RedisSpec

(***************************************************************************)
(* A scan of a cluster that says it is complete has every key that stood   *)
(* still, for any number of keys and buckets, any rows a page may hold and *)
(* however the server cuts its pages (scan_cluster).                       *)
(***************************************************************************)
THEOREM ClusterScansAreWhole ==
    ASSUME RedisAssumption
    PROVE  RedisSpec => []ClusterScanIsWhole
<1>1. RedisInv => ClusterScanIsWhole
  BY DEF RedisInv
<1>2. QED
  BY <1>1, RedisSafe, PTL

(***************************************************************************)
(* No answer has more rows than its caller allowed, whatever the command   *)
(* and however the collection grew (adapter.rs, run).                      *)
(***************************************************************************)
THEOREM AnswersStayWithinTheCap ==
    ASSUME RedisAssumption
    PROVE  RedisSpec => []AnswersFitTheCap
<1>1. RedisInv => AnswersFitTheCap
  BY DEF RedisInv, Walked, AnswersFitTheCap
<1>2. QED
  BY <1>1, RedisSafe, PTL

(***************************************************************************)
(* A command that is let through asks for no more than a result may hold:  *)
(* what is not measured is small by its own words (read_only.rs).          *)
(***************************************************************************)
THEOREM WhatIsSentIsBounded ==
    ASSUME RedisAssumption
    PROVE  RedisSpec => [][NothingIsReadBlind]_RedisVars
<1>1. ASSUME RedisInv, [RedisNext]_RedisVars PROVE [NothingIsReadBlind]_RedisVars
  <2> SUFFICES ASSUME RedisNext, command.at # "read", command'.at = "read"
               PROVE  asked_for(command'.words, where) <= MAX_RESULT_ROWS
    BY <1>1 DEF NothingIsReadBlind
  <2>1. CASE run_command
    <3>1. PICK words \in Requests :
             LET verdict == classify(words)
                 cursor == IF verdict.shape \in Scans THEN words[at_cursor(verdict.shape)].n ELSE 0
                 fresh == [NoWalk EXCEPT !.stable = Everything(where), !.pages = walk.pages,
                                         !.kind = words]
             IN  IF \/ verdict.shape = "refused"
                    \/ verdict.shape = "ScanKeys" /\ cluster /\ cursor # 0
                 THEN /\ command' = NoCommand
                      /\ walk' = [NoWalk EXCEPT !.pages = walk.pages + 1]
                 ELSE /\ command' = [NoCommand EXCEPT
                           !.at = IF verdict.guard # "none" THEN "measure"
                                  ELSE IF verdict.shape \in Scans THEN "follow" ELSE "read",
                           !.words = words, !.shape = verdict.shape, !.cursor = cursor]
                      /\ walk' = fresh
      BY Zenon, <2>1 DEF run_command
    <3>2. words \in Sentences
      BY DEF RedisAssumption
    <3>3. PICK shape, guard, phase :
             /\ shape = classify(words).shape /\ guard = classify(words).guard
             /\ phase = (IF guard # "none" THEN "measure"
                      ELSE IF shape \in Scans THEN "follow" ELSE "read")
      OBVIOUS
    <3>4. shape # "refused" /\ command'.words = words /\ phase = "read"
      <4>1. PICK cursor : cursor = (IF shape \in Scans THEN words[at_cursor(shape)].n ELSE 0)
        OBVIOUS
      <4>2. command' # NoCommand
        BY DEF NoCommand
      <4>3. shape # "refused" /\ command' = [NoCommand EXCEPT !.at = phase, !.words = words, !.shape = shape,
                                                            !.cursor = cursor]
        BY <3>1, <3>3, <4>1, <4>2
      <4>4. QED
        BY <4>3 DEF NoCommand
    <3>5. guard = "none" /\ words # <<>>
      BY <3>3, <3>4 DEF classify, NotARead
    <3>6. asked_for(words, where) <= MAX_RESULT_ROWS
      BY <3>2, <3>3, <3>4, <3>5, LetThrough, FiniteThings
    <3>7. QED
      BY <3>4, <3>6
  <2>2. CASE check_size
    <3>1. command.at = "measure" /\ CommandUnderway /\ Walked
      BY <1>1, <2>2 DEF check_size, RedisInv
    <3>2. PICK size : size = Cardinality(Everything(where))
      OBVIOUS
    <3>3. size \in Nat
      BY <3>2, FiniteThings
    <3>4. ~ size > MaxRows /\ command' = [command EXCEPT !.at = "read"]
      BY <2>2, <3>2 DEF check_size, gives_up, NoCommand
    <3>5. command'.words = walk.kind /\ walk.kind \in Sentences /\ walk.kind # <<>>
          /\ classify(walk.kind).shape # "refused"
      BY <1>1, <3>1, <3>4 DEF RedisInv, CommandUnderway, Walked
    <3>6. size <= MaxRows
      BY <3>3, <3>4 DEF RedisAssumption
    <3>7. asked_for(walk.kind, where) \in Nat /\ asked_for(walk.kind, where) <= MaxRows
      BY <3>2, <3>3, <3>5, <3>6, LetThrough
    <3>8. QED
      BY <3>5, <3>7 DEF RedisAssumption
  <2>3. CASE run_on \/ send \/ follow \/ send_fails \/ changes
    <3>1. command'.at # "read"
      <4>1. CASE run_on
        BY <4>1 DEF run_on, NoCommand
      <4>2. CASE send \/ send_fails
        BY <4>2 DEF send, send_fails, gives_up, ended, NoCommand
      <4>3. CASE follow
        <5>1. \/ command' = NoCommand
              \/ \E items, onward, calls :
                    command' = [command EXCEPT !.items = items, !.cursor = onward, !.calls = calls]
              \/ \E node, found, complete :
                    command' = [command EXCEPT !.node = node, !.cursor = 0, !.calls = 0,
                                               !.items = <<>>, !.found = found, !.complete = complete]
          <6>1. PICK last, page, items, onward :
                   IF onward = 0 \/ Len(items) >= want \/ command.calls + 1 = MAX_SCAN_CALLS
                   THEN node_done(items, onward)
                   ELSE command' = [command EXCEPT !.items = items, !.cursor = onward, !.calls = @ + 1]
            BY Zenon, <4>3 DEF follow
          <6>2. CASE node_done(items, onward)
            BY <6>2 DEF node_done, ended
          <6>3. CASE command' = [command EXCEPT !.items = items, !.cursor = onward, !.calls = @ + 1]
            <7>1. command' = [command EXCEPT !.items = items, !.cursor = onward, !.calls = command.calls + 1]
              BY <1>1, <6>3 DEF RedisInv, IsACommand
            <7>2. QED
              BY <7>1
          <6>4. QED
            BY <6>1, <6>2, <6>3
        <5>2. NoCommand.at = "idle" /\ command.at = "follow"
          BY <4>3 DEF follow, NoCommand
        <5>3. QED
          BY <1>1, <5>1, <5>2 DEF RedisInv, IsACommand
      <4>4. CASE changes
        BY <4>4 DEF changes
      <4>5. QED
        BY <2>3, <4>1, <4>2, <4>3, <4>4
    <3>2. QED
      BY <3>1
  <2>4. QED
    BY <2>1, <2>2, <2>3 DEF RedisNext
<1>2. QED
  BY <1>1, RedisSafe, PTL DEF RedisSpec
================================================================================
