------------------------------ MODULE MCDatabases ------------------------------
(***************************************************************************)
(* The components between the program and a database, checked in one run   *)
(* as those of MCDesk are: part says which of them a behaviour is about,   *)
(* s1, s2, ... are that component's variables.                             *)
(***************************************************************************)
EXTENDS Integers, FiniteSets, SequencesExt, Catalog

CONSTANT Off   \* a variable not in use; None and Failed, nothing and a failed read, are the model values of Catalog

VARIABLES part, s1, s2, s3, s4, s5, s6, s7, s8

all == <<s1, s2, s3, s4, s5, s6, s7, s8>>
-------------------------------------------------------------------------------
(***************************************************************************)
(* What the readers of commands are tried on: the command lines of         *)
(* RedisReads, the commands and the documents of DocumentReads, the texts  *)
(* of SqlPolicy, and the names, texts and cells of which SqlScript makes   *)
(* its scripts; and the pairs of databases SchemaReads is tried on.        *)
(***************************************************************************)

\* The words of a command line, as RedisReads has them.
Word(s) == [s |-> s, n |-> 0]
Num(n) == [s |-> "#", n |-> n]

Key == Word("k")
Scan(rest) == <<Word("SCAN"), Num(0)>> \o rest
Lines ==
    { Scan(<<>>), Scan(<<Word("COUNT"), Num(1)>>), Scan(<<Word("COUNT"), Num(9)>>),
      Scan(<<Word("MATCH"), Word("p"), Word("COUNT"), Num(3)>>), Scan(<<Word("MATCH")>>),
      Scan(<<Word("TYPE"), Word("set")>>), <<Word("SCAN"), Num(1)>>,
      <<Word("SSCAN"), Key, Num(0)>>, <<Word("SSCAN"), Key, Num(0), Word("NOVALUES")>>,
      <<Word("HSCAN"), Key, Num(0), Word("NOVALUES")>>,
      <<Word("ZSCAN"), Key, Num(0), Word("COUNT"), Num(2)>>,
      <<Word("SMEMBERS"), Key>>, <<Word("HGETALL"), Key>>, <<Word("HVALS"), Key, Key>>,
      <<Word("LRANGE"), Key, Num(0), Num(-1)>>, <<Word("LRANGE"), Key, Num(-3), Num(-1)>>,
      <<Word("LRANGE"), Key, Num(0), Num(1)>>, <<Word("LRANGE"), Key, Num(0), Num(3)>>,
      <<Word("ZRANGE"), Key, Num(0), Num(-1), Word("REV"), Word("WITHSCORES")>>,
      <<Word("ZRANGE"), Key, Num(0), Num(-1), Word("BYSCORE")>>,
      <<Word("XRANGE"), Key, Word("-"), Word("+"), Word("COUNT"), Num(2)>>,
      <<Word("XRANGE"), Key, Word("-"), Word("+")>>, <<Word("KEYS"), Word("p")>>,
      <<Word("GET"), Key>>, <<Word("DEL"), Key>>, <<Word("MEMORY"), Word("USAGE"), Key>>,
      <<Word("MEMORY"), Word("PURGE")>>, <<Word("ZRANK"), Key, Key, Word("WITHSCORE")>>,
      <<Word("OBJECT"), Word("ENCODING"), Key>>, <<Word("XINFO"), Word("STREAM"), Key>>,
      <<Word("INFO")>>, <<Word("PING")>>, <<Word("MGET"), Key, Key>>, <<Word("MGET")>>,
      <<Word("EXISTS"), Key>>, <<Word("HMGET"), Key, Key>>, <<Word("HGET"), Key, Key>>,
      <<Word("GETRANGE"), Key, Num(0), Num(1)>>, <<Word("UMBRA.CELLS"), Key>>,
      <<Word("DBSIZE")>>, <<>> }
-------------------------------------------------------------------------------
\* Documents, as DocumentReads has them.
Scalar(t, s) == [t |-> t, s |-> s, names |-> <<>>, sub |-> <<>>]
ArrayOf(sub) == [t |-> "array", s |-> "", names |-> <<>>, sub |-> sub]
MapOf(names, sub) == [t |-> "map", s |-> "", names |-> names, sub |-> sub]

S(s) == Scalar("string", s)
M(name, v) == MapOf(<<name>>, <<v>>)
Pipeline(stage) == MapOf(<<"aggregate", "pipeline">>, <<S("c"), ArrayOf(<<stage>>)>>)
CommandTexts ==
    { Pipeline(M("$match", M("a", S("$out")))), Pipeline(M("$out", S("copy"))),
      Pipeline(M("$match", M("$where", S("f")))), Pipeline(M("$group", M("x", M("$accumulator", S("f"))))),
      MapOf(<<"find">>, <<S("c")>>),
      MapOf(<<"find", "filter">>, <<S("c"), M("a", ArrayOf(<<M("$function", S("f"))>>))>>),
      MapOf(<<"find", "filter">>, <<S("c"), M("a", S("x"))>>),
      MapOf(<<"find", "insert">>, <<S("c"), S("c")>>),
      MapOf(<<"find", "insert", "documents">>, <<S("c"), S("c"), ArrayOf(<<>>)>>),
      MapOf(<<"insert", "documents", "find">>, <<S("c"), ArrayOf(<<>>), S("c")>>),
      MapOf(<<"insert", "find">>, <<S("c"), S("c")>>),
      MapOf(<<"find", "limit", "limit">>, <<S("c"), S("1"), S("2")>>),
      MapOf(<<"find", "find">>, <<S("c"), S("d")>>),
      MapOf(<<"filter", "find">>, <<M("a", S("x")), S("c")>>),
      MapOf(<<"listCollections", "cursor">>, <<S("1"), MapOf(<<>>, <<>>)>>),
      MapOf(<<"count", "query">>, <<S("c"), MapOf(<<"a", "$where", "a">>, <<S("x"), S("f"), S("y")>>)>>),
      MapOf(<<"count">>, <<S("c")>>), MapOf(<<>>, <<>>), ArrayOf(<<>>) }

N == Scalar("null", "")
SomeDocuments ==
    { MapOf(<<"a">>, <<S("x")>>), MapOf(<<"b">>, <<N>>), MapOf(<<"a", "b">>, <<N, Scalar("int", "1")>>),
      MapOf(<<"a">>, <<ArrayOf(<<Scalar("odd", ""), N>>)>>),
      MapOf(<<"b">>, <<M("c", Scalar("bytes", "b"))>>), MapOf(<<"a">>, <<Scalar("timestamp", "t")>>),
      MapOf(<<>>, <<>>) }
Begun == SeqOf(SomeDocuments, 2)
More == {MapOf(<<"b">>, <<N>>), MapOf(<<"c">>, <<Scalar("bool", "t")>>)}
-------------------------------------------------------------------------------
\* Trees and texts as SqlPolicy has them.
Node(op, locks, with, sub) == [op |-> op, locks |-> locks, with |-> with, sub |-> sub]
Leaf(op) == Node(op, FALSE, <<>>, <<>>)
Query(body) == Node("query", FALSE, <<>>, <<body>>)
Text(lexemes, parses, statements) ==
    [lexemes |-> lexemes, parses |-> parses, statements |-> statements]

Sel == Leaf("select")
Bodies == {Sel, Leaf("values"), Leaf("select into"), Leaf("delete"),
           Node("set", FALSE, <<>>, <<Sel, Leaf("values")>>),
           Node("set", FALSE, <<>>, <<Leaf("insert"), Sel>>),
           Node("select", FALSE, <<>>, <<Node("query", TRUE, <<>>, <<Sel>>)>>)}
Queries == {Node("query", l, w, <<b>>) : l \in BOOLEAN,
               w \in {<<>>, <<Query(Sel)>>, <<Query(Leaf("delete"))>>}, b \in Bodies}
Explained == {Node(e, FALSE, <<>>, <<s>>) :
                e \in {"explain", "explain analyze"},
                s \in {Query(Sel), Leaf("delete"), Leaf("drop"), Query(Leaf("update"))}}
Words(op) ==
    CASE op = "create user" -> <<"CREATE", "USER">> [] op = "alter role" -> <<"ALTER", "ROLE">>
      [] op = "set password" -> <<"SET", "PASSWORD">> [] op = "grant" -> <<"GRANT", "SELECT">>
      [] op = "revoke" -> <<"REVOKE", "SELECT">> [] op = "deny" -> <<"DENY", "SELECT">>
      [] op = "truncate" -> <<"TRUNCATE", "TABLE">> [] op = "drop" -> <<"DROP", "TABLE">>
      [] op = "drop function" -> <<"DROP", "FUNCTION">> [] op = "drop trigger" -> <<"DROP", "TRIGGER">>
      [] op = "create table" -> <<"CREATE", "TABLE">> [] op = "create function" -> <<"CREATE", "FUNCTION">>
      [] op = "alter table" -> <<"ALTER", "TABLE">> [] op = "insert" -> <<"INSERT", "INTO">>
      [] op = "delete" -> <<"DELETE", "FROM">> [] OTHER -> <<"MERGE", "INTO">>
Written == {"create user", "alter role", "set password", "grant", "revoke", "deny", "truncate", "drop",
            "drop function", "drop trigger", "create table", "create function", "alter table",
            "insert", "delete", "merge"}
Beginning(w, c) == CASE c = 1 -> <<w[1], " ", w[2]>>
                 [] c = 2 -> <<" ", "/* */", w[1], "-- \n", w[2]>>
                 [] OTHER -> <<"-- \n", " ", w[1], "/* */", " ", w[2], "(">>
TriedTexts ==
    {Text(<<"SELECT", " ", "(">>, TRUE, <<q>>) : q \in Queries}
    \union {Text(<<"EXPLAIN", " ", "SELECT">>, TRUE, <<q>>) : q \in Explained}
    \union {Text(Beginning(Words(op), c), p, <<Leaf(op)>>) : op \in Written, c \in 1 .. 3, p \in BOOLEAN}
    \union {Text(<<"SELECT", " ">>, TRUE, <<Query(Sel), Leaf("commit"), Leaf("delete")>>),
            Text(<<"INSERT", " ">>, TRUE, <<Leaf("insert"), Leaf("drop")>>),
            Text(<<"SELECT", " ">>, TRUE, <<Query(Sel), Leaf("insert")>>),
            Text(<<" ">>, TRUE, <<>>), Text(<<"(", "DROP">>, FALSE, <<>>)}
-------------------------------------------------------------------------------
Alphabet == {"'", "\\", ";", "$", "E", "-", "\n"}
ShortTexts == BoundedSeq(Alphabet, 2) \cup {<<"$", "E", "$">>, <<"'", "\\", "'">>}
SomeNames == {<<"\"", "backtick", "'">>, <<"-", "-">>}
SomeCells == [type : {"Integer", "Blob"}, text : {<<>>}]
             \cup [type : {"Real"}, text : {"finite", "nan", "infinite"}]
             \cup [type : {"Json"}, text : {<<"'", ";">>}]
-------------------------------------------------------------------------------
\* Pairs of databases.  Each differs from Base in one thing: the order of columns,
\* a key, a default, a relationship, an index; or one side cannot be read, or
\* loses a table meanwhile.
A == column("a", "int", FALSE, None)
B == column("b", "int", TRUE, None)
\* Foreign keys: of two columns, of one, and of two that name no columns.
K1 == [name |-> 1, from |-> <<"a", "b">>, table |-> "u", to |-> <<"b", "a">>]
K2 == [name |-> 2, from |-> <<"b">>, table |-> "u", to |-> <<"a">>]
KI == [name |-> 2, from |-> <<"a", "b">>, table |-> "u", to |-> <<>>]
\* Indexes: a plain one, a constraint's, the primary key's, one of an expression.
X1 == [name |-> 1, parts |-> <<"a", "b">>, unique |-> FALSE, origin |-> "index"]
X2 == [name |-> 2, parts |-> <<"b">>, unique |-> TRUE, origin |-> "constraint"]
XP == [name |-> 3, parts |-> <<"a">>, unique |-> TRUE, origin |-> "pk"]
X4 == [name |-> 4, parts |-> <<"b", Expression>>, unique |-> FALSE, origin |-> "index"]

table(columns, key, keys, indexes) ==
    [table |-> "t", columns |-> columns, key |-> key, keys |-> keys, indexes |-> indexes]
Base == table(<<A, B>>, <<"a">>, {K1}, {X1, XP})
Other == [table |-> "u", columns |-> <<A, B>>, key |-> <<"b", "a">>, keys |-> {}, indexes |-> {}]

Variants(engine) ==
    {Base,
     table(<<B, A>>, <<"a">>, {K1}, {X1, XP}),
     table(<<A, B>>, <<"a", "b">>, {K1}, {X1}),
     table(<<A, B>>, <<"b", "a">>, {K1}, {X1}),
     table(<<column("a", "int", FALSE, "serial"), B>>, <<"a">>, {K1}, {X1, XP}),
     table(<<column("a", "text", FALSE, "zero"), B>>, <<"a">>, {K1, K2}, {X1, X2, XP}),
     table(<<A, B>>, <<"a">>, {K1, K2}, {X1, XP}),
     table(<<A, B>>, <<"a">>, {[K1 EXCEPT !.to = <<"a", "b">>]}, {X1, XP}),
     table(<<A, B>>, <<"a">>, {K1}, {[X1 EXCEPT !.parts = <<"b", "a">>], XP}),
     table(<<A, B>>, <<"a">>, {K1}, {[X1 EXCEPT !.unique = TRUE], XP}),
     table(<<A, B>>, <<"a">>, {K1}, {}),
     table(<<A>>, <<>>, {}, {})}
    \cup (IF engine \in Sqlite
          THEN {table(<<A, B>>, <<"a">>, {KI}, {X1, XP}),
                table(<<A, B>>, <<"a">>, {[K2 EXCEPT !.name = 3], KI}, {X1, XP})}
          ELSE {})

compared(engine, left, right) ==
    [engine |-> engine, left |-> left, right |-> right, denied |-> {}, drops |-> 0]
Pairs ==
    {compared(e, {t, Other}, {Base, Other}) : e \in {"postgres", "mysql", "d1"}, t \in Variants("postgres")}
    \cup {compared("turso", {Base, Other}, {t, Other}) : t \in Variants("turso")}
    \cup {compared(e, {table(<<A, B>>, <<"a", "b">>, {}, {}), Other},
                      {table(<<A, B>>, <<"b", "a">>, {}, {}), Other}) : e \in Engines}
    \cup {compared(e, {[Base EXCEPT !.indexes = @ \cup {X4}], Other}, {Base, Other}) : e \in Engines}
    \cup {[compared(e, {Base, Other}, {Base}) EXCEPT !.drops = 1] : e \in Engines}
    \cup {[compared(e, {Base, Other}, {Base, Other}) EXCEPT !.denied = {<<side, "t">>}] :
             e \in Engines, side \in {"left", "right"}}
-------------------------------------------------------------------------------
\* The statements of two callers on each engine, with what may go wrong there;
\* those that share a connection wait for each other.
NoDdl == {"select", "volatile", "update"}
engine_case(engine, in_turn, faults, statements) ==
    [engine |-> engine, in_turn |-> in_turn, callers |-> {"a", "b"}, faults |-> faults,
     statements |-> statements]
EngineCases ==
    {engine_case(e, FALSE, {"statement", "commit", "drop"}, NoDdl) :
        e \in {"postgres", "aurora-dsql", "d1"}}
    \cup {engine_case(e, FALSE, {"statement", "commit", "set"}, NoDdl) : e \in {"mysql", "mariadb"}}
    \cup {engine_case(e, TRUE, {"statement"}, NoDdl \cup {"ddl"}) : e \in {"turso", "turso-remote"}}

Sessions == INSTANCE Engines WITH
    scenario <- s1, session <- s2, call <- s3, committed <- s4,
    Callers <- {"a", "b"}, Scenarios <- EngineCases, MaxStatements <- 2

ASSUME EngineCasesAssumption ==
    Sessions!TakeTurns /\ Sessions!NoImplicitCommit /\ Sessions!ModesAreTakenBack

Schema == INSTANCE SchemaReads WITH
    scenario <- s1, database <- s2, call <- s3,
    Scenarios <- Pairs, MAX_RELATIONSHIPS <- 3, MAX_SCHEMA_MATCHES <- 1

\* Tables with a history of rows, none, and one whose history is of cells.
history_case(kind, columns, rows, values, prefix, star) ==
    [kind |-> kind, columns |-> columns, rows |-> [r \in rows |-> {}], values |-> values,
     prefix |-> prefix, star |-> star]
HistoryCases ==
    {history_case("dolt", <<"a", "b">>, {<<1>>, <<2>>},
                  {<<"x", "x">>, <<"x", "NaN">>, <<"y", "NaN">>}, <<>>, TRUE),
     history_case("none", <<"a">>, {<<1>>}, {<<"x">>}, <<>>, TRUE)}
    \cup {history_case("umbrachyx", <<>>, {<<1, 1>>, <<1, 2>>, <<1, 2, 1>>, <<1, 2, 3>>, <<1, 3>>},
                       {"x"}, <<1, 2>>, star) : star \in BOOLEAN}

History == INSTANCE RowHistory WITH
    scenario <- s1, commits <- s2, call <- s3, Scenarios <- HistoryCases,
    MAX_COMMITS <- 3, DEFAULT_ROW_VERSIONS <- 2, MAX_COMMIT_LIMIT <- 3,
    CELLS_PAGE <- 2, MAX_CELL_PAGES <- 3, MAX_RESULT_ROWS <- 2

Rows == INSTANCE Results WITH
    statement <- s1, fetch <- s2, Unset <- None,
    MaxRows <- 4, MAX_RESULT_ROWS <- 3, DEFAULT_MAX_ROWS <- 1, MAX_MAX_ROWS <- 2

Redis == INSTANCE RedisReads WITH
    cluster <- s1, where <- s2, command <- s3, walk <- s4, changed <- s5,
    Elements <- {"e1", "e2", "e3"}, Buckets <- 3, Connections <- {"single", "cluster"},
    Requests <- Lines, MAX_RESULT_ROWS <- 2, MAX_SCAN_COUNT <- 3,
    DEFAULT_SCAN_ROWS <- 2, MAX_SCAN_CALLS <- 2, MaxRows <- 2, MaxChanges <- 1, MaxPages <- 2

ASSUME RedisCasesAssumption == Lines \subseteq Seq([s : STRING, n : Int])

Documents == INSTANCE DocumentReads WITH
    docs <- s1, ids <- s2, call <- s3, answer <- s4, changed <- s5,
    Texts <- CommandTexts, Stores <- Begun, Inserted <- More,
    Ids <- {1, 2, 3}, COLLECTION_PAGE_SIZE <- 1, SCHEMA_SAMPLE_SIZE <- 2,
    MAX_RESULT_ROWS <- 2, MaxRows <- 1, MaxChanges <- 1

Grid == INSTANCE Browse WITH
    tables <- s1, keyed <- s2, selected <- s3, grid <- s4, call <- s5, staged <- s6,
    saving <- s7, changes <- s8, Places <- {"a", "a2", "b"},
    connection_of <- [p \in {"a", "a2", "b"} |-> IF p = "b" THEN "B" ELSE "A"],
    Keys <- {1, 2, 3}, Exact <- 4, RowLimits <- {2}, MaxChanges <- 1

Policy == INSTANCE SqlPolicy WITH told <- s1, Texts <- TriedTexts

Script == INSTANCE SqlScript WITH
    written <- s1, chars <- s2, i <- s3, start <- s4, has_content <- s5, statements <- s6,
    Dialects <- {"Sqlite", "Postgres", "MySql"}, Texts <- ShortTexts,
    Others <- SomeCells, Names <- SomeNames
-------------------------------------------------------------------------------
\* The variables from s<n> on are not in use.
Rest(n) ==
    /\ IF n <= 2 THEN s2 = Off ELSE TRUE
    /\ IF n <= 3 THEN s3 = Off ELSE TRUE
    /\ IF n <= 4 THEN s4 = Off ELSE TRUE
    /\ IF n <= 5 THEN s5 = Off ELSE TRUE
    /\ IF n <= 6 THEN s6 = Off ELSE TRUE
    /\ IF n <= 7 THEN s7 = Off ELSE TRUE
    /\ IF n <= 8 THEN s8 = Off ELSE TRUE
RestStays(n) ==
    /\ IF n <= 2 THEN UNCHANGED s2 ELSE TRUE
    /\ IF n <= 3 THEN UNCHANGED s3 ELSE TRUE
    /\ IF n <= 4 THEN UNCHANGED s4 ELSE TRUE
    /\ IF n <= 5 THEN UNCHANGED s5 ELSE TRUE
    /\ IF n <= 6 THEN UNCHANGED s6 ELSE TRUE
    /\ IF n <= 7 THEN UNCHANGED s7 ELSE TRUE
    /\ IF n <= 8 THEN UNCHANGED s8 ELSE TRUE

\* A Firestore database with collections of its own where a MongoDB or a
\* Firestore one has no documents, and every collection where it has some; of
\* the table, rows for two pages in the place that is opened first and one in
\* the others.
BegunTables ==
    [p \in {"a", "a2", "b"} |-> [k \in {1, 2, 3} |-> IF p = "a" \/ k = 2 THEN Grid!Old ELSE Grid!Absent]]
Init ==
    \/ part = "sessions" /\ Sessions!EngineInit /\ Rest(5)
    \/ part = "schema" /\ Schema!ReadInit /\ Rest(4)
    \/ part = "history" /\ History!HistoryInit /\ Rest(4)
    \/ part = "rows" /\ Rows!ResultInit /\ Rest(3)
    \/ part = "redis" /\ Redis!RedisInit /\ Rest(6)
    \/ part = "documents" /\ Documents!DocInit /\ (s1 = <<>> \/ s2 = {1, 2}) /\ Rest(6)
    \/ part = "grid" /\ Grid!BrowseInit /\ s1 = BegunTables /\ s3 = "a"
    \/ part = "policy" /\ Policy!PolicyInit /\ Rest(2)
    \/ part = "script" /\ Script!Init /\ Rest(7)

Next ==
    /\ \/ part = "sessions" /\ Sessions!EngineNext /\ RestStays(5)
       \/ part = "schema" /\ Schema!ReadNext /\ RestStays(4)
       \/ part = "history" /\ History!HistoryNext /\ RestStays(4)
       \/ part = "rows" /\ Rows!ResultNext /\ RestStays(3)
       \/ part = "redis" /\ Redis!RedisNext /\ RestStays(6)
       \/ part = "documents" /\ Documents!DocNext /\ RestStays(6)
       \/ part = "grid" /\ Grid!BrowseNext
       \/ part = "policy" /\ Policy!PolicyNext /\ RestStays(2)
       \/ part = "script" /\ Script!Next /\ RestStays(7)
    /\ UNCHANGED part

Spec == Init /\ [][Next]_<<part, all>>
-------------------------------------------------------------------------------
(***************************************************************************)
(* What runs is what was asked for: a read-only call writes nothing and    *)
(* reads nothing whose size was not looked at, a refused command never     *)
(* reaches the server, a failed script leaves nothing behind, and a        *)
(* connection goes back to its pool as it was (Engines, DocumentReads,     *)
(* RedisReads).                                                            *)
(***************************************************************************)
WhatRunsIsWhatWasAsked ==
    /\ [](part = "sessions" =>
             /\ Sessions!ReadOnlyKeepsItsWord /\ Sessions!AllOrNothing
             /\ Sessions!IdleSessionsAreClean /\ Sessions!OrdinaryWritesStand)
    /\ [](part = "documents" => Documents!OnlyReadsTravel)
    /\ [][part = "redis" => Redis!NothingIsReadBlind]_<<part, all>>

(***************************************************************************)
(* An answer is whole or says that it is not: of rows, of a walk over the  *)
(* keys of Redis, of documents and their fields, and a lost connection is  *)
(* told as one (Results, RedisReads, DocumentReads).                       *)
(***************************************************************************)
AnswersAreWhole ==
    /\ part = "rows" =>
          Rows!QueryIsWhole /\ Rows!ReadIsCutHonestly /\ Rows!ConnectionErrorsAreTold
    /\ part = "redis" =>
          Redis!ClusterScanIsWhole /\ Redis!AnswersFitTheCap /\ Redis!EveryKeyHasItsEntry
    /\ part = "documents" =>
          /\ Documents!RowsTellTheDocuments /\ Documents!NeverEmptyInTheSample
          /\ Documents!EveryCollectionIsListed

(***************************************************************************)
(* A schema and a history are told as they are: no difference and no       *)
(* relationship is missed, a table's DDL makes the table again, a row's    *)
(* versions are its history and blame names who changed it last            *)
(* (SchemaReads, RowHistory).                                              *)
(***************************************************************************)
SchemaAndHistoryAreTold ==
    /\ part = "schema" =>
          /\ Schema!NoDifferenceIsMissed /\ Schema!MissingIsMissing
          /\ Schema!EveryRelationshipIsTold /\ Schema!DdlRebuildsTheTable
    /\ part = "history" =>
          /\ History!VersionsTellTheRow /\ History!DiffIsTheDifference
          /\ History!BlameNamesTheLastChange

(***************************************************************************)
(* The grid: a page follows the one before it with no row left out that    *)
(* was there, and an edit reaches the row it was made on, behind the       *)
(* connection it was read from (Browse).                                   *)
(***************************************************************************)
GridFollowsTheTable ==
    [][part = "grid" => Grid!NextPageFollows /\ Grid!EditLandsOnTheRowShown]_<<part, all>>

(***************************************************************************)
(* The program reads SQL as the engines do: a text it lets through as a    *)
(* read writes nothing, a write stays within what the connection allows,   *)
(* what is refused for ever is refused in every spelling, and a script is  *)
(* split where its statements end and its literals mean the cells they     *)
(* were written from (SqlPolicy, SqlScript).                               *)
(***************************************************************************)
SqlIsReadAsTheEngineReadsIt ==
    /\ part = "policy" =>
          Policy!ReadsLeaveNothing /\ Policy!WritesStayInBounds /\ Policy!ForeverMeansForever
    /\ part = "script" => Script!ScriptSplitsAsWritten /\ Script!LiteralMeansItsText
================================================================================
