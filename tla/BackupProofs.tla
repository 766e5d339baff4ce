------------------------------ MODULE BackupProofs ------------------------------
(***************************************************************************)
(* What is proved of Backup.  Scripts and databases come from recursive    *)
(* functions over the prefixes of a sequence; the lemmas of the first part *)
(* are the induction those need, stated over sets of numbers.              *)
(***************************************************************************)
EXTENDS Backup, TLAPS, FiniteSetTheorems, WellFoundedInduction

\* Induction: a set of numbers up to n that holds zero and every successor is all of them.
LEMMA UpTo ==
    ASSUME NEW n \in Nat, NEW S, 0 \in S, \A i \in S : i \in 0 .. n - 1 => i + 1 \in S
    PROVE  0 .. n \subseteq S
  <1> SUFFICES ASSUME ~ (0 .. n \subseteq S) PROVE FALSE  OBVIOUS
  <1> DEFINE R == OpToRel(<, Nat)
             T == (0 .. n) \ S
  <1>1. T \subseteq Nat /\ T # {}  OBVIOUS
  <1>2. IsWellFoundedOn(R, Nat)  BY NatLessThanWellFounded
  <1> HIDE DEF R
  <1>3. PICK x \in T : \A y \in T : ~ (<<y, x>> \in R)
    <2> HIDE DEF T
    <2> QED  BY <1>1, <1>2, WFMin
  <1>4. x \in 0 .. n /\ x \notin S /\ x # 0 /\ x - 1 \in 0 .. n - 1  OBVIOUS
  <1>5. x - 1 \in T
    <2>1. (x - 1) + 1 = x  BY <1>4
    <2> QED  BY <1>4, <2>1
  <1>6. <<x - 1, x>> \in R  BY <1>4 DEF OpToRel, R
  <1> QED  BY <1>3, <1>5, <1>6

\* A value for every prefix of a sequence of n steps, each from the one before.
builds(f, n, X, base, onto) ==
    /\ f \in [0 .. n -> X] /\ f[0] = base
    /\ \A i \in 1 .. n : f[i] = onto[i][f[i - 1]]

\* A recursive function over the prefixes exists, so a definition by recursion has the
\* value it says.
LEMMA Recursion ==
    ASSUME NEW n \in Nat, NEW X, NEW base \in X, NEW onto \in [1 .. n -> [X -> X]]
    PROVE  \E f : builds(f, n, X, base, onto)
  <1> DEFINE S == {m \in 0 .. n : \E f : builds(f, m, X, base, onto)}
  <1>1. 0 \in S
    <2>1. builds([i \in 0 .. 0 |-> base], 0, X, base, onto)  BY DEF builds
    <2> QED  BY <2>1
  <1>2. ASSUME NEW m \in S, m \in 0 .. n - 1 PROVE m + 1 \in S
    <2>1. PICK f : builds(f, m, X, base, onto)  OBVIOUS
    <2> DEFINE g == [i \in 0 .. m + 1 |-> IF i = m + 1 THEN onto[m + 1][f[m]] ELSE f[i]]
    <2>2. onto[m + 1][f[m]] \in X
      <3>1. m + 1 \in 1 .. n /\ f[m] \in X  BY <1>2, <2>1 DEF builds
      <3> QED  BY <3>1
    <2>3. g \in [0 .. m + 1 -> X] /\ g[0] = base  BY <1>2, <2>1, <2>2 DEF builds
    <2>4. ASSUME NEW i \in 1 .. m + 1 PROVE g[i] = onto[i][g[i - 1]]
      <3>1. CASE i = m + 1
        <4>1. i - 1 = m /\ g[i - 1] = f[m] /\ g[i] = onto[m + 1][f[m]]  BY <1>2, <3>1
        <4> QED  BY <3>1, <4>1
      <3>2. CASE i # m + 1
        <4>1. i \in 1 .. m /\ g[i] = f[i] /\ g[i - 1] = f[i - 1]  BY <1>2, <3>2
        <4> QED  BY <2>1, <4>1 DEF builds
      <3> QED  BY <3>1, <3>2
    <2> HIDE DEF g
    <2>5. builds(g, m + 1, X, base, onto)  BY <2>3, <2>4 DEF builds
    <2> QED  BY <1>2, <2>5
  <1> HIDE DEF S
  <1>3. 0 .. n \subseteq S  BY <1>1, <1>2, UpTo
  <1>4. n \in S  BY <1>3
  <1> QED  BY <1>4 DEF S

\* Two that begin alike and go on alike are alike.
go_alike(f, g, n) ==
    /\ f[0] = g[0]
    /\ \A i \in 1 .. n : f[i - 1] = g[i - 1] => f[i] = g[i]
alike(f, g, n) == \A i \in 0 .. n : f[i] = g[i]

\* What is defined by the same recursion is the same.
LEMMA SameRecursion ==
    ASSUME NEW n \in Nat, NEW f, NEW g, go_alike(f, g, n)
    PROVE  alike(f, g, n)
  <1> DEFINE S == {i \in 0 .. n : f[i] = g[i]}
  <1>1. 0 \in S  BY DEF go_alike
  <1>2. ASSUME NEW i \in S, i \in 0 .. n - 1 PROVE i + 1 \in S
    <2>1. i + 1 \in 1 .. n /\ (i + 1) - 1 = i  BY <1>2
    <2>2. f[i + 1] = g[i + 1]  BY <2>1 DEF go_alike
    <2> QED  BY <2>1, <2>2
  <1> HIDE DEF S
  <1>3. 0 .. n \subseteq S  BY <1>1, <1>2, UpTo
  <1> QED  BY <1>3 DEF S, alike

\* A set of numbers up to n that is not empty has a largest.
LEMMA Largest ==
    ASSUME NEW n \in Nat, NEW S \in SUBSET (0 .. n), S # {}
    PROVE  \E x \in S : \A y \in S : y <= x
  <1> DEFINE T == {m \in 0 .. n : S \cap (0 .. m) # {} => \E x \in S \cap (0 .. m) :
                                      \A y \in S \cap (0 .. m) : y <= x}
  <1>1. 0 \in T  OBVIOUS
  <1>2. ASSUME NEW m \in T, m \in 0 .. n - 1 PROVE m + 1 \in T
    <2>1. CASE m + 1 \in S
      <3>1. m + 1 \in S \cap (0 .. m + 1) /\ \A y \in S \cap (0 .. m + 1) : y <= m + 1
        BY <1>2, <2>1
      <3> QED  BY <1>2, <3>1
    <2>2. CASE m + 1 \notin S
      <3>1. S \cap (0 .. m + 1) = S \cap (0 .. m)  BY <1>2, <2>2
      <3> QED  BY <1>2, <3>1
    <2> QED  BY <2>1, <2>2
  <1> HIDE DEF T
  <1>3. 0 .. n \subseteq T  BY <1>1, <1>2, UpTo
  <1>4. S \cap (0 .. n) = S  OBVIOUS
  <1>5. n \in T  BY <1>3
  <1> QED  BY <1>4, <1>5 DEF T
-------------------------------------------------------------------------------
(***************************************************************************)
(* The engine's side of a restore: what the prefixes of the statements     *)
(* make of the target.                                                     *)
(***************************************************************************)
Statement == Seq(Chunks) \ {<<>>}
Classified == {[sql |-> s, kind |-> classify_one(s)] : s \in Statement}

\* A classified statement is its chunks, and the first of them its table and rows.
LEMMA ClassifiedFields ==
    ASSUME NEW s \in Classified
    PROVE  /\ s.sql \in Statement /\ s.kind = classify_one(s.sql)
           /\ s.sql[1] \in Chunks /\ s.sql[1].table \in Tables /\ s.sql[1].rows \in SUBSET Rows
           /\ Len(s.sql) \in Nat \ {0}
  <1>1. PICK q \in Statement : s = [sql |-> q, kind |-> classify_one(q)]  BY DEF Classified
  <1>2. q \in Seq(Chunks) /\ q # <<>>  BY DEF Statement
  <1>3. Len(q) \in Nat \ {0} /\ q[1] \in Chunks  BY <1>2
  <1>4. q[1].table \in Tables /\ q[1].rows \in SUBSET Rows  BY <1>3 DEF Chunks
  <1> QED  BY <1>1, <1>3, <1>4

\* A database is the rows of some of the tables.
LEMMA DatabaseType ==
    ASSUME NEW db
    PROVE  db \in Database <=> /\ DOMAIN db \subseteq Tables
                               /\ db \in [DOMAIN db -> SUBSET Rows]
  <1>1. ASSUME db \in Database PROVE DOMAIN db \subseteq Tables /\ db \in [DOMAIN db -> SUBSET Rows]
    <2>1. PICK ts \in SUBSET Tables : db \in [ts -> SUBSET Rows]  BY <1>1 DEF Database
    <2> QED  BY <2>1
  <1>2. ASSUME DOMAIN db \subseteq Tables, db \in [DOMAIN db -> SUBSET Rows] PROVE db \in Database
    <2>1. DOMAIN db \in SUBSET Tables  BY <1>2
    <2> QED  BY <1>2, <2>1 DEF Database
  <1> QED  BY <1>1, <1>2

\* A statement makes a database of a database.
LEMMA AppliedType ==
    ASSUME NEW db \in Database, NEW s \in Statement
    PROVE  applied(db, s) \in Database
  <1> DEFINE chunk == s[1]
  <1>1. chunk.table \in Tables /\ chunk.rows \in SUBSET Rows
    <2>1. chunk \in Chunks  BY DEF Statement
    <2> QED  BY <2>1 DEF Chunks
  <1>2. DOMAIN db \subseteq Tables /\ db \in [DOMAIN db -> SUBSET Rows]  BY DatabaseType
  <1>3. CASE chunk.kind = "ddl"
    <2> DEFINE ts == DOMAIN db \cup {chunk.table}
               new == [t \in ts |-> IF t = chunk.table THEN {} ELSE db[t]]
    <2>1. new \in [ts -> SUBSET Rows] /\ DOMAIN new = ts /\ ts \subseteq Tables  BY <1>1, <1>2
    <2>2. applied(db, s) = new  BY <1>3 DEF applied
    <2> QED  BY <2>1, <2>2, DatabaseType
  <1>4. CASE chunk.kind = "insert"
    <2> DEFINE new == [t \in DOMAIN db |-> IF t = chunk.table THEN db[t] \cup chunk.rows ELSE db[t]]
    <2>1. new \in [DOMAIN db -> SUBSET Rows] /\ DOMAIN new = DOMAIN db  BY <1>1, <1>2
    <2>2. applied(db, s) = new  BY <1>4 DEF applied
    <2> QED  BY <1>2, <2>1, <2>2, DatabaseType
  <1>5. CASE chunk.kind \notin {"ddl", "insert"}  BY <1>5 DEF applied
  <1> QED  BY <1>3, <1>4, <1>5

\* What the engine has after each prefix follows from what it had one statement earlier.
LEMMA PrefixExists ==
    ASSUME target \in Database, restore.statements \in Seq(Classified), NEW n \in 0 .. total
    PROVE  \E f \in [0 .. n -> Database] :
              /\ f = [i \in 0 .. n |-> IF i = 0 THEN target ELSE applied(f[i - 1], statement(i))]
              /\ DoneUpTo(n) = f[n]
  <1> DEFINE onto == [i \in 1 .. n |-> [db \in Database |-> applied(db, statement(i))]]
  <1>1. total \in Nat /\ n \in Nat  BY DEF total
  <1>2. \A i \in 1 .. n : statement(i) \in Statement
    <2> SUFFICES ASSUME NEW i \in 1 .. n PROVE statement(i) \in Statement  OBVIOUS
    <2>1. restore.statements[i] \in Classified  BY <1>1 DEF total
    <2> QED  BY <2>1, ClassifiedFields DEF statement
  <1>3. onto \in [1 .. n -> [Database -> Database]]  BY <1>2, AppliedType
  <1> HIDE DEF onto
  <1>4. PICK f : builds(f, n, Database, target, onto)  BY <1>1, <1>3, Recursion
  <1>5. \A i \in 1 .. n : f[i] = applied(f[i - 1], statement(i))
    <2> SUFFICES ASSUME NEW i \in 1 .. n PROVE f[i] = applied(f[i - 1], statement(i))  OBVIOUS
    <2>1. f[i - 1] \in Database  BY <1>1, <1>4 DEF builds
    <2> QED  BY <1>4, <2>1 DEF builds, onto
  <1> DEFINE is(g) == g = [i \in 0 .. n |-> IF i = 0 THEN target
                                             ELSE applied(g[i - 1], statement(i))]
  <1>6. is(f)
    <2>1. \A i \in 0 .. n : f[i] = IF i = 0 THEN target ELSE applied(f[i - 1], statement(i))
      BY <1>1, <1>4, <1>5 DEF builds
    <2>2. f \in [0 .. n -> Database]  BY <1>4 DEF builds
    <2> QED  BY <2>1, <2>2
  <1>7. DoneUpTo(n) = (CHOOSE g : is(g))[n]  BY DEF DoneUpTo
  <1> DEFINE h == CHOOSE g : is(g)
  <1>8. is(h)
    <2> HIDE DEF is
    <2> QED  BY <1>6
  <1> HIDE DEF h
  <1>9. alike(h, f, n)
    <2>1. go_alike(h, f, n)  BY <1>1, <1>6, <1>8 DEF go_alike
    <2> QED  BY <1>1, <2>1, SameRecursion
  <1>10. DoneUpTo(n) = f[n]  BY <1>1, <1>7, <1>9 DEF h, alike
  <1> QED  BY <1>4, <1>6, <1>10 DEF builds

\* The target after n statements is the target after n - 1 with the n-th applied.
LEMMA PrefixesMove ==
    ASSUME target \in Database, restore.statements \in Seq(Classified)
    PROVE  /\ DoneUpTo(0) = target
           /\ \A n \in 0 .. total : DoneUpTo(n) \in Database
           /\ \A n \in 1 .. total : DoneUpTo(n) = applied(DoneUpTo(n - 1), statement(n))
  <1>0. total \in Nat  BY DEF total
  <1>1. \A n \in 0 .. total : DoneUpTo(n) \in Database  BY PrefixExists
  <1>2. DoneUpTo(0) = target
    <2>1. 0 \in 0 .. total  BY <1>0
    <2> QED  BY <2>1, PrefixExists
  <1>3. ASSUME NEW n \in 1 .. total PROVE DoneUpTo(n) = applied(DoneUpTo(n - 1), statement(n))
    <2>0. n \in 0 .. total /\ n - 1 \in 0 .. total /\ n - 1 \in Nat  BY <1>0
    <2>1. PICK f \in [0 .. n -> Database] :
              /\ f = [i \in 0 .. n |-> IF i = 0 THEN target ELSE applied(f[i - 1], statement(i))]
              /\ DoneUpTo(n) = f[n]
      BY <2>0, PrefixExists
    <2>2. PICK g \in [0 .. n - 1 -> Database] :
              /\ g = [i \in 0 .. n - 1 |-> IF i = 0 THEN target
                                           ELSE applied(g[i - 1], statement(i))]
              /\ DoneUpTo(n - 1) = g[n - 1]
      BY <2>0, PrefixExists
    <2>3. go_alike(f, g, n - 1)  BY <2>0, <2>1, <2>2 DEF go_alike
    <2>4. f[n - 1] = g[n - 1]  BY <2>0, <2>3, SameRecursion DEF alike
    <2>5. f[n] = applied(f[n - 1], statement(n))  BY <2>0, <2>1
    <2> QED  BY <2>1, <2>2, <2>4, <2>5
  <1> QED  BY <1>1, <1>2, <1>3

(***************************************************************************)
(* Reading a script.                                                       *)
(***************************************************************************)
LEMMA WithChunkType ==
    ASSUME NEW found \in Seq(Statement), NEW chunk \in Chunks
    PROVE  with_chunk(found, chunk) \in Seq(Statement)
  <1>1. <<chunk>> \in Statement  BY DEF Statement
  <1>2. CASE found # <<>>
    <2> DEFINE q == Last(found)
    <2>1. q \in Seq(Chunks) /\ Front(found) \in Seq(Statement)
      <3>1. Len(found) \in Nat \ {0} /\ found[Len(found)] \in Statement  BY <1>2
      <3>2. q \in Statement  BY <3>1 DEF Last
      <3>3. SubSeq(found, 1, Len(found) - 1) \in Seq(Statement)  BY <3>1
      <3> QED  BY <3>2, <3>3 DEF Front, Statement
    <2> HIDE DEF q
    <2>2. Append(q, chunk) \in Seq(Chunks) /\ Len(Append(q, chunk)) = Len(q) + 1 /\ Len(q) \in Nat
      BY <2>1
    <2>3. Append(q, chunk) \in Statement
      <3>1. Append(q, chunk) # <<>>  BY <2>2
      <3> QED  BY <2>2, <3>1 DEF Statement
    <2>4. Append(Front(found), Append(q, chunk)) \in Seq(Statement)  BY <2>1, <2>3
    <2> QED  BY <1>1, <2>4 DEF with_chunk, q
  <1>3. CASE found = <<>>  BY <1>1, <1>3 DEF with_chunk
  <1> QED  BY <1>2, <1>3

\* The splitter goes through a script chunk by chunk.
LEMMA SplitRecursion ==
    ASSUME NEW script \in Seq(Chunks)
    PROVE  \E f \in [0 .. Len(script) -> Seq(Statement)] :
              /\ f[0] = <<>> /\ \A i \in 1 .. Len(script) : f[i] = with_chunk(f[i - 1], script[i])
              /\ split_statements(script) = f[Len(script)]
  <1> DEFINE n == Len(script)
             X == Seq(Statement)
             onto == [i \in 1 .. n |-> [found \in X |-> with_chunk(found, script[i])]]
             is(g) == g = [i \in 0 .. n |-> IF i = 0 THEN <<>> ELSE with_chunk(g[i - 1], script[i])]
  <1>1. n \in Nat /\ <<>> \in X /\ \A i \in 1 .. n : script[i] \in Chunks  OBVIOUS
  <1>2. onto \in [1 .. n -> [X -> X]]
    <2> HIDE DEF n
    <2> QED  BY <1>1, WithChunkType
  <1> HIDE DEF n, X, onto
  <1>3. PICK f : builds(f, n, X, <<>>, onto)  BY <1>1, <1>2, Recursion
  <1>4. f \in [0 .. n -> X] /\ f[0] = <<>>  BY <1>3 DEF builds
  <1>5. ASSUME NEW i \in 1 .. n PROVE f[i] = with_chunk(f[i - 1], script[i])
    <2>1. f[i - 1] \in X  BY <1>1, <1>4
    <2> QED  BY <1>3, <2>1 DEF builds, onto
  <1>6. is(f)
    <2>1. \A i \in 0 .. n : f[i] = IF i = 0 THEN <<>> ELSE with_chunk(f[i - 1], script[i])
      BY <1>1, <1>4, <1>5
    <2> QED  BY <1>4, <2>1
  <1>7. split_statements(script) = (CHOOSE g : is(g))[n]  BY DEF split_statements, n
  <1> DEFINE h == CHOOSE g : is(g)
  <1>8. is(h)
    <2> HIDE DEF is
    <2> QED  BY <1>6
  <1> HIDE DEF h
  <1>9. alike(h, f, n)
    <2>1. go_alike(h, f, n)  BY <1>1, <1>6, <1>8 DEF go_alike
    <2> QED  BY <1>1, <2>1, SameRecursion
  <1>10. split_statements(script) = f[n]  BY <1>1, <1>7, <1>9 DEF h, alike
  <1> QED  BY <1>4, <1>5, <1>10 DEF n, X

\* A classified script is a sequence of classified statements.
LEMMA ClassifyType ==
    ASSUME NEW script \in Seq(Chunks)
    PROVE  classify_script(script) \in Seq(Classified)
  <1> DEFINE q == split_statements(script)
  <1>1. q \in Seq(Statement)
    <2>1. PICK f \in [0 .. Len(script) -> Seq(Statement)] : q = f[Len(script)]  BY SplitRecursion
    <2> QED  BY <2>1
  <1> HIDE DEF q
  <1>2. \A i \in 1 .. Len(q) : [sql |-> q[i], kind |-> classify_one(q[i])] \in Classified
    BY <1>1 DEF Classified
  <1>3. classify_script(script) =
           [i \in 1 .. Len(q) |-> [sql |-> q[i], kind |-> classify_one(q[i])]]
    BY DEF classify_script, q
  <1> QED  BY <1>1, <1>2, <1>3

\* What is left to run holds no COMMIT an engine would take as one.
Plain == {s \in Classified : s.kind # "TransactionControl"}

\* A stripped script has no transaction control in it.
LEMMA StrippedType ==
    ASSUME restore.statements \in Seq(Classified)
    PROVE  stripped \in Seq(Plain)
  <1> DEFINE s == restore.statements
             n == Len(s)
             X == Seq(Plain)
             more(q, i) == IF s[i].kind = "TransactionControl" THEN q ELSE Append(q, s[i])
             onto == [i \in 1 .. n |-> [q \in X |-> more(q, i)]]
             is(g) == g = [i \in 0 .. n |-> IF i = 0 THEN <<>> ELSE more(g[i - 1], i)]
  <1>1. n \in Nat /\ <<>> \in X /\ \A i \in 1 .. n : s[i] \in Classified  OBVIOUS
  <1>2. \A i \in 1 .. n, q \in X : more(q, i) \in X
    <2> SUFFICES ASSUME NEW i \in 1 .. n, NEW q \in X PROVE more(q, i) \in X  OBVIOUS
    <2>1. s[i].kind # "TransactionControl" => s[i] \in Plain  BY <1>1 DEF Plain
    <2> QED  BY <2>1
  <1>3. onto \in [1 .. n -> [X -> X]]
    <2> HIDE DEF n, more, X
    <2> QED  BY <1>2
  <1> HIDE DEF X, onto
  <1>4. stripped = (CHOOSE g : is(g))[n]  BY DEF stripped
  <1> HIDE DEF n, s, more
  <1>5. PICK f : builds(f, n, X, <<>>, onto)  BY <1>1, <1>3, Recursion
  <1>6. f \in [0 .. n -> X] /\ f[0] = <<>>  BY <1>5 DEF builds
  <1>7. ASSUME NEW i \in 1 .. n PROVE f[i] = more(f[i - 1], i)
    <2>1. f[i - 1] \in X  BY <1>1, <1>6
    <2> QED  BY <1>5, <2>1 DEF builds, onto
  <1>8. is(f)
    <2>1. \A i \in 0 .. n : f[i] = IF i = 0 THEN <<>> ELSE more(f[i - 1], i)  BY <1>1, <1>6, <1>7
    <2> QED  BY <1>6, <2>1
  <1> DEFINE h == CHOOSE g : is(g)
  <1>9. is(h)
    <2> HIDE DEF is
    <2> QED  BY <1>8
  <1> HIDE DEF h
  <1>10. alike(h, f, n)
    <2>1. go_alike(h, f, n)  BY <1>1, <1>8, <1>9 DEF go_alike
    <2> QED  BY <1>1, <2>1, SameRecursion
  <1>11. stripped = f[n]  BY <1>1, <1>4, <1>10 DEF h, alike
  <1> QED  BY <1>1, <1>6, <1>11 DEF X

\* What a database accepts of a stripped script is DDL or an INSERT.
LEMMA PlainCommitsNothing ==
    ASSUME NEW s \in Plain, NEW db, accepted(db, s.sql)
    PROVE  s.sql[1].kind \in {"ddl", "insert"}
  <1>1. s \in Classified /\ s.kind # "TransactionControl"  BY DEF Plain
  <1>2. s.kind = classify_one(s.sql) /\ s.sql[1] \in Chunks  BY <1>1, ClassifiedFields
  <1>3. Len(s.sql) = 1 /\ s.sql[1].whole  BY DEF accepted
  <1>4. s.sql[1].kind \in {"ddl", "insert", "begin", "commit"}  BY <1>2 DEF Chunks
  <1> QED  BY <1>1, <1>2, <1>3, <1>4 DEF classify_one
-------------------------------------------------------------------------------
(***************************************************************************)
(* The restore: the target is always what the statements that ran have     *)
(* made of what was there and of what others put there since.              *)
(***************************************************************************)
RollsBackDdl ==
    \A e \in Engines : Capabilities(e).has_atomic_restore => ~ Capabilities(e).ddl_commits

Restores ==
    [pc : {"idle", "dialog", "plan", "gate", "batch", "each", "ok", "refused", "failed"},
     confirmed : BOOLEAN, on_error : {"stop", "continue"}, statements : Seq(Classified),
     existing : SUBSET Tables, index : Nat \ {0}, statements_run : Nat, failures : SUBSET Nat,
     cancelled : BOOLEAN, atomic : BOOLEAN]

RestoreType ==
    /\ engine \in Engines
    /\ target \in Database /\ before \in Database /\ foreign \in Database
    /\ restore \in Restores
    /\ ran \in Seq(Nat \ {0})
    /\ \A j \in 1 .. Len(ran) : ran[j] <= total

\* The target as it would be had no statement run.
alone ==
    [t \in DOMAIN before \cup DOMAIN foreign |->
        IF t \in DOMAIN before THEN before[t] ELSE foreign[t]]

has_table(db, s) == s[1].kind = "insert" => s[1].table \in DOMAIN db

\* What the target has been through, statement by statement.
course(f) ==
    /\ f \in [0 .. Len(ran) -> Database]
    /\ f[0] = alone /\ f[Len(ran)] = target
    /\ \A j \in 1 .. Len(ran) : /\ f[j] = applied(f[j - 1], statement(ran[j]))
                                /\ has_table(f[j - 1], statement(ran[j]))

\* Statements are run in order, each one once.
Accounted ==
    /\ restore.statements_run = Len(ran)
    /\ restore.pc \notin {"each", "ok"} => ran = <<>>
    /\ restore.pc \in {"idle", "dialog", "plan", "gate", "batch"} =>
          restore.index = 1 /\ restore.failures = {}
    /\ ~ restore.atomic =>
          {ran[j] : j \in 1 .. Len(ran)} = (1 .. restore.index - 1) \ restore.failures
    /\ restore.failures \subseteq 1 .. restore.index - 1
    /\ restore.pc = "ok" /\ ~ restore.atomic /\ ~ restore.cancelled
          /\ restore.on_error = "continue" => restore.index > total

\* Who did not confirm got past the gate because nothing was in the target.
Gated ==
    ~ restore.confirmed =>
        /\ restore.pc = "gate" => DOMAIN before \subseteq restore.existing
        /\ restore.pc \in {"batch", "each", "ok", "failed"} => before = NoTables

Chosen ==
    /\ restore.pc \in {"batch", "each"} => restore.statements \in Seq(Plain)
    /\ restore.pc = "batch" => restore.atomic /\ Capabilities(engine).has_atomic_restore
    /\ restore.pc = "each" => ~ restore.atomic /\ restore.index <= total + 1

RestoreInv == RestoreType /\ (\E f : course(f)) /\ Accounted /\ Gated /\ Chosen

\* Every statement of the restore is one the splitter found.
LEMMA StatementType ==
    ASSUME RestoreType, NEW i \in 1 .. total
    PROVE  /\ restore.statements[i] \in Classified /\ statement(i) \in Statement
           /\ statement(i) = restore.statements[i].sql
  <1>1. restore.statements \in Seq(Classified) /\ i \in 1 .. Len(restore.statements)
    BY DEF RestoreType, Restores, total
  <1>2. restore.statements[i] \in Classified  BY <1>1
  <1> QED  BY <1>2, ClassifiedFields DEF statement

\* What ran are statements of the script.
LEMMA RanType ==
    ASSUME RestoreType
    PROVE  /\ Len(ran) \in Nat /\ total \in Nat
           /\ \A j \in 1 .. Len(ran) : ran[j] \in 1 .. total /\ statement(ran[j]) \in Statement
  <1>1. Len(ran) \in Nat /\ total \in Nat  BY DEF RestoreType, Restores, total
  <1>2. \A j \in 1 .. Len(ran) : ran[j] \in 1 .. total  BY <1>1 DEF RestoreType
  <1> QED  BY <1>1, <1>2, StatementType

\* What the property computes is the end of the course.
LEMMA CourseEnds ==
    ASSUME RestoreType, NEW f, course(f)
    PROVE  target = Outcome
  <1> DEFINE n == Len(ran)
             is(g) == g = [i \in 0 .. n |->
                              IF i = 0 THEN alone ELSE applied(g[i - 1], statement(ran[i]))]
             h == CHOOSE g : is(g)
  <1>1. n \in Nat  BY RanType
  <1>2. is(f)
    <2>1. \A i \in 0 .. n : f[i] = IF i = 0 THEN alone ELSE applied(f[i - 1], statement(ran[i]))
      BY <1>1 DEF course
    <2>2. f \in [0 .. n -> Database]  BY DEF course
    <2> QED  BY <2>1, <2>2
  <1>3. is(h)
    <2> HIDE DEF is
    <2> QED  BY <1>2
  <1>4. Outcome = h[n]  BY DEF Outcome, alone
  <1> HIDE DEF h
  <1>5. alike(h, f, n)
    <2>1. go_alike(h, f, n)  BY <1>1, <1>2, <1>3 DEF go_alike
    <2> QED  BY <1>1, <2>1, SameRecursion
  <1> QED  BY <1>1, <1>4, <1>5 DEF course, alike

\* A step that runs nothing and touches no table leaves the course as it was.
LEMMA CourseKept ==
    ASSUME RestoreType, NEW f, course(f), UNCHANGED <<target, before, foreign, ran>>,
           restore'.statements = restore.statements \/ ran = <<>>
    PROVE  course(f)'
  <1>1. alone' = alone  BY DEF alone
  <1>2. Len(ran') = Len(ran) /\ Len(ran) \in Nat  BY RanType
  <1>3. CASE ran = <<>>
    <2>1. Len(ran) = 0  BY <1>3
    <2> QED  BY <1>1, <1>2, <2>1 DEF course
  <1>4. CASE restore'.statements = restore.statements
    <2>1. \A j \in 1 .. Len(ran) : restore'.statements[ran'[j]].sql = restore.statements[ran[j]].sql
      BY <1>4
    <2> QED  BY <1>1, <1>2, <2>1 DEF course, statement
  <1> QED  BY <1>3, <1>4

\* Nothing has run: the target is what was there and what others have added.
LEMMA CourseBegins ==
    ASSUME RestoreType, NEW f, course(f), ran = <<>>
    PROVE  target = alone
  BY DEF course

\* A database with one more table.
with_table(db, t, rows) ==
    [u \in DOMAIN db \cup {t} |-> IF u = t THEN rows ELSE db[u]]

\* ... is a database.
LEMMA WithTableType ==
    ASSUME NEW db \in Database, NEW t \in Tables, NEW rows \in SUBSET Rows
    PROVE  with_table(db, t, rows) \in Database
  <1> DEFINE new == with_table(db, t, rows)
  <1>1. DOMAIN db \subseteq Tables /\ db \in [DOMAIN db -> SUBSET Rows]  BY DatabaseType
  <1>2. DOMAIN new = DOMAIN db \cup {t} /\ new \in [DOMAIN db \cup {t} -> SUBSET Rows]
    BY <1>1 DEF with_table
  <1> HIDE DEF new
  <1>3. new \in Database  BY <1>1, <1>2, DatabaseType
  <1> QED  BY <1>3 DEF new

\* A statement and another client's new table do not get in each other's way, as long as
\* the statement is not about that table.
LEMMA AppliedApart ==
    ASSUME NEW db \in Database, NEW s \in Statement, has_table(db, s),
           NEW t \in Tables, NEW rows \in SUBSET Rows, t \notin DOMAIN applied(db, s)
    PROVE  /\ applied(with_table(db, t, rows), s) = with_table(applied(db, s), t, rows)
           /\ has_table(with_table(db, t, rows), s)
           /\ t \notin DOMAIN db
  <1> DEFINE chunk == s[1]
             old == with_table(db, t, rows)
  <1>1. DOMAIN db \subseteq Tables /\ db \in [DOMAIN db -> SUBSET Rows]  BY DatabaseType
  <1>2. CASE chunk.kind = "ddl"
    <2>1. applied(db, s) = [u \in DOMAIN db \cup {chunk.table} |->
                               IF u = chunk.table THEN {} ELSE db[u]]
      BY <1>2 DEF applied
    <2>2. t \notin DOMAIN db /\ t # chunk.table  BY <2>1
    <2>3. applied(old, s) = [u \in DOMAIN old \cup {chunk.table} |->
                                IF u = chunk.table THEN {} ELSE old[u]]
      BY <1>2 DEF applied
    <2>4. applied(old, s) = with_table(applied(db, s), t, rows)
      BY <2>1, <2>2, <2>3 DEF with_table
    <2> QED  BY <1>2, <2>2, <2>4 DEF has_table
  <1>3. CASE chunk.kind = "insert"
    <2>1. applied(db, s) = [u \in DOMAIN db |->
                               IF u = chunk.table THEN db[u] \cup chunk.rows ELSE db[u]]
      BY <1>3 DEF applied
    <2>2. t \notin DOMAIN db /\ t # chunk.table /\ chunk.table \in DOMAIN db
      BY <1>3, <2>1 DEF has_table
    <2>3. applied(old, s) = [u \in DOMAIN old |->
                                IF u = chunk.table THEN old[u] \cup chunk.rows ELSE old[u]]
      BY <1>3 DEF applied
    <2>4. applied(old, s) = with_table(applied(db, s), t, rows)
      BY <2>1, <2>2, <2>3 DEF with_table
    <2> QED  BY <2>2, <2>4 DEF has_table, with_table
  <1>4. CASE chunk.kind \notin {"ddl", "insert"}
    <2>1. applied(db, s) = db /\ applied(old, s) = old  BY <1>4 DEF applied
    <2> QED  BY <1>4, <2>1 DEF has_table
  <1> QED  BY <1>2, <1>3, <1>4

\* Tables only come.
LEMMA AppliedGrows ==
    ASSUME NEW db, NEW s
    PROVE  DOMAIN db \subseteq DOMAIN applied(db, s)
  BY DEF applied

\* So a table that appears at the end might as well have been there from the beginning.
LEMMA CourseApart ==
    ASSUME RestoreType, NEW f, course(f), NEW t \in Tables \ DOMAIN target
    PROVE  \A i \in 0 .. Len(ran) : t \notin DOMAIN f[i]
  <1> DEFINE n == Len(ran)
             S == {i \in 0 .. n : t \notin DOMAIN f[n - i]}
  <1>1. n \in Nat  BY RanType
  <1>2. 0 \in S  BY <1>1 DEF course
  <1>3. ASSUME NEW i \in S, i \in 0 .. n - 1 PROVE i + 1 \in S
    <2>1. n - i \in 1 .. n /\ (n - i) - 1 = n - (i + 1) /\ i + 1 \in 0 .. n  BY <1>1, <1>3
    <2>2. f[n - i] = applied(f[(n - i) - 1], statement(ran[n - i]))  BY <2>1 DEF course
    <2>3. DOMAIN f[(n - i) - 1] \subseteq DOMAIN f[n - i]  BY <2>2, AppliedGrows
    <2> QED  BY <2>1, <2>3
  <1> HIDE DEF S
  <1>4. 0 .. n \subseteq S  BY <1>1, <1>2, <1>3, UpTo
  <1>5. ASSUME NEW i \in 0 .. n PROVE t \notin DOMAIN f[i]
    <2>1. n - i \in 0 .. n /\ n - (n - i) = i  BY <1>1
    <2>2. n - i \in S  BY <1>4, <2>1
    <2> QED  BY <2>1, <2>2 DEF S
  <1> QED  BY <1>5

\* Another client's new table leaves a course behind it.
LEMMA CourseOfIntrusion ==
    ASSUME RestoreType, NEW f, course(f), intrude
    PROVE  \E g : course(g)'
  <1>1. PICK t \in Tables \ DOMAIN target, r \in Rows :
           /\ target' = with_table(target, t, {r}) /\ foreign' = with_table(foreign, t, {r})
           /\ UNCHANGED <<FileVars, restore, restore_cancel, before, ran>>
    BY DEF intrude, with_table
  <1> DEFINE n == Len(ran)
             rows == {r}
             g == [i \in 0 .. n |-> with_table(f[i], t, rows)]
  <1>2. n \in Nat /\ rows \in SUBSET Rows  BY RanType
  <1> HIDE DEF rows
  <1>3. f \in [0 .. n -> Database] /\ f[0] = alone /\ f[n] = target  BY DEF course
  <1>4. \A i \in 0 .. n : t \notin DOMAIN f[i]  BY CourseApart
  <1>5. g \in [0 .. n -> Database]  BY <1>2, <1>3, WithTableType
  <1>6. g[n] = target'  BY <1>1, <1>2, <1>3 DEF rows
  <1>7. g[0] = alone'
    <2>1. g[0] = with_table(alone, t, rows) /\ t \notin DOMAIN alone  BY <1>2, <1>3, <1>4
    <2>2. DOMAIN alone = DOMAIN before \cup DOMAIN foreign  BY DEF alone
    <2>3. foreign' = with_table(foreign, t, rows) /\ before' = before  BY <1>1 DEF rows
    <2>4. alone' = with_table(alone, t, rows)  BY <2>1, <2>2, <2>3 DEF alone, with_table
    <2> QED  BY <2>1, <2>4
  <1>8. ASSUME NEW j \in 1 .. n
        PROVE  /\ g[j] = applied(g[j - 1], statement(ran[j]))
               /\ has_table(g[j - 1], statement(ran[j]))
    <2> DEFINE s == statement(ran[j])
               db == f[j - 1]
    <2>1. db \in Database /\ j \in 0 .. n /\ j - 1 \in 0 .. n  BY <1>2, <1>3
    <2>2. s \in Statement  BY RanType
    <2>3. f[j] = applied(db, s) /\ has_table(db, s)  BY DEF course
    <2>4. t \notin DOMAIN applied(db, s)  BY <1>4, <2>1, <2>3
    <2>5. g[j] = with_table(applied(db, s), t, rows) /\ g[j - 1] = with_table(db, t, rows)
      BY <2>1, <2>3
    <2> HIDE DEF s, db, g
    <2>6. g[j] = applied(g[j - 1], s) /\ has_table(g[j - 1], s)
      BY <1>2, <2>1, <2>2, <2>3, <2>4, <2>5, AppliedApart
    <2> QED  BY <2>6 DEF s
  <1> HIDE DEF g
  <1>9. restore' = restore /\ ran' = ran  BY <1>1
  <1>10. PICK c : c = g  OBVIOUS
  <1>11. course(c)'
    <2>1. \A j \in 1 .. Len(ran') : /\ c[j] = applied(c[j - 1], restore'.statements[ran'[j]].sql)
                                    /\ has_table(c[j - 1], restore'.statements[ran'[j]].sql)
      BY <1>8, <1>9, <1>10 DEF statement
    <2>2. c \in [0 .. Len(ran') -> Database] /\ c[0] = alone' /\ c[Len(ran')] = target'
      BY <1>5, <1>6, <1>7, <1>9, <1>10
    <2> QED  BY <2>1, <2>2 DEF course, statement
  <1> QED  BY <1>11

\* One statement more.
LEMMA CourseOfExecute ==
    ASSUME RestoreType, NEW f, course(f), execute
    PROVE  \E g : course(g)'
  <1> DEFINE n == Len(ran)
             i == restore.index
             s == statement(i)
             g == [j \in 0 .. n + 1 |-> IF j = n + 1 THEN applied(target, s) ELSE f[j]]
  <1>1. n \in Nat /\ i \in 1 .. total  BY RanType DEF execute, RestoreType, Restores
  <1>2. s \in Statement /\ has_table(target, s)
    BY <1>1, StatementType DEF execute, accepted, has_table
  <1>3. /\ target' = applied(target, s) /\ ran' = Append(ran, i)
        /\ restore'.statements = restore.statements
        /\ UNCHANGED <<before, foreign>>
    BY DEF execute, RestoreType, Restores
  <1>4. target \in Database /\ applied(target, s) \in Database
    BY <1>2, AppliedType DEF RestoreType, Restores
  <1> HIDE DEF s, i
  <1>5. Len(ran') = n + 1 /\ ran'[n + 1] = i /\ \A j \in 1 .. n : ran'[j] = ran[j]
    BY <1>1, <1>3 DEF RestoreType, Restores
  <1>6. f \in [0 .. n -> Database] /\ f[0] = alone /\ f[n] = target  BY DEF course
  <1>7. g \in [0 .. n + 1 -> Database] /\ g[0] = alone /\ g[n + 1] = target'
    BY <1>1, <1>3, <1>4, <1>6
  <1>8. ASSUME NEW j \in 1 .. n + 1
        PROVE  /\ g[j] = applied(g[j - 1], statement(ran'[j]))
               /\ has_table(g[j - 1], statement(ran'[j]))
    <2>1. CASE j = n + 1
      <3>1. g[j] = applied(target, s) /\ g[j - 1] = target /\ ran'[j] = i
        BY <1>1, <1>5, <1>6, <2>1
      <3> QED  BY <1>2, <3>1 DEF s
    <2>2. CASE j # n + 1
      <3>1. j \in 1 .. n /\ g[j] = f[j] /\ g[j - 1] = f[j - 1] /\ ran'[j] = ran[j]
        BY <1>1, <1>5, <2>2
      <3> QED  BY <3>1 DEF course
    <2> QED  BY <2>1, <2>2
  <1>9. alone' = alone  BY <1>3 DEF alone
  <1>10. \A j \in 1 .. n + 1 : restore'.statements[ran'[j]].sql = statement(ran'[j])
    BY <1>3 DEF statement
  <1> HIDE DEF g
  <1>11. PICK c : c = g  OBVIOUS
  <1>12. course(c)'
    <2>1. \A j \in 1 .. Len(ran') : /\ c[j] = applied(c[j - 1], restore'.statements[ran'[j]].sql)
                                    /\ has_table(c[j - 1], restore'.statements[ran'[j]].sql)
      BY <1>5, <1>8, <1>10, <1>11
    <2>2. c \in [0 .. Len(ran') -> Database] /\ c[0] = alone' /\ c[Len(ran')] = target'
      BY <1>5, <1>7, <1>9, <1>11
    <2> QED  BY <2>1, <2>2 DEF course, statement
  <1> QED  BY <1>12

\* All statements at once.
LEMMA CourseOfBatch ==
    ASSUME RestoreType, NEW f, course(f), ran = <<>>, run_atomic
    PROVE  \E g : course(g)'
  <1> DEFINE g == [i \in 0 .. total |-> DoneUpTo(i)]
  <1>1. total \in Nat /\ target = alone  BY RanType, CourseBegins
  <1>2. /\ Runs(total) /\ target' = DoneUpTo(total) /\ ran' = [i \in 1 .. total |-> i]
        /\ restore'.statements = restore.statements /\ UNCHANGED <<before, foreign>>
    BY DEF run_atomic, RestoreType, Restores
  <1>3. /\ DoneUpTo(0) = target
        /\ \A i \in 0 .. total : DoneUpTo(i) \in Database
        /\ \A i \in 1 .. total : DoneUpTo(i) = applied(DoneUpTo(i - 1), statement(i))
    BY PrefixesMove DEF RestoreType, Restores
  <1>4. Len(ran') = total /\ \A i \in 1 .. total : ran'[i] = i  BY <1>1, <1>2
  <1>5. g \in [0 .. total -> Database] /\ g[0] = alone /\ g[total] = target'
    BY <1>1, <1>2, <1>3
  <1>6. ASSUME NEW i \in 1 .. total
        PROVE  g[i] = applied(g[i - 1], statement(i)) /\ has_table(g[i - 1], statement(i))
    <2>1. g[i] = DoneUpTo(i) /\ g[i - 1] = DoneUpTo(i - 1)  BY <1>1
    <2>2. accepted(DoneUpTo(i - 1), statement(i))  BY <1>2 DEF Runs
    <2>3. has_table(DoneUpTo(i - 1), statement(i))  BY <2>2 DEF accepted, has_table
    <2> QED  BY <1>3, <2>1, <2>3
  <1>7. alone' = alone  BY <1>2 DEF alone
  <1>8. \A i \in 1 .. total : restore'.statements[ran'[i]].sql = statement(i)
    BY <1>2, <1>4 DEF statement
  <1> HIDE DEF g
  <1>9. PICK c : c = g  OBVIOUS
  <1>10. course(c)'
    <2>1. \A j \in 1 .. Len(ran') : /\ c[j] = applied(c[j - 1], restore'.statements[ran'[j]].sql)
                                    /\ has_table(c[j - 1], restore'.statements[ran'[j]].sql)
      BY <1>4, <1>6, <1>8, <1>9
    <2>2. c \in [0 .. Len(ran') -> Database] /\ c[0] = alone' /\ c[Len(ran')] = target'
      BY <1>4, <1>5, <1>7, <1>9
    <2> QED  BY <2>1, <2>2 DEF course, statement
  <1> QED  BY <1>10

\* The transaction breaks off: nothing of it stays.
LEMMA NothingKept ==
    ASSUME RestoreType, Chosen, RollsBackDdl, restore.pc = "batch", NEW n \in 0 .. total, Runs(n)
    PROVE  kept(n) = target
  <1>1. ~ Capabilities(engine).ddl_commits  BY DEF Chosen, RollsBackDdl, RestoreType, Restores
  <1>2. ASSUME NEW i \in 1 .. n PROVE ~ commits(statement(i))
    <2>1. i \in 1 .. total  BY RanType
    <2>2. restore.statements[i] \in Plain /\ statement(i) = restore.statements[i].sql
      BY <2>1 DEF Chosen, total, statement
    <2>3. accepted(DoneUpTo(i - 1), statement(i))  BY DEF Runs
    <2>4. statement(i)[1].kind \in {"ddl", "insert"}  BY <2>2, <2>3, PlainCommitsNothing
    <2> QED  BY <1>1, <2>4 DEF commits
  <1> QED  BY <1>2 DEF kept

\* Every step of the dialog, the command and the other clients keeps it.
LEMMA RestoreKept ==
    ASSUME RestoreInv, RollsBackDdl, path.script \in Seq(Chunks), RestoreNext
    PROVE  RestoreInv'
  <1>1. PICK f : course(f)  BY DEF RestoreInv
  <1>2. /\ RestoreType /\ Accounted /\ Gated /\ Chosen /\ engine' = engine
        /\ Len(ran) \in Nat /\ total \in Nat
    BY RanType DEF RestoreInv, RestoreNext, Restoring, FileVars, open_dialog, begin_restore,
           plan_restore, plan_restore_fails, gate, batch_cancelled, run_atomic, run_atomic_fails,
           each_done, execute, execute_fails, cancel_restore, intrude
  <1>3. CASE open_dialog
    <2>1. /\ restore.pc = "idle" /\ restore'.pc = "dialog"
          /\ restore'.statements = restore.statements /\ ran = <<>>
          /\ UNCHANGED <<target, before, foreign, ran>>
      BY <1>2, <1>3 DEF open_dialog, RestoreType, Restores, Accounted
    <2>2. \E g : course(g)'  BY <1>1, <1>2, <2>1, CourseKept
    <2>3. RestoreType'  BY <1>2, <1>3, <2>1 DEF open_dialog, RestoreType, Restores, total
    <2>4. Accounted' /\ Gated' /\ Chosen'
      BY <1>2, <1>3, <2>1 DEF open_dialog, RestoreType, Restores, Accounted, Gated, Chosen, total
    <2> QED  BY <2>2, <2>3, <2>4 DEF RestoreInv
  <1>4. CASE begin_restore
    <2>1. /\ restore.pc = "dialog" /\ ran = <<>> /\ ran' = ran
          /\ restore' = [restore EXCEPT !.pc = "plan", !.statements = classify_script(path.script)]
          /\ target' = target /\ before' = target /\ foreign' = foreign
      BY <1>2, <1>4 DEF begin_restore, Accounted
    <2>2. classify_script(path.script) \in Seq(Classified)  BY ClassifyType
    <2>3. RestoreType'
      <3>1. restore' \in Restores  BY <1>2, <2>1, <2>2 DEF RestoreType, Restores
      <3>2. Len(ran') = 0  BY <2>1
      <3> QED  BY <1>2, <2>1, <3>1, <3>2 DEF RestoreType
    <2>4. alone' = target
      <3>1. target = alone /\ DOMAIN foreign \subseteq DOMAIN target
        BY <1>1, <1>2, <2>1, CourseBegins DEF alone
      <3>2. target \in [DOMAIN target -> SUBSET Rows]
        BY <1>2, DatabaseType DEF RestoreType, Restores
      <3>3. alone' = [t \in DOMAIN target |-> target[t]]  BY <2>1, <3>1 DEF alone
      <3> QED  BY <3>2, <3>3
    <2>5. \E g : course(g)'
      <3> DEFINE g == [i \in 0 .. 0 |-> target]
      <3>1. PICK c : c = g  OBVIOUS
      <3>2. Len(ran') = 0 /\ target \in Database  BY <1>2, <2>1 DEF RestoreType, Restores
      <3>3. c \in [0 .. 0 -> Database] /\ c[0] = target  BY <3>1, <3>2
      <3>4. course(c)'  BY <2>1, <2>4, <3>2, <3>3 DEF course
      <3> QED  BY <3>4
    <2>6. Accounted' /\ Gated' /\ Chosen'
      BY <1>2, <2>1 DEF RestoreType, Restores, Accounted, Gated, Chosen, total
    <2> QED  BY <2>3, <2>5, <2>6 DEF RestoreInv
  <1>5. CASE plan_restore \/ plan_restore_fails
    <2>1. /\ restore.pc = "plan" /\ restore'.pc \in {"gate", "refused"} /\ ran = <<>>
          /\ \/ restore' = [restore EXCEPT !.pc = "gate", !.existing = DOMAIN target]
             \/ restore' = [restore EXCEPT !.pc = "refused"]
          /\ UNCHANGED <<target, before, foreign, ran>>
      BY <1>2, <1>5 DEF plan_restore, plan_restore_fails, Accounted, RestoreType, Restores
    <2>2. DOMAIN target \subseteq Tables /\ DOMAIN before \subseteq DOMAIN target
      BY <1>1, <1>2, <2>1, CourseBegins, DatabaseType DEF RestoreType, Restores, alone
    <2>3. RestoreType' /\ restore'.statements = restore.statements
      BY <1>2, <2>1, <2>2 DEF RestoreType, Restores, total
    <2>4. \E g : course(g)'  BY <1>1, <1>2, <2>1, <2>3, CourseKept
    <2>5. /\ restore'.confirmed = restore.confirmed /\ restore'.index = restore.index
          /\ restore'.failures = restore.failures /\ restore'.atomic = restore.atomic
          /\ restore'.statements_run = restore.statements_run
          /\ restore'.pc = "gate" => restore'.existing = DOMAIN target
      BY <1>2, <2>1 DEF RestoreType, Restores
    <2>6. Accounted' /\ Gated' /\ Chosen'
      BY <1>2, <2>1, <2>2, <2>5 DEF Accounted, Gated, Chosen, total
    <2> QED  BY <2>3, <2>4, <2>6 DEF RestoreInv
  <1>6. CASE gate
    <2> DEFINE atomic == Capabilities(engine).has_atomic_restore
    <2>1. /\ restore.pc = "gate" /\ ran = <<>>
          /\ \/ restore' = [restore EXCEPT !.pc = "refused"]
             \/ /\ restore.existing = {} \/ restore.confirmed
                /\ restore' = [restore EXCEPT !.statements = stripped, !.atomic = atomic,
                                              !.pc = IF atomic THEN "batch" ELSE "each"]
          /\ UNCHANGED <<target, before, foreign, ran>>
      BY <1>2, <1>6 DEF gate, is_target_empty, Accounted
    <2>2. stripped \in Seq(Plain) /\ stripped \in Seq(Classified) /\ atomic \in BOOLEAN
      <3>1. stripped \in Seq(Plain)  BY <1>2, StrippedType DEF RestoreType, Restores
      <3>2. Plain \subseteq Classified  BY DEF Plain
      <3>3. stripped \in Seq(Classified)  BY <3>1, <3>2
      <3>4. atomic \in BOOLEAN  BY DEF Capabilities
      <3> QED  BY <3>1, <3>3, <3>4
    <2>3. \E g : course(g)'  BY <1>1, <1>2, <2>1, CourseKept
    <2>4. before \in [DOMAIN before -> SUBSET Rows]  BY <1>2, DatabaseType DEF RestoreType, Restores
    <2>5. DOMAIN before = {} => before = NoTables  BY <2>4 DEF NoTables
    <2> HIDE DEF atomic
    <2>6. CASE restore' = [restore EXCEPT !.pc = "refused"]
      <3>1. /\ restore' \in Restores /\ restore'.pc = "refused"
            /\ restore'.statements = restore.statements /\ restore'.atomic = restore.atomic
            /\ restore'.statements_run = restore.statements_run /\ restore'.index = restore.index
            /\ restore'.failures = restore.failures
        BY <1>2, <2>6 DEF RestoreType, Restores
      <3>2. RestoreType'  BY <1>2, <2>1, <3>1 DEF RestoreType, total
      <3>3. Accounted' /\ Gated' /\ Chosen'
        BY <1>2, <2>1, <3>1 DEF Accounted, Gated, Chosen, total
      <3> QED  BY <2>3, <3>2, <3>3 DEF RestoreInv
    <2>7. CASE /\ restore.existing = {} \/ restore.confirmed
               /\ restore' = [restore EXCEPT !.statements = stripped, !.atomic = atomic,
                                             !.pc = IF atomic THEN "batch" ELSE "each"]
      <3>1. /\ restore' \in Restores /\ restore'.pc = IF atomic THEN "batch" ELSE "each"
            /\ restore'.statements = stripped /\ restore'.atomic = atomic
            /\ restore'.statements_run = restore.statements_run /\ restore'.index = restore.index
            /\ restore'.failures = restore.failures /\ restore'.confirmed = restore.confirmed
        BY <1>2, <2>2, <2>7 DEF RestoreType, Restores
      <3>2. Len(ran') = 0 /\ total' \in Nat /\ restore.index = 1
        BY <1>2, <2>1, <2>2, <3>1 DEF Accounted, total
      <3>3. RestoreType'  BY <1>2, <2>1, <3>1, <3>2 DEF RestoreType
      <3>4. Accounted'  BY <1>2, <2>1, <3>1, <3>2 DEF Accounted
      <3>5. Gated'
        <4>1. ~ restore.confirmed => before = NoTables  BY <1>2, <2>1, <2>5, <2>7 DEF Gated
        <4> QED  BY <2>1, <3>1, <4>1 DEF Gated
      <3>6. Chosen'  BY <1>2, <2>1, <2>2, <3>1, <3>2 DEF Chosen, atomic
      <3> QED  BY <2>3, <3>3, <3>4, <3>5, <3>6 DEF RestoreInv
    <2> QED  BY <2>1, <2>6, <2>7
  <1>7. CASE batch_cancelled
    <2>1. /\ restore.pc = "batch" /\ ran = <<>>
          /\ restore' = [restore EXCEPT !.pc = "ok", !.cancelled = TRUE]
          /\ UNCHANGED <<target, before, foreign, ran>>
      BY <1>2, <1>7 DEF batch_cancelled, Accounted
    <2>2. RestoreType'  BY <1>2, <2>1 DEF RestoreType, Restores, total
    <2>3. \E g : course(g)'  BY <1>1, <1>2, <2>1, CourseKept
    <2>4. Accounted' /\ Gated' /\ Chosen'
      BY <1>2, <2>1 DEF RestoreType, Restores, Accounted, Gated, Chosen, total
    <2> QED  BY <2>2, <2>3, <2>4 DEF RestoreInv
  <1>8. CASE run_atomic
    <2>1. /\ restore.pc = "batch" /\ ran = <<>> /\ ran' = [i \in 1 .. total |-> i]
          /\ restore' = [restore EXCEPT !.pc = "ok", !.statements_run = total]
          /\ target' = DoneUpTo(total) /\ UNCHANGED <<before, foreign>>
      BY <1>2, <1>8 DEF run_atomic, Accounted
    <2>2. \E g : course(g)'  BY <1>1, <1>2, <1>8, <2>1, CourseOfBatch
    <2>3. DoneUpTo(total) \in Database  BY <1>2, PrefixesMove DEF RestoreType, Restores
    <2>4. total' = total /\ Len(ran') = total /\ ran' \in Seq(Nat \ {0})
      <3>1. ran' \in [1 .. total -> Nat \ {0}]  BY <1>2, <2>1
      <3> QED  BY <1>2, <2>1, <3>1 DEF RestoreType, Restores, total
    <2>5. RestoreType'
      <3>1. restore' \in Restores  BY <1>2, <2>1 DEF RestoreType, Restores
      <3>2. \A j \in 1 .. Len(ran') : ran'[j] <= total'  BY <1>2, <2>1, <2>4
      <3> QED  BY <1>2, <2>1, <2>3, <2>4, <3>1, <3>2 DEF RestoreType
    <2>6. Accounted' /\ Gated' /\ Chosen'
      BY <1>2, <2>1, <2>4 DEF RestoreType, Restores, Accounted, Gated, Chosen
    <2> QED  BY <2>2, <2>5, <2>6 DEF RestoreInv
  <1>9. CASE run_atomic_fails
    <2>1. /\ restore.pc = "batch" /\ ran = <<>> /\ ran' = ran
          /\ restore' = [restore EXCEPT !.pc = "failed"]
          /\ UNCHANGED <<before, foreign>>
      BY <1>2, <1>9 DEF run_atomic_fails, Accounted
    <2>2. target' = target
      <3>1. PICK n \in 0 .. total : Runs(n) /\ target' = kept(n)  BY <1>9 DEF run_atomic_fails
      <3> QED  BY <1>2, <2>1, <3>1, NothingKept
    <2>3. RestoreType'  BY <1>2, <2>1, <2>2 DEF RestoreType, Restores, total
    <2>4. \E g : course(g)'  BY <1>1, <1>2, <2>1, <2>2, CourseKept
    <2>5. Accounted' /\ Gated' /\ Chosen'
      BY <1>2, <2>1 DEF RestoreType, Restores, Accounted, Gated, Chosen, total
    <2> QED  BY <2>3, <2>4, <2>5 DEF RestoreInv
  <1>10. CASE each_done
    <2>1. /\ restore.pc = "each" /\ ~ restore.atomic
          /\ restore' = [restore EXCEPT !.pc = "ok", !.cancelled = restore.index <= total]
          /\ UNCHANGED <<target, before, foreign, ran>>
      BY <1>2, <1>10 DEF each_done, Chosen
    <2> DEFINE c == restore.index <= total
    <2>2. c \in BOOLEAN  OBVIOUS
    <2> HIDE DEF c
    <2>3. /\ restore' \in Restores /\ restore'.pc = "ok" /\ restore'.cancelled = c
          /\ restore'.statements = restore.statements /\ restore'.atomic = restore.atomic
          /\ restore'.statements_run = restore.statements_run /\ restore'.index = restore.index
          /\ restore'.failures = restore.failures /\ restore'.confirmed = restore.confirmed
      BY <1>2, <2>1, <2>2 DEF RestoreType, Restores, c
    <2>4. RestoreType'  BY <1>2, <2>1, <2>3 DEF RestoreType, total
    <2>5. \E g : course(g)'  BY <1>1, <1>2, <2>1, <2>3, CourseKept
    <2>6. ~ c => restore.index > total  BY <1>2 DEF c, RestoreType, Restores
    <2>7. Accounted' /\ Gated' /\ Chosen'
      BY <1>2, <2>1, <2>3, <2>6 DEF Accounted, Gated, Chosen, total
    <2> QED  BY <2>4, <2>5, <2>7 DEF RestoreInv
  <1>11. CASE execute
    <2>1. /\ restore.pc = "each" /\ restore.index <= total /\ ~ restore.atomic
          /\ target' = applied(target, statement(restore.index))
          /\ ran' = Append(ran, restore.index)
          /\ restore' = [restore EXCEPT !.index = @ + 1, !.statements_run = @ + 1]
          /\ UNCHANGED <<before, foreign>>
      BY <1>2, <1>11 DEF execute, Chosen
    <2>2. \E g : course(g)'  BY <1>1, <1>2, <1>11, CourseOfExecute
    <2>3. applied(target, statement(restore.index)) \in Database
      <3>1. restore.index \in 1 .. total  BY <1>2, <2>1 DEF RestoreType, Restores
      <3> QED  BY <1>2, <3>1, StatementType, AppliedType DEF RestoreType, Restores
    <2>4. /\ Len(ran') = Len(ran) + 1 /\ ran' \in Seq(Nat \ {0})
          /\ ran'[Len(ran) + 1] = restore.index /\ \A j \in 1 .. Len(ran) : ran'[j] = ran[j]
      BY <1>2, <2>1 DEF RestoreType, Restores
    <2>5. /\ restore' \in Restores /\ restore'.pc = "each" /\ restore'.atomic = restore.atomic
          /\ restore'.statements = restore.statements /\ restore'.index = restore.index + 1
          /\ restore'.statements_run = restore.statements_run + 1
          /\ restore'.failures = restore.failures /\ restore'.confirmed = restore.confirmed
      <3> DEFINE k == restore.index + 1
                 m == restore.statements_run + 1
      <3>1. restore \in Restores /\ k \in Nat \ {0} /\ m \in Nat
        BY <1>2 DEF RestoreType, Restores
      <3>2. restore' = [restore EXCEPT !.index = k, !.statements_run = m]  BY <2>1
      <3>3. restore.pc = "each"  BY <2>1
      <3> HIDE DEF k, m
      <3>4. /\ restore' \in Restores /\ restore'.index = k /\ restore'.statements_run = m
            /\ restore'.pc = restore.pc /\ restore'.atomic = restore.atomic
            /\ restore'.statements = restore.statements /\ restore'.failures = restore.failures
            /\ restore'.confirmed = restore.confirmed
        BY <3>1, <3>2 DEF Restores
      <3> QED  BY <3>3, <3>4 DEF k, m
    <2>6. RestoreType'
      <3>1. total' = total  BY <2>5 DEF total
      <3>2. \A j \in 1 .. Len(ran') : ran'[j] <= total'
        BY <1>2, <2>1, <2>4, <3>1 DEF RestoreType
      <3> QED  BY <1>2, <2>1, <2>3, <2>4, <2>5, <3>2 DEF RestoreType
    <2>7. Accounted'
      <3>1. {ran'[j] : j \in 1 .. Len(ran')} = {ran[j] : j \in 1 .. Len(ran)} \cup {restore.index}
        BY <1>2, <2>4
      <3>2. restore.index \in Nat \ {0} /\ restore.failures \subseteq 1 .. restore.index - 1
        BY <1>2 DEF RestoreType, Restores, Accounted
      <3>3. (1 .. restore.index) \ restore.failures
               = ((1 .. restore.index - 1) \ restore.failures) \cup {restore.index}
        BY <3>2
      <3>4. {ran'[j] : j \in 1 .. Len(ran')} = (1 .. restore'.index - 1) \ restore'.failures
        BY <1>2, <2>1, <2>5, <3>1, <3>2, <3>3 DEF Accounted
      <3>5. restore'.failures \subseteq 1 .. restore'.index - 1  BY <2>5, <3>2
      <3> QED  BY <1>2, <2>1, <2>4, <2>5, <3>4, <3>5 DEF Accounted
    <2>8. Gated' /\ Chosen'  BY <1>2, <2>1, <2>5 DEF Gated, Chosen, total, RestoreType, Restores
    <2> QED  BY <2>2, <2>6, <2>7, <2>8 DEF RestoreInv
  <1>12. CASE execute_fails
    <2>1. /\ restore.pc = "each" /\ restore.index <= total /\ ~ restore.atomic
          /\ restore' = [restore EXCEPT !.pc = IF restore.on_error = "stop" THEN "ok" ELSE "each",
                                        !.index = @ + 1, !.failures = @ \cup {restore.index}]
          /\ UNCHANGED <<target, before, foreign, ran>>
      BY <1>2, <1>12 DEF execute_fails, Chosen
    <2> DEFINE i == restore.index
    <2>2. /\ restore' \in Restores
          /\ restore'.pc = IF restore.on_error = "stop" THEN "ok" ELSE "each"
          /\ restore'.statements = restore.statements /\ restore'.atomic = restore.atomic
          /\ restore'.statements_run = restore.statements_run /\ restore'.index = i + 1
          /\ restore'.failures = restore.failures \cup {i} /\ restore'.on_error = restore.on_error
          /\ restore'.confirmed = restore.confirmed
      <3> DEFINE k == i + 1
                 pc == IF restore.on_error = "stop" THEN "ok" ELSE "each"
                 failures == restore.failures \cup {i}
      <3>1. /\ restore \in Restores /\ k \in Nat \ {0} /\ pc \in {"ok", "each"}
            /\ failures \in SUBSET Nat
        BY <1>2 DEF RestoreType, Restores
      <3>2. restore' = [restore EXCEPT !.pc = pc, !.index = k, !.failures = failures]  BY <2>1
      <3> HIDE DEF k, pc, failures
      <3>3. /\ restore' \in Restores /\ restore'.index = k /\ restore'.failures = failures
            /\ restore'.pc = pc /\ restore'.atomic = restore.atomic
            /\ restore'.statements = restore.statements
            /\ restore'.statements_run = restore.statements_run
            /\ restore'.on_error = restore.on_error /\ restore'.confirmed = restore.confirmed
        BY <3>1, <3>2 DEF Restores
      <3> QED  BY <3>3 DEF k, pc, failures
    <2>3. RestoreType'  BY <1>2, <2>1, <2>2 DEF RestoreType, total
    <2>4. \E g : course(g)'  BY <1>1, <1>2, <2>1, <2>2, CourseKept
    <2>5. i \in Nat \ {0} /\ restore.failures \subseteq 1 .. i - 1
      BY <1>2 DEF RestoreType, Restores, Accounted
    <2>6. restore'.failures \subseteq 1 .. restore'.index - 1  BY <2>2, <2>5
    <2>7. (1 .. i) \ (restore.failures \cup {i}) = (1 .. i - 1) \ restore.failures  BY <2>5
    <2>8. {ran'[j] : j \in 1 .. Len(ran')} = (1 .. restore'.index - 1) \ restore'.failures
      BY <1>2, <2>1, <2>2, <2>5, <2>7 DEF Accounted
    <2>9. Accounted'  BY <1>2, <2>1, <2>2, <2>6, <2>8 DEF Accounted
    <2>10. Gated' /\ Chosen'  BY <1>2, <2>1, <2>2, <2>5 DEF Gated, Chosen, total
    <2> QED  BY <2>3, <2>4, <2>9, <2>10 DEF RestoreInv
  <1>13. CASE cancel_restore
    <2>1. UNCHANGED <<target, before, foreign, ran, restore>>  BY <1>13 DEF cancel_restore
    <2>2. \E g : course(g)'  BY <1>1, <1>2, <2>1, CourseKept
    <2> QED
      BY <1>2, <2>1, <2>2 DEF RestoreInv, RestoreType, Restores, Accounted, Gated, Chosen, total
  <1>14. CASE intrude
    <2>1. \E g : course(g)'  BY <1>1, <1>2, <1>14, CourseOfIntrusion
    <2>2. PICK t \in Tables \ DOMAIN target, r \in Rows :
             /\ target' = with_table(target, t, {r}) /\ foreign' = with_table(foreign, t, {r})
             /\ UNCHANGED <<restore, before, ran>>
      BY <1>14 DEF intrude, with_table
    <2>3. target' \in Database /\ foreign' \in Database
      <3>1. {r} \in SUBSET Rows /\ t \in Tables  OBVIOUS
      <3> QED  BY <1>2, <2>2, <3>1, WithTableType DEF RestoreType, Restores
    <2>4. RestoreType'  BY <1>2, <2>2, <2>3 DEF RestoreType, Restores, total
    <2>5. Accounted' /\ Gated' /\ Chosen'
      BY <1>2, <2>2 DEF RestoreType, Restores, Accounted, Gated, Chosen, total
    <2> QED  BY <2>1, <2>4, <2>5 DEF RestoreInv
  <1> QED
    BY <1>3, <1>4, <1>5, <1>6, <1>7, <1>8, <1>9, <1>10, <1>11, <1>12, <1>13, <1>14
       DEF RestoreNext, Restoring
-------------------------------------------------------------------------------
(***************************************************************************)
(* The dump: tables, pages and batches.                                    *)
(***************************************************************************)
N == Len(TablesByName)
T(j) == TablesByName[j]

\* list_tables names every table once.
LEMMA TablesListed ==
    /\ N \in Nat /\ \A j \in 1 .. N : T(j) \in Tables
    /\ \A t \in Tables : \E j \in 1 .. N : T(j) = t
    /\ \A i, j \in 1 .. N : T(i) = T(j) => i = j
  <1>1. N \in Nat /\ TablesByName \in [1 .. N -> Tables]  BY TableAssumption DEF N
  <1>2. \A t \in Tables : \E j \in 1 .. N : T(j) = t  BY DEF Tables, N, T
  <1>3. TablesByName \in Surjection(1 .. N, Tables)  BY <1>1, <1>2 DEF Surjection, T
  <1>4. IsFiniteSet(1 .. N) /\ Cardinality(1 .. N) = N
    <2>1. 1 \in Int /\ N \in Int  BY <1>1
    <2> QED  BY <1>1, <2>1, FS_Interval
  <1>5. TablesByName \in Injection(1 .. N, Tables)
    BY <1>3, <1>4, FS_Surjection, TableAssumption DEF N
  <1>6. \A i, j \in 1 .. N : T(i) = T(j) => i = j  BY <1>5 DEF Injection, IsInjective, T
  <1> QED  BY <1>1, <1>2, <1>6 DEF T

\* Keys are the numbers up to some number.
LEMMA KeysFinite ==
    /\ IsFiniteSet(Keys) /\ Keys \subseteq Nat \ {0}
    /\ \E n \in Nat : Keys = 1 .. n
  BY KeyAssumption, FS_CardinalityType

\* What the dump writes are chunks.
LEMMA ChunkType ==
    ASSUME NEW kind \in {"ddl", "insert"}, NEW t \in Tables, NEW rows \in SUBSET Rows,
           NEW ends \in BOOLEAN
    PROVE  Chunk(kind, t, rows, ends) \in Chunks
  BY DEF Chunk, Chunks

\* Every number from 1 to n falls into one batch of size b, and into no other.
LEMMA Batched ==
    ASSUME NEW b \in Nat \ {0}, NEW n \in Nat, NEW m \in 1 .. n
    PROVE  \E i \in 1 .. (n + b - 1) \div b : m \in (i - 1) * b + 1 .. i * b
  <1> DEFINE i == (m + b - 1) \div b
             last == (n + b - 1) \div b
  <1>1. i \in Nat /\ i * b <= m + b - 1 /\ m + b - 1 < (i + 1) * b  OBVIOUS
  <1>2. last \in Nat /\ last * b <= n + b - 1 /\ n + b - 1 < (last + 1) * b  OBVIOUS
  <1> HIDE DEF i, last
  <1>3. (i + 1) * b = i * b + b /\ (i - 1) * b = i * b - b /\ (last + 1) * b = last * b + b
        /\ i * b \in Int /\ last * b \in Int
    BY <1>1, <1>2
  <1>4. m \in (i - 1) * b + 1 .. i * b  BY <1>1, <1>3
  <1>5. i >= 1
    <2>1. CASE i = 0  BY <1>1, <2>1
    <2> QED  BY <1>1, <2>1
  <1>6. i <= last
    <2> SUFFICES ASSUME i >= last + 1 PROVE FALSE  BY <1>1, <1>2
    <2>1. i * b >= (last + 1) * b  BY <1>1, <1>2
    <2> QED  BY <1>1, <1>2, <1>3, <2>1
  <1> QED  BY <1>1, <1>2, <1>4, <1>5, <1>6 DEF last

\* Batches do not overlap.
LEMMA OneBatch ==
    ASSUME NEW b \in Nat \ {0}, NEW i \in Nat, NEW j \in Nat, NEW m \in Nat,
           m \in (i - 1) * b + 1 .. i * b, m \in (j - 1) * b + 1 .. j * b
    PROVE  i = j
  <1>1. \A x, y \in Nat : x < y => x * b <= (y - 1) * b
    <2> SUFFICES ASSUME NEW x \in Nat, NEW y \in Nat, x < y PROVE x * b <= (y - 1) * b  OBVIOUS
    <2>1. PICK d \in Nat : y - 1 = x + d
      <3>1. (y - 1) - x \in Nat /\ y - 1 = x + ((y - 1) - x)  OBVIOUS
      <3> QED  BY <3>1
    <2>2. (x + d) * b = x * b + d * b /\ d * b >= 0 /\ x * b \in Nat /\ d * b \in Nat  OBVIOUS
    <2> QED  BY <2>1, <2>2
  <1>2. i * b \in Int /\ (i - 1) * b \in Int /\ j * b \in Int /\ (j - 1) * b \in Int  OBVIOUS
  <1>3. ~ i < j
    <2> SUFFICES ASSUME i < j PROVE FALSE  OBVIOUS
    <2>1. i * b <= (j - 1) * b  BY <1>1
    <2> QED  BY <1>2, <2>1
  <1>4. ~ j < i
    <2> SUFFICES ASSUME j < i PROVE FALSE  OBVIOUS
    <2>1. j * b <= (i - 1) * b  BY <1>1
    <2> QED  BY <1>2, <2>1
  <1> QED  BY <1>3, <1>4
-------------------------------------------------------------------------------
(***************************************************************************)
(* Which chunk of a script inserts which row.                              *)
(***************************************************************************)
puts(chunk, t, k) ==
    chunk.kind = "insert" /\ chunk.table = t /\ \E r \in chunk.rows : r.key = k

None(s, t, k) == \A i \in 1 .. Len(s) : ~ puts(s[i], t, k)
Once(s, t, k) == \A i, j \in 1 .. Len(s) : puts(s[i], t, k) /\ puts(s[j], t, k) => i = j
Has(s, t, r) ==
    \E i \in 1 .. Len(s) : s[i].kind = "insert" /\ s[i].table = t /\ r \in s[i].rows
AllEnd(s) == \A i \in 1 .. Len(s) : s[i].ends

\* A key that is put once counts as one row, one that is not counts as none.
LEMMA Counted ==
    ASSUME NEW s, Len(s) \in Nat, NEW t, NEW k, Once(s, t, k)
    PROVE  Inserted(s, t, k) <= 1 /\ (~ None(s, t, k) => Inserted(s, t, k) = 1)
  <1> DEFINE P == {i \in 1 .. Len(s) : puts(s[i], t, k)}
  <1>1. Inserted(s, t, k) = Cardinality(P)
    <2>1. P = {i \in 1 .. Len(s) : s[i].kind = "insert" /\ s[i].table = t
                                      /\ \E r \in s[i].rows : r.key = k}
      BY DEF puts
    <2> QED  BY <2>1 DEF Inserted
  <1>2. CASE None(s, t, k)
    <2>1. P = {}  BY <1>2 DEF None
    <2> QED  BY <1>1, <1>2, <2>1, FS_EmptySet
  <1>3. CASE ~ None(s, t, k)
    <2>1. PICK i \in 1 .. Len(s) : puts(s[i], t, k)  BY <1>3 DEF None
    <2>2. P = {i}  BY <2>1 DEF Once
    <2>3. Cardinality({i}) = 1  BY FS_Singleton
    <2> HIDE DEF P
    <2>4. Inserted(s, t, k) = 1  BY <1>1, <2>2, <2>3
    <2> QED  BY <2>4
  <1> QED  BY <1>2, <1>3

\* A row that is in a script is put by it.
LEMMA HasPuts ==
    ASSUME NEW s, NEW t, NEW r, Has(s, t, r)
    PROVE  ~ None(s, t, r.key) /\ r \in RowsIn(s, t)
  <1>1. PICK i \in 1 .. Len(s) : s[i].kind = "insert" /\ s[i].table = t /\ r \in s[i].rows
    BY DEF Has
  <1>2. puts(s[i], t, r.key)  BY <1>1 DEF puts
  <1> QED  BY <1>1, <1>2 DEF None, RowsIn

\* The chunks of two scripts one after the other.
LEMMA Joined ==
    ASSUME NEW X, NEW a \in Seq(X), NEW b \in Seq(X)
    PROVE  /\ a \o b \in Seq(X) /\ Len(a \o b) = Len(a) + Len(b)
           /\ Len(a) \in Nat /\ Len(b) \in Nat
           /\ \A i \in 1 .. Len(a) : (a \o b)[i] = a[i]
           /\ \A i \in 1 .. Len(b) : (a \o b)[Len(a) + i] = b[i]
           /\ \A i \in 1 .. Len(a) + Len(b) :
                 i \in 1 .. Len(a) \/ (i - Len(a) \in 1 .. Len(b) /\ (a \o b)[i] = b[i - Len(a)])
  OBVIOUS

\* What neither of two scripts puts they do not put together.
LEMMA NoneJoined ==
    ASSUME NEW a \in Seq(Chunks), NEW b \in Seq(Chunks), NEW t, NEW k, None(a, t, k), None(b, t, k)
    PROVE  None(a \o b, t, k)
  BY Joined DEF None

\* What one of two scripts puts once, and the other not, they put once together.
LEMMA OnceJoined ==
    ASSUME NEW a \in Seq(Chunks), NEW b \in Seq(Chunks), NEW t, NEW k,
           \/ Once(a, t, k) /\ None(b, t, k)
           \/ None(a, t, k) /\ Once(b, t, k)
    PROVE  Once(a \o b, t, k)
  <1> SUFFICES ASSUME NEW i \in 1 .. Len(a \o b), NEW j \in 1 .. Len(a \o b),
                      puts((a \o b)[i], t, k), puts((a \o b)[j], t, k)
               PROVE  i = j
    BY DEF Once
  <1>1. /\ Len(a) \in Nat /\ Len(b) \in Nat /\ i \in 1 .. Len(a) + Len(b)
        /\ j \in 1 .. Len(a) + Len(b)
    BY Joined
  <1>2. \/ i \in 1 .. Len(a) /\ (a \o b)[i] = a[i]
        \/ i - Len(a) \in 1 .. Len(b) /\ (a \o b)[i] = b[i - Len(a)]
    <2> QED  BY <1>1, Joined
  <1>3. \/ j \in 1 .. Len(a) /\ (a \o b)[j] = a[j]
        \/ j - Len(a) \in 1 .. Len(b) /\ (a \o b)[j] = b[j - Len(a)]
    <2> QED  BY <1>1, Joined
  <1>4. CASE Once(a, t, k) /\ None(b, t, k)
    <2>1. i \in 1 .. Len(a) /\ j \in 1 .. Len(a)  BY <1>2, <1>3, <1>4 DEF None
    <2>2. puts(a[i], t, k) /\ puts(a[j], t, k)  BY <2>1, Joined
    <2> QED  BY <1>4, <2>1, <2>2 DEF Once
  <1>5. CASE None(a, t, k) /\ Once(b, t, k)
    <2>1. /\ i - Len(a) \in 1 .. Len(b) /\ j - Len(a) \in 1 .. Len(b)
          /\ puts(b[i - Len(a)], t, k) /\ puts(b[j - Len(a)], t, k)
      BY <1>2, <1>3, <1>5 DEF None
    <2>2. i - Len(a) = j - Len(a)  BY <1>5, <2>1 DEF Once
    <2> QED  BY <1>1, <2>2
  <1> QED  BY <1>4, <1>5

\* What one of two scripts has they have together.
LEMMA HasJoined ==
    ASSUME NEW a \in Seq(Chunks), NEW b \in Seq(Chunks), NEW t, NEW r,
           Has(a, t, r) \/ Has(b, t, r)
    PROVE  Has(a \o b, t, r)
  <1>1. CASE Has(a, t, r)
    <2>1. PICK i \in 1 .. Len(a) : a[i].kind = "insert" /\ a[i].table = t /\ r \in a[i].rows
      BY <1>1 DEF Has
    <2>2. i \in 1 .. Len(a \o b) /\ (a \o b)[i] = a[i]  BY Joined
    <2> QED  BY <2>1, <2>2 DEF Has
  <1>2. CASE Has(b, t, r)
    <2>1. PICK i \in 1 .. Len(b) : b[i].kind = "insert" /\ b[i].table = t /\ r \in b[i].rows
      BY <1>2 DEF Has
    <2>2. Len(a) + i \in 1 .. Len(a \o b) /\ (a \o b)[Len(a) + i] = b[i]  BY Joined
    <2> QED  BY <2>1, <2>2 DEF Has
  <1> QED  BY <1>1, <1>2

\* Two scripts whose chunks all end make one whose chunks all end.
LEMMA EndJoined ==
    ASSUME NEW a \in Seq(Chunks), NEW b \in Seq(Chunks), AllEnd(a), AllEnd(b)
    PROVE  AllEnd(a \o b)
  BY Joined DEF AllEnd

\* A CREATE TABLE inserts nothing.
LEMMA DdlAppended ==
    ASSUME NEW s \in Seq(Chunks), NEW t \in Tables, NEW ends \in BOOLEAN
    PROVE  LET c == Chunk("ddl", t, {}, ends)
               e == Append(s, c)
           IN /\ e \in Seq(Chunks)
              /\ \A u, k : None(s, u, k) => None(e, u, k)
              /\ \A u, k : Once(s, u, k) => Once(e, u, k)
              /\ \A u, r : Has(s, u, r) => Has(e, u, r)
              /\ ends /\ AllEnd(s) => AllEnd(e)
  <1> DEFINE c == Chunk("ddl", t, {}, ends)
  <1>1. c \in Chunks /\ c.kind = "ddl" /\ c.ends = ends
    <2>1. {} \in SUBSET Rows  OBVIOUS
    <2> QED  BY <2>1 DEF Chunk, Chunks
  <1> HIDE DEF c
  <1>2. <<c>> \in Seq(Chunks) /\ Len(<<c>>) = 1 /\ <<c>>[1] = c  BY <1>1
  <1>3. Append(s, c) = s \o <<c>>  BY <1>1
  <1>4. \A u, k : None(<<c>>, u, k) /\ Once(<<c>>, u, k)  BY <1>1, <1>2 DEF None, Once, puts
  <1>5. ends => AllEnd(<<c>>)
    <2>1. \A i \in 1 .. Len(<<c>>) : <<c>>[i] = c  BY <1>2
    <2>2. c.ends = ends  BY <1>1
    <2> HIDE DEF c
    <2> QED  BY <2>1, <2>2, Zenon DEF AllEnd
  <1>6. s \o <<c>> \in Seq(Chunks)  BY <1>2
  <1> QED
    BY <1>2, <1>3, <1>4, <1>5, <1>6, NoneJoined, OnceJoined, HasJoined, EndJoined DEF c
-------------------------------------------------------------------------------
(***************************************************************************)
(* What a page is, and what the dump writes of it.                         *)
(***************************************************************************)
Databases == [Tables -> [Keys -> Versions \cup {0}]]
one_each(page) == \A r, s \in page : r.key = s.key => r = s

\* A table has finitely many rows, one for each key at most.
LEMMA RowsFinite ==
    ASSUME source \in Databases, NEW t \in Tables
    PROVE  rows_of(t) \in SUBSET Rows /\ IsFiniteSet(rows_of(t)) /\ one_each(rows_of(t))
  <1> DEFINE rows == rows_of(t)
             f == [r \in rows |-> r.key]
  <1>1. \A k \in Keys : source[t][k] \in Versions \cup {0}  BY DEF Databases
  <1>2. rows \in SUBSET Rows  BY <1>1 DEF rows_of, Rows
  <1>3. one_each(rows)  BY DEF rows_of, one_each
  <1>4. \A r \in rows : r.key \in Keys  BY <1>2 DEF Rows
  <1>5. f \in Injection(rows, Keys)
    <2> HIDE DEF rows
    <2>1. f \in [rows -> Keys] /\ \A r, s \in rows : f[r] = f[s] => r = s
      BY <1>3, <1>4 DEF one_each
    <2> QED  BY <2>1 DEF Injection, IsInjective
  <1>6. IsFiniteSet(rows)  BY <1>5, KeysFinite, FS_Injection
  <1> QED  BY <1>2, <1>3, <1>6

\* Every row of a page has its place on it.
LEMMA Ranked ==
    ASSUME NEW page \in SUBSET Rows, IsFiniteSet(page), NEW r \in page
    PROVE  rank(page, r) \in 1 .. Cardinality(page) /\ Cardinality(page) \in Nat
  <1> DEFINE A == {s \in page : s.key <= r.key}
  <1>1. IsFiniteSet(A) /\ Cardinality(A) <= Cardinality(page)
    <2>1. A \in SUBSET page  OBVIOUS
    <2> QED  BY <2>1, FS_Subset
  <1>2. Cardinality(A) \in Nat /\ Cardinality(page) \in Nat  BY <1>1, FS_CardinalityType
  <1>3. A # {}
    <2>1. r.key \in Nat  BY KeysFinite DEF Rows
    <2>2. r \in A  BY <2>1
    <2> QED  BY <2>2
  <1>4. Cardinality(A) # 0  BY <1>1, <1>3, FS_EmptySet
  <1>5. rank(page, r) = Cardinality(A)  BY DEF rank
  <1> HIDE DEF A
  <1> QED  BY <1>1, <1>2, <1>4, <1>5

\* The INSERTs of a page hold every row of it once, and no other row.
LEMMA InsertsOf ==
    ASSUME NEW t \in Tables, NEW page \in SUBSET Rows, IsFiniteSet(page), one_each(page)
    PROVE  /\ inserts(t, page) \in Seq(Chunks) /\ AllEnd(inserts(t, page))
           /\ \A k : Once(inserts(t, page), t, k)
           /\ \A k : (\A r \in page : r.key # k) => None(inserts(t, page), t, k)
           /\ \A r \in page : Has(inserts(t, page), t, r)
           /\ \A u, k : u # t => None(inserts(t, page), u, k)
  <1> DEFINE b == BatchRows
             n == Cardinality(page)
             last == (n + b - 1) \div b
             batch(i) == {r \in page : rank(page, r) \in (i - 1) * b + 1 .. i * b}
             ins == inserts(t, page)
  <1>1. b \in Nat \ {0} /\ n \in Nat  BY PageAssumption, FS_CardinalityType
  <1>2. last \in Nat  BY <1>1
  <1>3. ins = [i \in 1 .. last |-> Chunk("insert", t, batch(i), TRUE)]  BY DEF inserts
  <1>4. \A r \in page : rank(page, r) \in 1 .. n  BY Ranked
  <1>5. ASSUME NEW r \in page PROVE \E i \in 1 .. last : r \in batch(i)
    <2>1. rank(page, r) \in 1 .. n  BY <1>4
    <2>2. PICK i \in 1 .. last : rank(page, r) \in (i - 1) * b + 1 .. i * b
      BY <1>1, <2>1, Batched
    <2> QED  BY <2>2
  <1>6. ASSUME NEW i \in 1 .. last, NEW j \in 1 .. last, NEW r \in page,
               r \in batch(i), r \in batch(j)
        PROVE  i = j
    <2>1. /\ rank(page, r) \in (i - 1) * b + 1 .. i * b
          /\ rank(page, r) \in (j - 1) * b + 1 .. j * b
      BY <1>6
    <2>2. rank(page, r) \in Nat /\ i \in Nat /\ j \in Nat  BY <1>1, <1>2, <1>4
    <2> QED  BY <1>1, <2>1, <2>2, OneBatch
  <1>7. \A i \in 1 .. last : batch(i) \in SUBSET Rows /\ batch(i) \subseteq page  OBVIOUS
  <1> HIDE DEF batch, last
  <1>8. \A i \in 1 .. last : /\ ins[i] \in Chunks /\ ins[i].kind = "insert" /\ ins[i].table = t
                             /\ ins[i].rows = batch(i) /\ ins[i].ends = TRUE
    BY <1>3, <1>7 DEF Chunk, Chunks
  <1>9. ins \in Seq(Chunks) /\ Len(ins) = last
    <2>1. ins \in [1 .. last -> Chunks]  BY <1>3, <1>8
    <2> QED  BY <1>2, <2>1
  <1> HIDE DEF ins
  <1>10. AllEnd(ins)  BY <1>8, <1>9, Zenon DEF AllEnd
  <1>11. ASSUME NEW k PROVE Once(ins, t, k)
    <2> SUFFICES ASSUME NEW i \in 1 .. last, NEW j \in 1 .. last,
                        puts(ins[i], t, k), puts(ins[j], t, k)
                 PROVE  i = j
      BY <1>9 DEF Once
    <2>1. PICK r \in batch(i) : r.key = k  BY <1>8 DEF puts
    <2>2. PICK s \in batch(j) : s.key = k  BY <1>8 DEF puts
    <2>3. r = s  BY <1>7, <2>1, <2>2 DEF one_each
    <2> QED  BY <1>6, <1>7, <2>1, <2>2, <2>3
  <1>12. ASSUME NEW k, \A r \in page : r.key # k PROVE None(ins, t, k)
    BY <1>7, <1>8, <1>9, <1>12 DEF None, puts
  <1>13. ASSUME NEW r \in page PROVE Has(ins, t, r)
    <2>1. PICK i \in 1 .. last : r \in batch(i)  BY <1>5
    <2> QED  BY <1>8, <1>9, <2>1 DEF Has
  <1>14. ASSUME NEW u, NEW k, u # t PROVE None(ins, u, k)  BY <1>8, <1>9, <1>14 DEF None, puts
  <1> QED  BY <1>9, <1>10, <1>11, <1>12, <1>13, <1>14 DEF ins

\* A page is rows after the cursor; one that is not full is all of them, and a
\* full one of a table with a key is those with the smallest keys.
LEMMA PageOf ==
    ASSUME source \in Databases, NEW t \in Tables, NEW cursor \in Nat,
           NEW page \in pages(t, cursor)
    PROVE  /\ page \in SUBSET Rows /\ IsFiniteSet(page) /\ one_each(page)
           /\ page \subseteq rows_of(t) /\ Cardinality(page) \in Nat
           /\ keyed(t) => \A r \in page : r.key > cursor
           /\ Cardinality(page) < PageRows => page = after(t, cursor)
           /\ page = {} => after(t, cursor) = {}
           /\ keyed(t) => \A r \in page, s \in after(t, cursor) \ page : r.key < s.key
  <1> DEFINE found == after(t, cursor)
             n == Cardinality(found)
  <1>1. found \subseteq rows_of(t) /\ (keyed(t) => \A r \in found : r.key > cursor)  BY DEF after
  <1>2. rows_of(t) \in SUBSET Rows /\ IsFiniteSet(rows_of(t)) /\ one_each(rows_of(t))
    BY RowsFinite
  <1>3. IsFiniteSet(found) /\ n \in Nat
    <2>1. IsFiniteSet(found)  BY <1>1, <1>2, FS_Subset
    <2> QED  BY <2>1, FS_CardinalityType
  <1>4. /\ page \subseteq found /\ Cardinality(page) = IF n < PageRows THEN n ELSE PageRows
        /\ keyed(t) => \A r \in page : \A s \in found \ page : r.key < s.key
    BY DEF pages
  <1> HIDE DEF found
  <1>5. IsFiniteSet(page) /\ Cardinality(page) \in Nat /\ (n = Cardinality(page) => found = page)
    <2>1. IsFiniteSet(page) /\ (n = Cardinality(page) => found = page)
      BY <1>3, <1>4, FS_Subset
    <2> QED  BY <2>1, FS_CardinalityType
  <1>6. PageRows \in Nat \ {0}  BY PageAssumption
  <1>7. Cardinality(page) < PageRows => page = found  BY <1>3, <1>4, <1>5, <1>6
  <1>8. page = {} => found = {}
    <2>1. page = {} => Cardinality(page) = 0  BY FS_EmptySet
    <2> QED  BY <1>6, <1>7, <2>1
  <1>9. one_each(page)  BY <1>1, <1>2, <1>4 DEF one_each
  <1>10. page \in SUBSET Rows /\ page \subseteq rows_of(t)  BY <1>1, <1>2, <1>4
  <1> QED  BY <1>1, <1>4, <1>5, <1>7, <1>8, <1>9, <1>10 DEF found

\* The cursor after a full page is the largest key on it.
LEMMA CursorOf ==
    ASSUME NEW page \in SUBSET Rows, page # {}
    PROVE  /\ cursor_from_last_row(page) \in Nat \ {0}
           /\ \E r \in page : r.key = cursor_from_last_row(page)
           /\ \A r \in page : r.key <= cursor_from_last_row(page)
  <1> DEFINE S == {r.key : r \in page}
  <1>1. PICK n \in Nat : Keys = 1 .. n  BY KeysFinite
  <1>2. S \in SUBSET (0 .. n) /\ S # {}  BY <1>1 DEF Rows
  <1>3. PICK x \in S : \A y \in S : y <= x  BY <1>2, Largest
  <1>4. \E r \in page : \A s \in page : s.key <= r.key  BY <1>3
  <1> DEFINE top == CHOOSE r \in page : \A s \in page : s.key <= r.key
  <1>5. top \in page /\ \A s \in page : s.key <= top.key  BY <1>4
  <1>6. cursor_from_last_row(page) = top.key  BY DEF cursor_from_last_row
  <1> HIDE DEF top
  <1>7. top.key \in Nat \ {0}  BY <1>5, KeysFinite DEF Rows
  <1> QED  BY <1>5, <1>6, <1>7
-------------------------------------------------------------------------------
(***************************************************************************)
(* The dump: what is in the script already, and what is not yet.           *)
(***************************************************************************)
Terminated == \A e \in Engines : Capabilities(e).terminated

Dumps ==
    [pc : {"idle", "plan", "create", "table", "ddl", "describe", "page", "finish", "ok", "error"},
     caller : {"desktop", "agent"}, plan : Seq(Tables), index : Nat \ {0}, cursor : Nat,
     buffer : Seq(Chunks), dumped : SUBSET Tables, rows_written : Nat,
     failures : SUBSET Tables, truncations : SUBSET Tables, cancelled : BOOLEAN]

DumpType ==
    /\ engine \in Engines
    /\ path \in [exists : BOOLEAN, script : Seq(Chunks)]
    /\ source \in Databases
    /\ dump \in Dumps

\* What has been written by now.
script == IF dump.pc = "ok" THEN path.script ELSE dump.buffer
AtTable == {"table", "ddl", "describe", "page"}
Writing == AtTable \cup {"finish"}
begun == dump.pc \in Writing \cup {"ok"}
untouched(t) == {r \in rows_of(t) : <<t, r.key>> \notin touched}

\* The loop is at a table that was planned.
Placed ==
    /\ dump.pc \in {"idle", "plan", "create"} =>
          dump.buffer = <<>> /\ dump.index = 1 /\ ~ dump.cancelled
    /\ dump.pc \in Writing => path.script = <<>>
    /\ begun \/ dump.pc = "create" => dump.plan = TablesByName
    /\ dump.pc \in {"ddl", "describe", "page"} => dump.index <= N
    /\ dump.pc \in {"finish", "ok"} /\ ~ dump.cancelled => dump.index > N

\* Every table behind it is accounted for.
Told ==
    begun => \A j \in 1 .. N : j < dump.index => T(j) \in dump.dumped \cup dump.failures

\* No row of a table with a key is written twice.
Single == begun => \A t \in Tables : keyed(t) => \A k \in Keys : Once(script, t, k)

\* A table behind it that was neither given up nor cut short is in the script.
Held ==
    begun => \A j \in 1 .. N : j < dump.index /\ T(j) \notin dump.failures \cup dump.truncations =>
        \A r \in untouched(T(j)) : Once(script, T(j), r.key) /\ Has(script, T(j), r)

\* Nothing of the tables ahead of it is.
Ahead ==
    dump.pc \in AtTable => \A j \in 1 .. N :
        j > dump.index \/ (j = dump.index /\ dump.pc # "page") =>
            \A k \in Keys : None(dump.buffer, T(j), k)

\* Of the table it is at, the rows up to the cursor are, and those after it are not.
Midway ==
    dump.pc = "page" =>
        /\ keyed(table) => /\ \A k \in Keys : k > dump.cursor => None(dump.buffer, table, k)
                           /\ \A r \in untouched(table) :
                                 r.key <= dump.cursor => Has(dump.buffer, table, r)
        /\ ~ keyed(table) => \A k \in Keys : None(dump.buffer, table, k)

Ended == Terminated /\ begun => AllEnd(script)

DumpInv == DumpType /\ Placed /\ Told /\ Single /\ Held /\ Ahead /\ Midway /\ Ended

\* Before it starts the dump has written nothing.
LEMMA DumpBegins ==
    ASSUME Init
    PROVE  DumpInv
  <1>1. engine \in Engines /\ source \in Databases /\ dump = NoDump
    BY SourceAssumption DEF Init, DumpInit, Databases
  <1>2. path \in [exists : BOOLEAN, script : Seq(Chunks)]
    <2>1. <<>> \in Seq(Chunks) /\ \A s \in ForeignScripts : s \in Seq(Chunks)  BY ScriptAssumption
    <2>2. path = [exists |-> FALSE, script |-> <<>>]
          \/ \E s \in ForeignScripts : path = [exists |-> TRUE, script |-> s]
      BY DEF Init
    <2>3. \A X : \A s \in X, e \in BOOLEAN :
             [exists |-> e, script |-> s] \in [exists : BOOLEAN, script : X]
      OBVIOUS
    <2>4. PICK e \in BOOLEAN, s \in Seq(Chunks) : path = [exists |-> e, script |-> s]
      BY <2>1, <2>2, Zenon
    <2> QED  BY <2>3, <2>4, Zenon
  <1>3. NoDump \in Dumps
    <2>1. <<>> \in Seq(Chunks) /\ <<>> \in Seq(Tables)  OBVIOUS
    <2> QED  BY <2>1 DEF NoDump, Dumps
  <1>4. /\ dump.pc = "idle" /\ dump.buffer = <<>> /\ dump.index = 1 /\ dump.cancelled = FALSE
    BY <1>1 DEF NoDump
  <1> QED
    BY <1>1, <1>2, <1>3, <1>4
       DEF DumpInv, DumpType, Placed, Told, Single, Held, Ahead, Midway, Ended, begun, Writing,
           AtTable

\* The table the loop is at.
LEMMA AtOne ==
    ASSUME DumpInv, dump.pc \in {"ddl", "describe", "page"}
    PROVE  /\ dump.index \in 1 .. N /\ N \in Nat /\ table = T(dump.index) /\ table \in Tables
           /\ \A j \in 1 .. N : T(j) = table => j = dump.index
           /\ script = dump.buffer /\ begun /\ dump.pc \in AtTable
  <1>1. dump.index \in Nat \ {0} /\ dump.index <= N  BY DEF DumpInv, DumpType, Dumps, Placed
  <1>2. begun /\ dump.pc \in AtTable  BY DEF begun, Writing, AtTable
  <1>3. dump.plan = TablesByName  BY <1>2 DEF DumpInv, Placed
  <1>4. dump.index \in 1 .. N  BY <1>1, TablesListed
  <1>5. table = T(dump.index)  BY <1>3 DEF table, T
  <1> QED  BY <1>2, <1>4, <1>5, TablesListed DEF script

\* A change by somebody else leaves the rows it did not touch as they were.
LEMMA ChangeKept ==
    ASSUME DumpInv, change
    PROVE  DumpInv'
  <1>1. PICK t \in Tables, k \in Keys, version \in Versions \cup {0} :
           /\ source' = [source EXCEPT ![t][k] = version]
           /\ touched' = touched \cup {<<t, k>>}
    BY DEF change
  <1>2. UNCHANGED <<engine, path, dump>>  BY DEF change, FileVars
  <1>3. source' \in Databases  BY <1>1 DEF DumpInv, DumpType, Databases
  <1>4. ASSUME NEW u \in Tables PROVE untouched(u)' \subseteq untouched(u)
    <2> SUFFICES ASSUME NEW r \in untouched(u)' PROVE r \in untouched(u)  OBVIOUS
    <2>1. PICK i \in Keys : /\ source'[u][i] # 0 /\ r = [key |-> i, version |-> source'[u][i]]
                            /\ <<u, i>> \notin touched'
      BY DEF untouched, rows_of
    <2>2. <<u, i>> \notin touched /\ ~ (u = t /\ i = k)  BY <1>1, <2>1
    <2>3. source'[u][i] = source[u][i]  BY <1>1, <2>2 DEF DumpInv, DumpType, Databases
    <2> QED  BY <2>1, <2>2, <2>3 DEF untouched, rows_of
  <1>5. script' = script /\ begun' = begun /\ table' = table  BY <1>2 DEF script, begun, table
  <1>6. (DumpType /\ Placed /\ Told /\ Single /\ Ahead /\ Ended)'
    BY <1>2, <1>3, <1>5
       DEF DumpInv, DumpType, Placed, Told, Single, Ahead, Ended
  <1>7. Held'
    <2> SUFFICES ASSUME begun, NEW j \in 1 .. N, j < dump.index,
                        T(j) \notin dump.failures \cup dump.truncations,
                        NEW r \in untouched(T(j))'
                 PROVE  Once(script, T(j), r.key) /\ Has(script, T(j), r)
      BY <1>2, <1>5 DEF Held
    <2>1. r \in untouched(T(j))  BY <1>4, TablesListed
    <2> QED  BY <2>1 DEF DumpInv, Held
  <1>8. Midway'
    <2>1. dump.pc = "page" => untouched(table)' \subseteq untouched(table)
      BY <1>4, <1>5, AtOne
    <2> QED  BY <1>2, <1>5, <2>1 DEF DumpInv, Midway
  <1> QED  BY <1>6, <1>7, <1>8 DEF DumpInv
-------------------------------------------------------------------------------
\* A script that goes on with rows of the table the loop is at only.
grows(b) ==
    /\ b \in Seq(Chunks)
    /\ AllEnd(dump.buffer) => AllEnd(b)
    /\ \A u \in Tables \ {table} : \A k :
          /\ None(dump.buffer, u, k) => None(b, u, k)
          /\ Once(dump.buffer, u, k) => Once(b, u, k)
    /\ \A u, r : Has(dump.buffer, u, r) => Has(b, u, r)
    /\ keyed(table) => \A k \in Keys : Once(b, table, k)

\* The loop goes on to the next table, having told what became of this one.
leaves ==
    /\ dump' \in Dumps
    /\ dump'.pc = "table" /\ dump'.index = dump.index + 1 /\ dump'.plan = dump.plan
    /\ table \in dump'.dumped \cup dump'.failures
    /\ dump.dumped \subseteq dump'.dumped /\ dump.failures \subseteq dump'.failures
    /\ dump.truncations \subseteq dump'.truncations
    /\ table \notin dump'.failures \cup dump'.truncations =>
          \A r \in untouched(table) :
              Once(dump'.buffer, table, r.key) /\ Has(dump'.buffer, table, r)
    /\ UNCHANGED <<engine, path, source, touched>>

\* However the loop leaves a table, the invariant is kept.
LEMMA LeavingKept ==
    ASSUME DumpInv, dump.pc \in {"ddl", "describe", "page"}, leaves, grows(dump'.buffer)
    PROVE  DumpInv'
  <1> DEFINE b == dump'.buffer
  <1>1. /\ dump.index \in 1 .. N /\ N \in Nat /\ table = T(dump.index) /\ table \in Tables
        /\ \A j \in 1 .. N : T(j) = table => j = dump.index
        /\ script = dump.buffer /\ begun /\ dump.pc \in AtTable
    BY AtOne
  <1>2. script' = b /\ begun' /\ dump'.pc = "table" /\ dump'.index = dump.index + 1
    BY DEF leaves, script, begun, Writing, AtTable
  <1>3. \A u : untouched(u)' = untouched(u)  BY DEF leaves, untouched, rows_of
  <1>4. DumpType'  BY DEF leaves, DumpInv, DumpType
  <1>5. Placed'
    <2>1. path.script = <<>> /\ dump.plan = TablesByName
      BY <1>1 DEF DumpInv, Placed, begun, Writing
    <2> QED  BY <2>1, <1>2 DEF leaves, Placed
  <1>6. \A j \in 1 .. N : j < dump.index + 1 => j = dump.index \/ j < dump.index  BY <1>1
  <1>7. Told'
    <2> SUFFICES ASSUME NEW j \in 1 .. N, j < dump.index + 1
                 PROVE  T(j) \in dump'.dumped \cup dump'.failures
      BY <1>2 DEF Told
    <2>1. CASE j = dump.index  BY <1>1, <2>1 DEF leaves
    <2>2. CASE j < dump.index  BY <1>1, <2>2 DEF leaves, DumpInv, Told
    <2> QED  BY <1>6, <2>1, <2>2
  <1>8. Single'
    <2> SUFFICES ASSUME NEW t \in Tables, keyed(t), NEW k \in Keys PROVE Once(b, t, k)
      BY <1>2 DEF Single, keyed
    <2>1. CASE t = table  BY <2>1 DEF grows
    <2>2. CASE t # table
      <3>1. Once(dump.buffer, t, k)  BY <1>1 DEF DumpInv, Single
      <3> QED  BY <2>2, <3>1 DEF grows
    <2> QED  BY <2>1, <2>2
  <1>9. Held'
    <2> SUFFICES ASSUME NEW j \in 1 .. N, j < dump.index + 1,
                        T(j) \notin dump'.failures \cup dump'.truncations, NEW r \in untouched(T(j))
                 PROVE  Once(b, T(j), r.key) /\ Has(b, T(j), r)
      BY <1>2, <1>3 DEF Held
    <2>1. CASE j = dump.index  BY <1>1, <2>1 DEF leaves
    <2>2. CASE j < dump.index
      <3>1. T(j) \in Tables /\ T(j) # table  BY <1>1, <2>2, TablesListed
      <3>2. T(j) \notin dump.failures \cup dump.truncations  BY DEF leaves
      <3>3. Once(dump.buffer, T(j), r.key) /\ Has(dump.buffer, T(j), r)
        BY <1>1, <2>2, <3>2 DEF DumpInv, Held
      <3> QED  BY <3>1, <3>3 DEF grows
    <2> QED  BY <1>6, <2>1, <2>2
  <1>10. Ahead'
    <2> SUFFICES ASSUME NEW j \in 1 .. N, j >= dump.index + 1, NEW k \in Keys
                 PROVE  None(b, T(j), k)
      BY <1>1, <1>2 DEF Ahead
    <2>1. j > dump.index /\ T(j) \in Tables /\ T(j) # table  BY <1>1, TablesListed
    <2>2. None(dump.buffer, T(j), k)  BY <1>1, <2>1 DEF DumpInv, Ahead
    <2> QED  BY <2>1, <2>2 DEF grows
  <1>11. Midway'  BY <1>2 DEF Midway
  <1>12. Ended'
    <2>1. Terminated => AllEnd(dump.buffer)  BY <1>1 DEF DumpInv, Ended
    <2> QED  BY <1>2, <2>1 DEF Ended, grows, Terminated
  <1> QED  BY <1>4, <1>5, <1>7, <1>8, <1>9, <1>10, <1>11, <1>12 DEF DumpInv

\* A table that failed is told of and left.
LEMMA FailureKept ==
    ASSUME DumpInv, adapter_fails
    PROVE  DumpInv'
  <1>1. /\ dump.pc \in {"ddl", "describe", "page"} /\ dump' = failed(dump)
        /\ UNCHANGED <<engine, path, source, touched>>
    BY DEF adapter_fails, step, FileVars
  <1>2. table \in Tables /\ script = dump.buffer /\ begun  BY <1>1, AtOne
  <1>3. dump \in Dumps  BY DEF DumpInv, DumpType
  <1> DEFINE failures == dump.failures \cup {table}
             index == dump.index + 1
  <1>4. failures \in SUBSET Tables /\ index \in Nat \ {0}  BY <1>2, <1>3 DEF Dumps
  <1>5. dump' = [dump EXCEPT !.pc = "table", !.index = index, !.failures = failures]
    BY <1>1, <1>3 DEF failed, next, Dumps
  <1> HIDE DEF failures, index
  <1>6. /\ dump' \in Dumps /\ dump'.pc = "table" /\ dump'.index = index /\ dump'.plan = dump.plan
        /\ dump'.failures = failures /\ dump'.dumped = dump.dumped
        /\ dump'.truncations = dump.truncations /\ dump'.buffer = dump.buffer
    BY <1>3, <1>4, <1>5 DEF Dumps
  <1>7. leaves  BY <1>1, <1>6 DEF leaves, failures, index
  <1>8. grows(dump'.buffer)
    <2>1. dump.buffer \in Seq(Chunks)  BY <1>3 DEF Dumps
    <2>2. keyed(table) => \A k \in Keys : Once(dump.buffer, table, k)
      BY <1>2 DEF DumpInv, Single
    <2> QED  BY <1>6, <2>1, <2>2 DEF grows
  <1> QED  BY <1>1, <1>7, <1>8, LeavingKept

\* With a page the script grows by rows that are not in it yet.
LEMMA PageGrows ==
    ASSUME DumpInv, dump.pc = "page", NEW page \in pages(table, dump.cursor)
    PROVE  LET b == dump.buffer \o inserts(table, page)
           IN /\ grows(b)
              /\ \A r \in page : Once(b, table, r.key) /\ Has(b, table, r)
              /\ \A k \in Keys : None(dump.buffer, table, k) =>
                    /\ Once(b, table, k)
                    /\ (\A r \in page : r.key # k) => None(b, table, k)
  <1> DEFINE a == dump.buffer
             c == inserts(table, page)
             b == a \o c
  <1>1. table \in Tables /\ script = a /\ begun  BY AtOne
  <1>2. a \in Seq(Chunks) /\ dump.cursor \in Nat /\ source \in Databases
    BY DEF DumpInv, DumpType, Dumps
  <1>3. /\ page \in SUBSET Rows /\ IsFiniteSet(page) /\ one_each(page)
        /\ keyed(table) => \A r \in page : r.key > dump.cursor
    BY <1>1, <1>2, PageOf
  <1>4. /\ c \in Seq(Chunks) /\ AllEnd(c)
        /\ \A k : Once(c, table, k)
        /\ \A k : (\A r \in page : r.key # k) => None(c, table, k)
        /\ \A r \in page : Has(c, table, r)
        /\ \A u, k : u # table => None(c, u, k)
    BY <1>1, <1>3, InsertsOf
  <1>5. \A k \in Keys : k \in Nat /\ (k > dump.cursor \/ k <= dump.cursor)
    BY <1>2, KeysFinite
  <1>6. /\ ~ keyed(table) => \A k \in Keys : None(a, table, k)
        /\ keyed(table) => \A k \in Keys : /\ k > dump.cursor => None(a, table, k)
                                           /\ Once(a, table, k)
    BY <1>1 DEF DumpInv, Midway, Single
  <1>7. \A r \in page : r.key \in Keys  BY <1>3 DEF Rows
  <1> HIDE DEF a, c
  <1>8. b \in Seq(Chunks) /\ (AllEnd(a) => AllEnd(b))  BY <1>2, <1>4, Joined, EndJoined
  <1>9. ASSUME NEW u \in Tables \ {table}, NEW k
        PROVE  (None(a, u, k) => None(b, u, k)) /\ (Once(a, u, k) => Once(b, u, k))
    BY <1>2, <1>4, NoneJoined, OnceJoined
  <1>10. ASSUME NEW u, NEW r, Has(a, u, r) PROVE Has(b, u, r)  BY <1>2, <1>4, <1>10, HasJoined
  <1>11. ASSUME NEW k \in Keys, None(a, table, k)
         PROVE  Once(b, table, k) /\ ((\A r \in page : r.key # k) => None(b, table, k))
    BY <1>2, <1>4, <1>11, NoneJoined, OnceJoined
  <1>12. ASSUME keyed(table), NEW k \in Keys PROVE Once(b, table, k)
    <2>1. CASE k > dump.cursor  BY <1>6, <1>11, <1>12, <2>1
    <2>2. CASE k <= dump.cursor
      <3>1. \A r \in page : r.key # k
        <4> SUFFICES ASSUME NEW r \in page, r.key = k PROVE FALSE  OBVIOUS
        <4>1. k > dump.cursor  BY <1>3, <1>12
        <4> QED  BY <1>2, <1>5, <2>2, <4>1
      <3> QED  BY <1>2, <1>4, <1>6, <1>12, <3>1, OnceJoined
    <2> QED  BY <1>5, <2>1, <2>2
  <1>13. ASSUME NEW r \in page PROVE Once(b, table, r.key) /\ Has(b, table, r)
    <2>1. Has(b, table, r)  BY <1>2, <1>4, HasJoined
    <2>2. r.key \in Keys  BY <1>7
    <2>3. Once(b, table, r.key)
      <3>1. CASE keyed(table)  BY <1>12, <2>2, <3>1
      <3>2. CASE ~ keyed(table)  BY <1>6, <1>11, <2>2, <3>2
      <3> QED  BY <3>1, <3>2
    <2> QED  BY <2>1, <2>3
  <1>14. grows(b)
    <2> HIDE DEF b
    <2> QED  BY <1>8, <1>9, <1>10, <1>12 DEF grows, a
  <1> QED  BY <1>11, <1>13, <1>14 DEF a, c

\* A page that was read is written, and the cursor moves or the table is done.
LEMMA PageKept ==
    ASSUME DumpInv, dump.pc = "page", NEW page \in pages(table, dump.cursor),
           step(turned(dump, page))
    PROVE  DumpInv'
  <1> DEFINE b == dump.buffer \o inserts(table, page)
             found == after(table, dump.cursor)
  <1>1. /\ dump.index \in 1 .. N /\ N \in Nat /\ table = T(dump.index) /\ table \in Tables
        /\ \A j \in 1 .. N : T(j) = table => j = dump.index
        /\ script = dump.buffer /\ begun /\ dump.pc \in AtTable
    BY AtOne
  <1>2. dump \in Dumps /\ dump.cursor \in Nat /\ source \in Databases /\ dump.buffer \in Seq(Chunks)
    BY DEF DumpInv, DumpType, Dumps
  <1>3. /\ page \in SUBSET Rows /\ IsFiniteSet(page) /\ one_each(page)
        /\ page \subseteq rows_of(table) /\ Cardinality(page) \in Nat
        /\ keyed(table) => \A r \in page : r.key > dump.cursor
        /\ Cardinality(page) < PageRows => page = found
        /\ page = {} => found = {}
        /\ keyed(table) => \A r \in page, s \in found \ page : r.key < s.key
    BY <1>1, <1>2, PageOf
  <1>4. /\ grows(b)
        /\ \A r \in page : Once(b, table, r.key) /\ Has(b, table, r)
        /\ \A k \in Keys : None(dump.buffer, table, k) =>
              /\ Once(b, table, k)
              /\ (\A r \in page : r.key # k) => None(b, table, k)
    BY PageGrows
  <1>5. UNCHANGED <<engine, path, source, touched>> /\ dump' = turned(dump, page)
    BY DEF step, FileVars
  <1>6. /\ \A r \in rows_of(table) : r \in found \/ (keyed(table) /\ r.key <= dump.cursor)
        /\ \A r \in rows_of(table) : r.key \in Keys /\ r.key \in Nat
    <2>1. \A r \in rows_of(table) : r.key \in Keys /\ r.key \in Nat
      BY KeysFinite DEF rows_of
    <2> QED  BY <1>2, <2>1 DEF after
  <1>7. /\ keyed(table) => /\ \A k \in Keys : k > dump.cursor => None(dump.buffer, table, k)
                           /\ \A r \in untouched(table) :
                                 r.key <= dump.cursor => Has(dump.buffer, table, r)
        /\ keyed(table) => \A k \in Keys : Once(dump.buffer, table, k)
    BY <1>1 DEF DumpInv, Midway, Single
  <1>8. untouched(table) \subseteq rows_of(table)  BY DEF untouched
  <1> DEFINE dumped == dump.dumped \cup {table}
             index == dump.index + 1
             written_rows == dump.rows_written + Cardinality(page)
             truncations == dump.truncations \cup {table}
             top == cursor_from_last_row(page)
  <1>9. /\ dumped \in SUBSET Tables /\ index \in Nat \ {0} /\ written_rows \in Nat
        /\ truncations \in SUBSET Tables /\ b \in Seq(Chunks)
    BY <1>1, <1>2, <1>3, <1>4 DEF Dumps, grows
  <1> HIDE DEF b, found
  <1>10. ASSUME page = found
         PROVE  \A r \in untouched(table) : Once(b, table, r.key) /\ Has(b, table, r)
    <2> SUFFICES ASSUME NEW r \in untouched(table)
                 PROVE  Once(b, table, r.key) /\ Has(b, table, r)
      OBVIOUS
    <2>1. CASE r \in page  BY <1>4, <2>1
    <2>2. CASE keyed(table) /\ r.key <= dump.cursor
      <3>1. Has(dump.buffer, table, r) /\ r.key \in Keys  BY <1>6, <1>7, <1>8, <2>2
      <3> QED  BY <1>4, <2>2, <3>1 DEF grows
    <2> QED  BY <1>6, <1>8, <1>10, <2>1, <2>2
  <1>11. CASE page = {}
    <2>1. dump' = [dump EXCEPT !.pc = "table", !.index = index, !.dumped = dumped]
      BY <1>2, <1>5, <1>11 DEF turned, completed, next, Dumps
    <2> HIDE DEF index, dumped
    <2>2. /\ dump' \in Dumps /\ dump'.pc = "table" /\ dump'.index = index /\ dump'.plan = dump.plan
          /\ dump'.failures = dump.failures /\ dump'.dumped = dumped
          /\ dump'.truncations = dump.truncations /\ dump'.buffer = dump.buffer
      BY <1>2, <1>9, <2>1 DEF Dumps
    <2>3. \A r \in untouched(table) :
             Once(dump.buffer, table, r.key) /\ Has(dump.buffer, table, r)
      <3> SUFFICES ASSUME NEW r \in untouched(table)
                   PROVE  Once(dump.buffer, table, r.key) /\ Has(dump.buffer, table, r)
        OBVIOUS
      <3>1. r \notin found  BY <1>3, <1>11
      <3>2. keyed(table) /\ r.key <= dump.cursor /\ r.key \in Keys  BY <1>6, <1>8, <3>1
      <3> QED  BY <1>7, <3>2
    <2>4. leaves  BY <1>5, <2>2, <2>3 DEF leaves, index, dumped
    <2>5. grows(dump.buffer)  BY <1>2, <1>7 DEF grows
    <2> QED  BY <2>2, <2>4, <2>5, LeavingKept
  <1>12. CASE page # {} /\ Cardinality(page) < PageRows
    <2>1. dump' = [dump EXCEPT !.pc = "table", !.index = index, !.dumped = dumped,
                               !.buffer = b, !.rows_written = written_rows]
      <3>1. dump' = completed(written(dump, page))
        BY <1>3, <1>5, <1>12, PageAssumption DEF turned
      <3> QED  BY <1>2, <3>1 DEF written, completed, next, Dumps, b
    <2> HIDE DEF index, dumped, written_rows
    <2>2. /\ dump' \in Dumps /\ dump'.pc = "table" /\ dump'.index = index /\ dump'.plan = dump.plan
          /\ dump'.failures = dump.failures /\ dump'.dumped = dumped
          /\ dump'.truncations = dump.truncations /\ dump'.buffer = b
      BY <1>2, <1>9, <2>1 DEF Dumps
    <2>3. \A r \in untouched(table) : Once(b, table, r.key) /\ Has(b, table, r)
      BY <1>3, <1>10, <1>12
    <2>4. leaves  BY <1>5, <2>2, <2>3 DEF leaves, index, dumped
    <2> QED  BY <1>4, <2>2, <2>4, LeavingKept
  <1>13. CASE page # {} /\ Cardinality(page) >= PageRows /\ ~ keyed(table)
    <2>1. dump' = [dump EXCEPT !.pc = "table", !.index = index, !.dumped = dumped, !.buffer = b,
                               !.rows_written = written_rows, !.truncations = truncations]
      <3>1. dump' = completed([written(dump, page) EXCEPT !.truncations = @ \cup {table}])
        BY <1>3, <1>5, <1>13, PageAssumption DEF turned
      <3> QED  BY <1>2, <3>1 DEF written, completed, next, Dumps, b
    <2> HIDE DEF index, dumped, written_rows, truncations
    <2>2. /\ dump' \in Dumps /\ dump'.pc = "table" /\ dump'.index = index /\ dump'.plan = dump.plan
          /\ dump'.failures = dump.failures /\ dump'.dumped = dumped
          /\ dump'.truncations = truncations /\ dump'.buffer = b
      BY <1>2, <1>9, <2>1 DEF Dumps
    <2>3. leaves  BY <1>5, <2>2 DEF leaves, index, dumped, truncations
    <2> QED  BY <1>4, <2>2, <2>3, LeavingKept
  <1>14. CASE page # {} /\ Cardinality(page) >= PageRows /\ keyed(table)
    <2>1. /\ top \in Nat \ {0} /\ \E r \in page : r.key = top
          /\ \A r \in page : r.key <= top
      BY <1>3, <1>14, CursorOf
    <2>2. dump' = [dump EXCEPT !.buffer = b, !.rows_written = written_rows, !.cursor = top]
      <3>1. dump' = [written(dump, page) EXCEPT !.cursor = top]
        BY <1>3, <1>5, <1>14, PageAssumption DEF turned
      <3> QED  BY <1>2, <3>1 DEF written, Dumps, b
    <2> HIDE DEF written_rows, top
    <2>3. /\ dump' \in Dumps /\ dump'.pc = "page" /\ dump'.index = dump.index
          /\ dump'.plan = dump.plan /\ dump'.failures = dump.failures
          /\ dump'.dumped = dump.dumped /\ dump'.truncations = dump.truncations
          /\ dump'.buffer = b /\ dump'.cursor = top /\ dump'.cancelled = dump.cancelled
      BY <1>2, <1>9, <2>1, <2>2 DEF Dumps
    <2>4. /\ script' = b /\ begun' /\ begun /\ table' = table
          /\ \A u : untouched(u)' = untouched(u)
      BY <1>1, <1>5, <2>3 DEF script, begun, Writing, AtTable, table, untouched, rows_of
    <2>5. DumpType' /\ Placed' /\ Told'
      BY <1>1, <1>5, <2>3, <2>4 DEF DumpInv, DumpType, Placed, Told, Writing, AtTable
    <2>6. Single'
      <3> SUFFICES ASSUME NEW t \in Tables, keyed(t), NEW k \in Keys PROVE Once(b, t, k)
        BY <2>4 DEF Single, keyed
      <3>1. Once(dump.buffer, t, k)  BY <1>1 DEF DumpInv, Single
      <3> QED  BY <1>4, <3>1 DEF grows
    <2>7. Held'
      <3> SUFFICES ASSUME NEW j \in 1 .. N, j < dump.index,
                          T(j) \notin dump.failures \cup dump.truncations,
                          NEW r \in untouched(T(j))
                   PROVE  Once(b, T(j), r.key) /\ Has(b, T(j), r)
        BY <2>3, <2>4 DEF Held
      <3>1. T(j) \in Tables /\ T(j) # table  BY <1>1, TablesListed
      <3>2. Once(dump.buffer, T(j), r.key) /\ Has(dump.buffer, T(j), r)
        BY <1>1 DEF DumpInv, Held
      <3> QED  BY <1>4, <3>1, <3>2 DEF grows
    <2>8. Ahead'
      <3> SUFFICES ASSUME NEW j \in 1 .. N, j > dump.index, NEW k \in Keys
                   PROVE  None(b, T(j), k)
        BY <2>3 DEF Ahead
      <3>1. T(j) \in Tables /\ T(j) # table  BY <1>1, TablesListed
      <3>2. None(dump.buffer, T(j), k)  BY <1>1 DEF DumpInv, Ahead
      <3> QED  BY <1>4, <3>1, <3>2 DEF grows
    <2>9. PICK last \in page : last.key = top  BY <2>1
    <2>10. top > dump.cursor  BY <1>3, <1>14, <2>9
    <2>11. ASSUME NEW k \in Keys, k > top PROVE None(b, table, k)
      <3>1. k \in Nat /\ k > dump.cursor  BY <1>2, <2>1, <2>10, <2>11, KeysFinite
      <3>2. \A r \in page : r.key # k
        <4> SUFFICES ASSUME NEW r \in page, r.key = k PROVE FALSE  OBVIOUS
        <4>1. k <= top  BY <2>1
        <4> QED  BY <2>1, <2>11, <3>1, <4>1
      <3> QED  BY <1>4, <1>7, <1>14, <3>1, <3>2
    <2>12. ASSUME NEW r \in untouched(table), r.key <= top PROVE Has(b, table, r)
      <3>1. CASE r \in page  BY <1>4, <3>1
      <3>2. CASE r \in found \ page
        <4>1. top < r.key  BY <1>3, <1>14, <2>9, <3>2
        <4>2. r.key \in Nat  BY <1>6, <1>8
        <4> QED  BY <2>1, <2>12, <4>1, <4>2
      <3>3. CASE r.key <= dump.cursor
        <4>1. Has(dump.buffer, table, r)  BY <1>7, <1>14, <3>3
        <4> QED  BY <1>4, <4>1 DEF grows
      <3> QED  BY <1>6, <1>8, <3>1, <3>2, <3>3
    <2>13. Midway'  BY <1>14, <2>3, <2>4, <2>11, <2>12 DEF Midway, keyed
    <2>14. Ended'
      <3>1. Terminated => AllEnd(dump.buffer)  BY <1>1 DEF DumpInv, Ended
      <3> QED  BY <1>4, <2>4, <3>1 DEF Ended, grows, Terminated
    <2> QED  BY <2>5, <2>6, <2>7, <2>8, <2>13, <2>14 DEF DumpInv
  <1>15. PageRows \in Nat  BY PageAssumption
  <1> QED  BY <1>3, <1>11, <1>12, <1>13, <1>14, <1>15

\* Before the loop and after an error there is nothing to keep but the types.
LEMMA IdleKept ==
    ASSUME DumpType', Placed', dump'.pc \in {"idle", "plan", "create", "error"}
    PROVE  DumpInv'
  <1>1. ~ begun' /\ dump'.pc \notin AtTable  BY DEF begun, Writing, AtTable
  <1> QED  BY <1>1 DEF DumpInv, Told, Single, Held, Ahead, Midway, Ended

\* Within the loop, a step that moves on with the same script.
LEMMA SameScriptKept ==
    ASSUME DumpInv, dump.pc \in Writing, dump'.pc \in Writing \ {"page"}, DumpType', Placed',
           dump'.index = dump.index, dump'.buffer = dump.buffer, dump'.dumped = dump.dumped,
           dump'.failures = dump.failures, dump'.truncations = dump.truncations,
           UNCHANGED <<source, touched>>, dump'.pc \in AtTable => dump.pc \in AtTable \ {"page"}
    PROVE  DumpInv'
  <1>1. script' = script /\ begun /\ begun' /\ \A u : untouched(u)' = untouched(u)
    BY DEF script, begun, Writing, AtTable, untouched, rows_of
  <1>2. Told' /\ Single' /\ Held' /\ Ended'
    BY <1>1 DEF DumpInv, Told, Single, Held, Ended, keyed, Terminated
  <1>3. Ahead'  BY DEF DumpInv, Ahead, Writing, AtTable
  <1>4. Midway'  BY DEF Midway
  <1> QED  BY <1>2, <1>3, <1>4 DEF DumpInv

\* Every step of the dump, of its user and of the other clients keeps the invariant.
LEMMA DumpKept ==
    ASSUME DumpInv, DumpNext
    PROVE  DumpInv'
  <1>1. DumpType /\ Placed /\ dump \in Dumps  BY DEF DumpInv, DumpType
  <1>2. /\ path \in [exists : BOOLEAN, script : Seq(Chunks)] /\ path.script \in Seq(Chunks)
        /\ dump.buffer \in Seq(Chunks) /\ dump.plan \in Seq(Tables) /\ dump.index \in Nat \ {0}
    BY <1>1 DEF DumpType, Dumps
  <1>3. CASE desktop_dump \/ dump_to_file
    <2>1. PICK caller \in {"desktop", "agent"} :
             /\ dump.pc = "idle" /\ dump' = [dump EXCEPT !.pc = "plan", !.caller = caller]
             /\ UNCHANGED <<engine, path, source>>
      BY <1>3 DEF desktop_dump, dump_to_file, FileVars
    <2>2. /\ dump' \in Dumps /\ dump'.pc = "plan" /\ dump'.buffer = dump.buffer
          /\ dump'.index = dump.index /\ dump'.cancelled = dump.cancelled
      BY <1>1, <2>1 DEF Dumps
    <2>3. DumpType' /\ Placed'
      BY <1>1, <2>1, <2>2 DEF DumpType, Placed, begun, Writing, AtTable
    <2> QED  BY <2>2, <2>3, IdleKept
  <1>4. CASE plan_dump \/ plan_dump_fails
    <2>1. /\ dump.pc = "plan" /\ UNCHANGED <<engine, path, source>>
          /\ \/ dump' = [dump EXCEPT !.pc = "create", !.plan = TablesByName]
             \/ dump' = [dump EXCEPT !.pc = "error"]
      BY <1>4 DEF plan_dump, plan_dump_fails, FileVars
    <2>2. TablesByName \in Seq(Tables)  BY TableAssumption
    <2>3. /\ dump' \in Dumps /\ dump'.pc \in {"create", "error"} /\ dump'.buffer = dump.buffer
          /\ dump'.index = dump.index /\ dump'.cancelled = dump.cancelled
          /\ dump'.pc = "create" => dump'.plan = TablesByName
      BY <1>1, <2>1, <2>2 DEF Dumps
    <2>4. DumpType' /\ Placed'
      BY <1>1, <2>1, <2>3 DEF DumpType, Placed, begun, Writing, AtTable
    <2> QED  BY <2>3, <2>4, IdleKept
  <1>5. CASE create
    <2>1. dump.pc = "create" /\ UNCHANGED <<engine, source, touched>>  BY <1>5 DEF create
    <2>2. dump.buffer = <<>> /\ dump.index = 1 /\ ~ dump.cancelled  BY <1>1, <2>1 DEF Placed
    <2>3. CASE ~ creates
      <3>1. dump' = [dump EXCEPT !.pc = "error"] /\ path' = path  BY <1>5, <2>3 DEF create
      <3>2. dump' \in Dumps /\ dump'.pc = "error"  BY <1>1, <3>1 DEF Dumps
      <3>3. DumpType' /\ Placed'
        BY <1>1, <2>1, <3>1, <3>2 DEF DumpType, Placed, begun, Writing, AtTable
      <3> QED  BY <3>2, <3>3, IdleKept
    <2>4. CASE creates
      <3>1. dump' = [dump EXCEPT !.pc = "table"] /\ path' = [exists |-> TRUE, script |-> <<>>]
        BY <1>5, <2>4 DEF create
      <3>2. /\ dump' \in Dumps /\ dump'.pc = "table" /\ dump'.buffer = <<>> /\ dump'.index = 1
            /\ dump'.plan = dump.plan
        BY <1>1, <2>2, <3>1 DEF Dumps
      <3>3. path' \in [exists : BOOLEAN, script : Seq(Chunks)] /\ path'.script = <<>>
        <4>1. <<>> \in Seq(Chunks)  OBVIOUS
        <4> QED  BY <3>1, <4>1
      <3>4. dump.plan = TablesByName  BY <2>1, <1>1 DEF Placed
      <3>5. DumpType' /\ Placed'
        BY <1>1, <2>1, <3>2, <3>3, <3>4 DEF DumpType, Placed
      <3>6. script' = <<>> /\ Len(<<>>) = 0  BY <3>2 DEF script
      <3>7. Told'  BY <3>2, TablesListed DEF Told
      <3>8. Held'  BY <3>2, TablesListed DEF Held
      <3>9. Single' /\ Ended'  BY <3>6 DEF Single, Ended, Once, AllEnd
      <3>10. Ahead' /\ Midway'  BY <3>2, <3>6 DEF Ahead, Midway, None
      <3> QED  BY <3>5, <3>7, <3>8, <3>9, <3>10 DEF DumpInv
    <2> QED  BY <2>3, <2>4
  <1>6. CASE next_table
    <2>1. /\ dump.pc = "table" /\ UNCHANGED <<engine, path, source, touched>>
          /\ dump' = IF dump.index > Len(dump.plan) THEN [dump EXCEPT !.pc = "finish"]
                     ELSE IF is_cancelled THEN cancelled(dump)
                     ELSE IF Capabilities(engine).has_table_ddl THEN [dump EXCEPT !.pc = "ddl"]
                     ELSE [dump EXCEPT !.pc = "describe"]
      BY <1>6 DEF next_table, step, FileVars
    <2>2. dump.plan = TablesByName /\ path.script = <<>> /\ N \in Nat
      BY <1>1, <2>1, TablesListed DEF Placed, begun, Writing, AtTable
    <2>3. /\ dump' \in Dumps /\ dump'.pc \in {"finish", "ddl", "describe"}
          /\ dump'.index = dump.index /\ dump'.buffer = dump.buffer /\ dump'.plan = dump.plan
          /\ dump'.dumped = dump.dumped /\ dump'.failures = dump.failures
          /\ dump'.truncations = dump.truncations
          /\ dump'.pc \in {"ddl", "describe"} => dump.index <= N
          /\ dump'.pc = "finish" /\ ~ dump'.cancelled => dump.index > N
      <3>1. CASE dump.index > Len(dump.plan)
        <4>1. dump' = [dump EXCEPT !.pc = "finish"] /\ dump.index > N  BY <2>1, <2>2, <3>1 DEF N
        <4> QED  BY <1>1, <4>1 DEF Dumps
      <3>2. CASE ~ dump.index > Len(dump.plan)
        <4>1. dump.index <= N  BY <1>2, <2>2, <3>2 DEF N
        <4>2. \/ dump' = [dump EXCEPT !.pc = "finish", !.cancelled = TRUE]
              \/ dump' = [dump EXCEPT !.pc = "ddl"]
              \/ dump' = [dump EXCEPT !.pc = "describe"]
          BY <2>1, <3>2 DEF cancelled
        <4> QED  BY <1>1, <4>1, <4>2 DEF Dumps
      <3> QED  BY <3>1, <3>2
    <2>4. DumpType' /\ Placed'
      BY <1>1, <2>1, <2>2, <2>3 DEF DumpType, Placed
    <2>5. /\ dump.pc \in Writing /\ dump'.pc \in Writing \ {"page"}
          /\ dump.pc \in AtTable \ {"page"}
      BY <2>1, <2>3 DEF Writing, AtTable
    <2> QED  BY <2>1, <2>3, <2>4, <2>5, SameScriptKept
  <1>7. CASE table_ddl
    <2>1. /\ dump.pc = "ddl" /\ UNCHANGED <<engine, path, source, touched>>
          /\ dump' = [dump EXCEPT
                !.pc = "describe",
                !.buffer = Append(@, Chunk("ddl", table, {}, Capabilities(engine).terminated))]
      BY <1>7 DEF table_ddl, step, FileVars
    <2> DEFINE ends == Capabilities(engine).terminated
               b == Append(dump.buffer, Chunk("ddl", table, {}, ends))
    <2>2. /\ dump.index \in 1 .. N /\ N \in Nat /\ table \in Tables
          /\ script = dump.buffer /\ begun
      BY <2>1, AtOne
    <2>3. ends \in BOOLEAN /\ (Terminated => ends = TRUE)
      BY <1>1 DEF Capabilities, Terminated, DumpType
    <2>4. /\ b \in Seq(Chunks)
          /\ \A u, k : None(dump.buffer, u, k) => None(b, u, k)
          /\ \A u, k : Once(dump.buffer, u, k) => Once(b, u, k)
          /\ \A u, r : Has(dump.buffer, u, r) => Has(b, u, r)
          /\ ends /\ AllEnd(dump.buffer) => AllEnd(b)
      <3> HIDE DEF ends
      <3> QED  BY <1>2, <2>2, <2>3, DdlAppended
    <2>5. dump' = [dump EXCEPT !.pc = "describe", !.buffer = b]  BY <1>1, <2>1 DEF Dumps
    <2> HIDE DEF ends, b
    <2>6. /\ dump' \in Dumps /\ dump'.pc = "describe" /\ dump'.buffer = b
          /\ dump'.index = dump.index /\ dump'.plan = dump.plan
          /\ dump'.dumped = dump.dumped /\ dump'.failures = dump.failures
          /\ dump'.truncations = dump.truncations
      BY <1>1, <2>4, <2>5 DEF Dumps
    <2>7. script' = b /\ begun' /\ \A u : untouched(u)' = untouched(u)
      BY <2>1, <2>6 DEF script, begun, Writing, AtTable, untouched, rows_of
    <2>8. DumpType' /\ Placed'
      BY <1>1, <2>1, <2>2, <2>6 DEF DumpType, Placed, Writing, AtTable
    <2>9. Told' /\ Single' /\ Held'
      BY <2>2, <2>4, <2>6, <2>7 DEF DumpInv, Told, Single, Held, keyed
    <2>10. Ahead'  BY <2>1, <2>4, <2>6 DEF DumpInv, Ahead, AtTable
    <2>11. Midway'  BY <2>6 DEF Midway
    <2>12. Terminated => ends  BY <2>3
    <2>13. Ended'  BY <2>2, <2>4, <2>7, <2>12 DEF DumpInv, Ended, Terminated
    <2> QED  BY <2>8, <2>9, <2>10, <2>11, <2>13 DEF DumpInv
  <1>8. CASE describe_table
    <2>1. /\ dump.pc = "describe" /\ UNCHANGED <<engine, path, source, touched>>
          /\ dump' = [dump EXCEPT !.pc = "page", !.cursor = 0]
      BY <1>8 DEF describe_table, step, FileVars
    <2>2. /\ dump.index \in 1 .. N /\ N \in Nat /\ table = T(dump.index) /\ table \in Tables
          /\ script = dump.buffer /\ begun
      BY <2>1, AtOne
    <2>3. /\ dump' \in Dumps /\ dump'.pc = "page" /\ dump'.buffer = dump.buffer
          /\ dump'.index = dump.index /\ dump'.plan = dump.plan
          /\ dump'.dumped = dump.dumped /\ dump'.failures = dump.failures
          /\ dump'.truncations = dump.truncations /\ dump'.cursor = 0
      BY <1>1, <2>1 DEF Dumps
    <2>4. /\ script' = script /\ begun' /\ table' = table
          /\ \A u : untouched(u)' = untouched(u)
      BY <2>1, <2>3 DEF script, begun, Writing, AtTable, table, untouched, rows_of
    <2>5. DumpType' /\ Placed'
      BY <1>1, <2>1, <2>2, <2>3 DEF DumpType, Placed, Writing, AtTable
    <2>6. Told' /\ Single' /\ Held' /\ Ended'
      BY <2>2, <2>3, <2>4 DEF DumpInv, Told, Single, Held, Ended, keyed, Terminated
    <2>7. Ahead'  BY <2>1, <2>3 DEF DumpInv, Ahead, AtTable
    <2>8. \A k \in Keys : None(dump.buffer, table, k)
      BY <2>1, <2>2 DEF DumpInv, Ahead, AtTable
    <2>9. \A r \in untouched(table) : ~ r.key <= 0
      BY KeysFinite DEF untouched, rows_of
    <2>10. Midway'  BY <2>3, <2>4, <2>8, <2>9 DEF Midway, keyed
    <2> QED  BY <2>5, <2>6, <2>7, <2>10 DEF DumpInv
  <1>9. CASE adapter_fails  BY <1>9, FailureKept
  <1>10. CASE read_page
    <2>1. CASE is_cancelled
      <3>1. /\ dump.pc = "page" /\ UNCHANGED <<engine, path, source, touched>>
            /\ dump' = [dump EXCEPT !.pc = "finish", !.cancelled = TRUE]
        BY <1>10, <2>1 DEF read_page, step, cancelled, FileVars
      <3>2. /\ dump' \in Dumps /\ dump'.pc = "finish" /\ dump'.index = dump.index
            /\ dump'.buffer = dump.buffer /\ dump'.plan = dump.plan
            /\ dump'.dumped = dump.dumped /\ dump'.failures = dump.failures
            /\ dump'.truncations = dump.truncations /\ dump'.cancelled = TRUE
        BY <1>1, <3>1 DEF Dumps
      <3>3. DumpType' /\ Placed'
        BY <1>1, <3>1, <3>2 DEF DumpType, Placed, begun, Writing, AtTable
      <3>4. dump.pc \in Writing /\ dump'.pc \in Writing \ {"page"} /\ dump'.pc \notin AtTable
        BY <3>1, <3>2 DEF Writing, AtTable
      <3> QED  BY <3>1, <3>2, <3>3, <3>4, SameScriptKept
    <2>2. CASE ~ is_cancelled
      <3>1. dump.pc = "page"  BY <1>10 DEF read_page
      <3>2. PICK page \in pages(table, dump.cursor) : step(turned(dump, page))
        BY <1>10, <2>2 DEF read_page
      <3> QED  BY <3>1, <3>2, PageKept
    <2> QED  BY <2>1, <2>2
  <1>11. CASE finish
    <2>1. /\ dump.pc = "finish" /\ UNCHANGED <<engine, source, touched>>
          /\ dump' = [dump EXCEPT !.pc = "ok", !.buffer = <<>>]
          /\ path' = [path EXCEPT !.script = @ \o dump.buffer]
      BY <1>11 DEF finish
    <2>2. path.script = <<>> /\ script = dump.buffer /\ begun
      BY <1>1, <2>1 DEF Placed, Writing, script, begun
    <2>3. /\ dump' \in Dumps /\ dump'.pc = "ok" /\ dump'.index = dump.index
          /\ dump'.plan = dump.plan /\ dump'.cancelled = dump.cancelled
          /\ dump'.dumped = dump.dumped /\ dump'.failures = dump.failures
          /\ dump'.truncations = dump.truncations
      <3>1. <<>> \in Seq(Chunks)  OBVIOUS
      <3> QED  BY <1>1, <2>1, <3>1 DEF Dumps
    <2>4. path' \in [exists : BOOLEAN, script : Seq(Chunks)] /\ path'.script = dump.buffer
      <3>1. <<>> \o dump.buffer = dump.buffer  BY <1>2
      <3> HIDE DEF Chunks
      <3>2. path' = [path EXCEPT !.script = dump.buffer]  BY <1>2, <2>1, <2>2, <3>1
      <3> QED  BY <1>2, <3>2
    <2>5. script' = script /\ begun' /\ \A u : untouched(u)' = untouched(u)
      BY <2>1, <2>2, <2>3, <2>4 DEF script, begun, untouched, rows_of
    <2>6. DumpType' /\ Placed'
      BY <1>1, <2>1, <2>2, <2>3, <2>4 DEF DumpType, Placed, Writing, AtTable
    <2>7. Told' /\ Single' /\ Held' /\ Ended'
      BY <2>2, <2>3, <2>5 DEF DumpInv, Told, Single, Held, Ended, keyed, Terminated
    <2>8. Ahead' /\ Midway'  BY <2>3 DEF Ahead, Midway, AtTable
    <2> QED  BY <2>6, <2>7, <2>8 DEF DumpInv
  <1>12. CASE sink_fails
    <2>1. dump' = [dump EXCEPT !.pc = "error", !.buffer = <<>>] /\ UNCHANGED <<engine, source>>
      BY <1>12 DEF sink_fails
    <2>2. dump' \in Dumps /\ dump'.pc = "error"
      <3>1. <<>> \in Seq(Chunks)  OBVIOUS
      <3> QED  BY <1>1, <2>1, <3>1 DEF Dumps
    <2>3. PICK s \in Seq(Chunks) : path' = [path EXCEPT !.script = s]
      <3>1. PICK n \in 0 .. Len(dump.buffer) :
               \/ path' = [path EXCEPT !.script = @ \o SubSeq(dump.buffer, 1, n)]
               \/ /\ n > 0
                  /\ path' = [path EXCEPT !.script =
                                 @ \o SubSeq(dump.buffer, 1, n - 1) \o <<torn(dump.buffer[n])>>]
        BY <1>12 DEF sink_fails
      <3>2. \A m \in 0 .. Len(dump.buffer) :
               path.script \o SubSeq(dump.buffer, 1, m) \in Seq(Chunks)
        <4> SUFFICES ASSUME NEW m \in 0 .. Len(dump.buffer)
                     PROVE  path.script \o SubSeq(dump.buffer, 1, m) \in Seq(Chunks)
          OBVIOUS
        <4>1. SubSeq(dump.buffer, 1, m) \in Seq(Chunks)
          <5>1. \A i \in 1 .. m : dump.buffer[i] \in Chunks  BY <1>2
          <5> HIDE DEF Chunks
          <5> QED  BY <1>2, <5>1
        <4> QED  BY <1>2, <4>1
      <3>3. n > 0 => <<torn(dump.buffer[n])>> \in Seq(Chunks)
        <4>1. n > 0 => dump.buffer[n] \in Chunks  BY <1>2
        <4>2. n > 0 => torn(dump.buffer[n]) \in Chunks  BY <4>1 DEF torn, Chunks
        <4> HIDE DEF Chunks
        <4> QED  BY <4>2
      <3>4. CASE path' = [path EXCEPT !.script = @ \o SubSeq(dump.buffer, 1, n)]
        BY <1>2, <3>2, <3>4
      <3>5. CASE /\ n > 0
                 /\ path' = [path EXCEPT !.script =
                                @ \o SubSeq(dump.buffer, 1, n - 1) \o <<torn(dump.buffer[n])>>]
        <4> DEFINE a == path.script \o SubSeq(dump.buffer, 1, n - 1)
                   c == <<torn(dump.buffer[n])>>
        <4>1. a \in Seq(Chunks) /\ c \in Seq(Chunks)
          <5>1. n - 1 \in 0 .. Len(dump.buffer)  BY <1>2, <3>5
          <5> QED  BY <3>2, <3>3, <3>5, <5>1
        <4>2. path' = [path EXCEPT !.script = a \o c]  BY <1>2, <3>5
        <4> HIDE DEF a, c
        <4>3. a \o c \in Seq(Chunks)  BY <4>1
        <4> QED  BY <4>2, <4>3
      <3> QED  BY <3>1, <3>4, <3>5
    <2>4. path' \in [exists : BOOLEAN, script : Seq(Chunks)]
      <3> HIDE DEF Chunks
      <3> QED  BY <1>2, <2>3
    <2>5. DumpType' /\ Placed'
      BY <1>1, <2>1, <2>2, <2>4 DEF DumpType, Placed, begun, Writing, AtTable
    <2> QED  BY <2>2, <2>5, IdleKept
  <1>13. CASE cancel_dump
    <2>1. UNCHANGED <<engine, path, source, dump, touched>>  BY <1>13 DEF cancel_dump, FileVars
    <2>2. /\ script' = script /\ begun' = begun /\ table' = table
          /\ \A u : untouched(u)' = untouched(u)
      BY <2>1 DEF script, begun, table, untouched, rows_of
    <2> QED
      BY <2>1, <2>2
         DEF DumpInv, DumpType, Placed, Told, Single, Held, Ahead, Midway, Ended, keyed, Terminated
  <1>14. CASE change  BY <1>14, ChangeKept
  <1>15. CASE appear
    <2>1. dump.pc = "plan" /\ UNCHANGED <<engine, source, dump>>  BY <1>15 DEF appear, DumpVars
    <2>2. PICK s \in ForeignScripts : path' = [exists |-> TRUE, script |-> s]
      BY <1>15 DEF appear
    <2>3. path' \in [exists : BOOLEAN, script : Seq(Chunks)]
      <3>1. s \in Seq(Chunks)  BY ScriptAssumption
      <3> HIDE DEF Chunks
      <3> QED  BY <2>2, <3>1
    <2>4. DumpType' /\ Placed'
      BY <1>1, <2>1, <2>3 DEF DumpType, Placed, begun, Writing, AtTable
    <2> QED  BY <2>1, <2>4, IdleKept
  <1> QED
    BY <1>3, <1>4, <1>5, <1>6, <1>7, <1>8, <1>9, <1>10, <1>11, <1>12, <1>13, <1>14, <1>15
       DEF DumpNext, Dumping
-------------------------------------------------------------------------------
(***************************************************************************)
(* The theorems.                                                           *)
(***************************************************************************)
\* A dump has one engine.
LEMMA DumpAlone ==
    ASSUME DumpNext
    PROVE  UNCHANGED engine
  BY DEF DumpNext, Dumping, desktop_dump, dump_to_file, plan_dump, plan_dump_fails, create,
         next_table, table_ddl, describe_table, adapter_fails, read_page, finish, sink_fails,
         cancel_dump, change, appear, step, FileVars

\* A restore writes no file.
LEMMA RestoreAlone ==
    ASSUME RestoreNext
    PROVE  UNCHANGED FileVars
  BY DEF RestoreNext, Restoring, open_dialog, begin_restore, plan_restore, plan_restore_fails,
         gate, batch_cancelled, run_atomic, run_atomic_fails, each_done, execute, execute_fails,
         cancel_restore, intrude, FileVars

\* What is not about the dump leaves its invariant alone.
LEMMA DumpStands ==
    ASSUME DumpInv, UNCHANGED <<engine, path, source, dump, touched>>
    PROVE  DumpInv'
  <1>1. /\ script' = script /\ begun' = begun /\ table' = table
        /\ \A u : untouched(u)' = untouched(u)
    BY DEF script, begun, table, untouched, rows_of
  <1> QED
    BY <1>1
       DEF DumpInv, DumpType, Placed, Told, Single, Held, Ahead, Midway, Ended, keyed, Terminated

\* The invariant of the dump holds in every state: what is in the script already, and what
\* is not in it yet (run_dump).
THEOREM DumpInvariant == Spec => []DumpInv
  <1>1. Init => DumpInv  BY DumpBegins
  <1>2. DumpInv /\ [Next]_vars => DumpInv'
    <2> SUFFICES ASSUME DumpInv, [Next]_vars PROVE DumpInv'  OBVIOUS
    <2>1. CASE DumpNext  BY <2>1, DumpKept
    <2>2. CASE RestoreNext /\ UNCHANGED DumpVars
      <3>1. UNCHANGED <<engine, path, source, dump, touched>>
        BY <2>2, RestoreAlone DEF FileVars, DumpVars
      <3> QED  BY <3>1, DumpStands
    <2>3. CASE UNCHANGED vars
      <3>1. UNCHANGED <<engine, path, source, dump, touched>>  BY <2>3 DEF vars, FileVars, DumpVars
      <3> QED  BY <3>1, DumpStands
    <2> QED  BY <2>1, <2>2, <2>3 DEF Next
  <1> QED  BY <1>1, <1>2, PTL DEF Spec

\* A dump that reports success accounts for every table, and of each it does not report as
\* failed or cut short it holds every row nobody touched exactly once, however many tables,
\* rows and pages there are and whatever other clients do between two pages (run_dump,
\* dump_table_data, build_select_page).
THEOREM SuccessfulDumpsAreComplete == Spec => []BackupIsComplete
  <1>1. DumpInv => BackupIsComplete
    <2> SUFFICES ASSUME DumpInv, dump.pc = "ok", ~ dump.cancelled, NEW t \in Tables
                 PROVE  /\ t \in dump.dumped \cup dump.failures
                        /\ keyed(t) => \A k \in Keys : Inserted(path.script, t, k) <= 1
                        /\ t \notin dump.failures \cup dump.truncations =>
                              \A r \in rows_of(t) : <<t, r.key>> \notin touched =>
                                  /\ Inserted(path.script, t, r.key) = 1
                                  /\ r \in RowsIn(path.script, t)
      BY DEF BackupIsComplete
    <2>1. begun /\ script = path.script  BY DEF begun, script
    <2>2. Len(path.script) \in Nat /\ dump.index > N /\ dump.index \in Nat
      BY DEF DumpInv, DumpType, Dumps, Placed
    <2>3. PICK j \in 1 .. N : T(j) = t  BY TablesListed
    <2>4. j < dump.index  BY <2>2, <2>3, TablesListed
    <2>5. t \in dump.dumped \cup dump.failures  BY <2>1, <2>3, <2>4 DEF DumpInv, Told
    <2>6. ASSUME keyed(t), NEW k \in Keys PROVE Inserted(path.script, t, k) <= 1
      <3>1. Once(path.script, t, k)  BY <2>1, <2>6 DEF DumpInv, Single
      <3> QED  BY <2>2, <3>1, Counted
    <2>7. ASSUME t \notin dump.failures \cup dump.truncations, NEW r \in rows_of(t),
                 <<t, r.key>> \notin touched
          PROVE  Inserted(path.script, t, r.key) = 1 /\ r \in RowsIn(path.script, t)
      <3>1. r \in untouched(t)  BY <2>7 DEF untouched
      <3>2. Once(path.script, t, r.key) /\ Has(path.script, t, r)
        BY <2>1, <2>3, <2>4, <2>7, <3>1 DEF DumpInv, Held
      <3>3. ~ None(path.script, t, r.key) /\ r \in RowsIn(path.script, t)  BY <3>2, HasPuts
      <3> QED  BY <2>2, <3>2, <3>3, Counted
    <2> QED  BY <2>5, <2>6, <2>7
  <1> QED  BY <1>1, DumpInvariant, PTL

\* Where every chunk ends in a semicolon the splitter finds as many statements.
LEMMA SplitAtEveryEnd ==
    ASSUME NEW s \in Seq(Chunks), AllEnd(s)
    PROVE  Len(split_statements(s)) = Len(s)
  <1> DEFINE n == Len(s)
  <1>1. n \in Nat /\ \A i \in 1 .. n : s[i] \in Chunks /\ s[i].ends  BY DEF AllEnd
  <1>2. PICK f \in [0 .. n -> Seq(Statement)] :
           /\ f[0] = <<>> /\ \A i \in 1 .. n : f[i] = with_chunk(f[i - 1], s[i])
           /\ split_statements(s) = f[n]
    BY SplitRecursion
  <1> DEFINE S == {i \in 0 .. n : Len(f[i]) = i /\ (i > 0 => f[i][i] = <<s[i]>>)}
  <1>3. 0 \in S  BY <1>1, <1>2
  <1>4. ASSUME NEW i \in S, i \in 0 .. n - 1 PROVE i + 1 \in S
    <2>1. /\ i + 1 \in 1 .. n /\ (i + 1) - 1 = i /\ f[i] \in Seq(Statement) /\ Len(f[i]) = i
          /\ i > 0 => f[i][i] = <<s[i]>>
      BY <1>1, <1>2, <1>4
    <2>2. f[i + 1] = with_chunk(f[i], s[i + 1])  BY <1>2, <2>1
    <2>3. f[i] = <<>> \/ Last(Last(f[i])).ends
      <3>1. CASE i = 0  BY <2>1, <3>1
      <3>2. CASE i > 0
        <4>1. Last(f[i]) = <<s[i]>> /\ i \in 1 .. n  BY <1>4, <2>1, <3>2 DEF Last
        <4>2. Last(<<s[i]>>) = s[i]  BY DEF Last
        <4> QED  BY <1>1, <4>1, <4>2
      <3> QED  BY <1>4, <3>1, <3>2
    <2>4. f[i + 1] = Append(f[i], <<s[i + 1]>>)  BY <2>2, <2>3 DEF with_chunk
    <2>5. <<s[i + 1]>> \in Statement  BY <1>1, <2>1 DEF Statement
    <2>6. Len(f[i + 1]) = i + 1 /\ f[i + 1][i + 1] = <<s[i + 1]>>  BY <2>1, <2>4, <2>5
    <2> QED  BY <1>1, <1>4, <2>6
  <1> HIDE DEF S
  <1>5. 0 .. n \subseteq S  BY <1>1, <1>3, <1>4, UpTo
  <1>6. n \in S  BY <1>1, <1>5
  <1> QED  BY <1>2, <1>6 DEF S

\* Where every engine's DDL ends in a semicolon the splitter finds in the script of a dump
\* exactly the statements the dump wrote, whichever tables failed on the way (table_ddl,
\* split_statements).
THEOREM StatementsStand ==
    ASSUME Terminated
    PROVE  Spec => []EveryStatementStands
  <1>1. DumpInv => EveryStatementStands
    <2> SUFFICES ASSUME DumpInv, dump.pc = "ok"
                 PROVE  Len(split_statements(path.script)) = Len(path.script)
      BY DEF EveryStatementStands
    <2>1. path.script \in Seq(Chunks) /\ AllEnd(path.script)
      BY DEF DumpInv, DumpType, Ended, begun, script
    <2> QED  BY <2>1, SplitAtEveryEnd
  <1> QED  BY <1>1, DumpInvariant, PTL

\* An agent's dump leaves alone a file that appeared at its destination after the check
\* (check_dump_destination, FileSink of dump_to_file).
THEOREM AgentsDestroyNothing == Spec => AgentSparesFiles
  <1> DEFINE A == dump.caller = "agent" /\ dump.pc \in {"plan", "create"} /\ path.exists
                      => path' = path
  <1>1. [Next]_vars => [A]_vars
    <2> SUFFICES ASSUME Next, dump.caller = "agent", dump.pc \in {"plan", "create"}, path.exists
                 PROVE  path' = path
      OBVIOUS
    <2>1. CASE RestoreNext  BY <2>1, RestoreAlone DEF FileVars
    <2>2. CASE DumpNext
      <3>1. CASE create  BY <3>1 DEF create, creates
      <3>2. CASE ~ create
        BY <2>2, <3>2
           DEF DumpNext, Dumping, desktop_dump, dump_to_file, plan_dump, plan_dump_fails,
               next_table, table_ddl, describe_table, adapter_fails, read_page, finish, sink_fails,
               cancel_dump, change, appear, step, FileVars
      <3> QED  BY <3>1, <3>2
    <2> QED  BY <2>1, <2>2 DEF Next
  <1> QED  BY <1>1, PTL DEF Spec, AgentSparesFiles

\* Before it starts the restore has run nothing.
LEMMA RestoreBegins ==
    ASSUME Init
    PROVE  RestoreInv
  <1>1. /\ engine \in Engines /\ target \in Database /\ before = target /\ foreign = NoTables
        /\ restore = NoRestore /\ ran = <<>>
    BY TargetAssumption DEF Init, RestoreInit
  <1>2. NoRestore \in Restores
    <2>1. <<>> \in Seq(Classified)  OBVIOUS
    <2> QED  BY <2>1 DEF NoRestore, Restores
  <1>3. NoTables \in Database  BY DatabaseType DEF NoTables
  <1>4. Len(ran) = 0 /\ ran \in Seq(Nat \ {0})  BY <1>1
  <1>5. RestoreType  BY <1>1, <1>2, <1>3, <1>4 DEF RestoreType
  <1>6. target \in [DOMAIN target -> SUBSET Rows]  BY <1>1, DatabaseType
  <1>7. alone = target  BY <1>1, <1>6 DEF alone, NoTables
  <1>8. course([i \in 0 .. 0 |-> target])  BY <1>1, <1>4, <1>7 DEF course
  <1>9. Accounted  BY <1>1, <1>4 DEF Accounted, NoRestore
  <1>10. Gated /\ Chosen  BY <1>1 DEF Gated, Chosen, NoRestore
  <1> QED  BY <1>5, <1>8, <1>9, <1>10 DEF RestoreInv

\* What is not about the restore leaves its invariant alone.
LEMMA RestoreStands ==
    ASSUME RestoreInv, UNCHANGED <<engine, target, restore, before, foreign, ran>>
    PROVE  RestoreInv'
  <1>1. PICK f : course(f)  BY DEF RestoreInv
  <1>2. RestoreType  BY DEF RestoreInv
  <1>3. course(f)'  BY <1>1, <1>2, CourseKept
  <1> QED  BY <1>3 DEF RestoreInv, RestoreType, Accounted, Gated, Chosen, total

\* The invariant of the restore holds in every state: the target is the end of a course of
\* the statements that ran (run_restore).
THEOREM RestoreInvariant ==
    ASSUME RollsBackDdl
    PROVE  Spec => []RestoreInv
  <1>1. Init => RestoreInv  BY RestoreBegins
  <1>2. RestoreInv /\ DumpInv /\ [Next]_vars => RestoreInv'
    <2> SUFFICES ASSUME RestoreInv, DumpInv, [Next]_vars PROVE RestoreInv'  OBVIOUS
    <2>1. CASE DumpNext /\ UNCHANGED RestoreVars
      BY <2>1, DumpAlone, RestoreStands DEF RestoreVars
    <2>2. CASE RestoreNext
      <3>1. path.script \in Seq(Chunks)  BY DEF DumpInv, DumpType
      <3> QED  BY <2>2, <3>1, RestoreKept
    <2>3. CASE UNCHANGED vars
      BY <2>3, RestoreStands DEF vars, FileVars, RestoreVars
    <2> QED  BY <2>1, <2>2, <2>3 DEF Next
  <1> QED  BY <1>1, <1>2, DumpInvariant, PTL DEF Spec

\* Where CREATE TABLE does not commit, the target of a restore is what its outcome says: the
\* statements that ran, applied in order to what was there and to what others added, and
\* after an error nothing of them; without a confirmation no table that was there is
\* touched (run_restore, run_atomic, run_per_statement).
THEOREM RestoresAreAsReported ==
    ASSUME RollsBackDdl
    PROVE  Spec => []TargetIsAsReported
  <1>1. RestoreInv => TargetIsAsReported
    <2> SUFFICES ASSUME RestoreInv PROVE TargetIsAsReported  OBVIOUS
    <2>1. PICK f : course(f)  BY DEF RestoreInv
    <2>2. RestoreType /\ Accounted /\ Gated  BY DEF RestoreInv
    <2>3. target = Outcome  BY <2>1, <2>2, CourseEnds
    <2>4. restore.pc \in {"failed", "refused"} => ran = <<>>  BY <2>2 DEF Accounted
    <2>5. restore.statements_run = Len(ran)  BY <2>2 DEF Accounted
    <2>6. ASSUME restore.pc = "ok", ~ restore.cancelled, restore.on_error = "continue",
                 ~ restore.atomic, NEW i \in 1 .. total
          PROVE  i \in {ran[j] : j \in 1 .. Len(ran)} <=> i \notin restore.failures
      <3>1. /\ restore.index > total /\ total \in Nat /\ restore.index \in Nat
            /\ {ran[j] : j \in 1 .. Len(ran)} = (1 .. restore.index - 1) \ restore.failures
        BY <2>2, <2>6, RanType DEF Accounted, RestoreType, Restores
      <3> QED  BY <3>1
    <2>7. ASSUME ~ restore.confirmed, NEW t \in DOMAIN before
          PROVE  t \in DOMAIN target /\ target[t] = before[t]
      <3>1. restore.pc \in {"batch", "each", "ok", "failed"} => before = NoTables
        BY <2>2, <2>7 DEF Gated
      <3>2. before = NoTables \/ ran = <<>>
        BY <2>2, <3>1 DEF Accounted, RestoreType, Restores
      <3>3. before # NoTables  BY <2>7 DEF NoTables
      <3>4. target = alone  BY <2>1, <2>2, <3>2, <3>3, CourseBegins
      <3> QED  BY <2>7, <3>4 DEF alone
    <2> QED  BY <2>3, <2>4, <2>5, <2>6, <2>7 DEF TargetIsAsReported
  <1> QED  BY <1>1, RestoreInvariant, PTL
=============================================================================
