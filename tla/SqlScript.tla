-------------------------------- MODULE SqlScript --------------------------------
(***************************************************************************)
(* SQL text, character by character: the literals and identifiers a dump   *)
(* writes into a script (core/dump/literal.rs, insert.rs, write_back.rs)   *)
(* and the splitter that finds the statements again on restore             *)
(* (core/restore/split.rs).                                                *)
(*                                                                         *)
(* A script is a sequence of one-character strings.  The keywords of a     *)
(* statement are abstracted to a word each: no property tells them apart.  *)
(* One step of the machine is one turn of the splitter's loop.             *)
(***************************************************************************)
EXTENDS Naturals, SequencesExt

CONSTANTS
    Dialects,       \* {"Sqlite", "Postgres", "MySql"}
    Texts,          \* what a text cell can hold
    Others,         \* cells of any type, [type, text]
    Names           \* what tables and columns are called

Quote == "'"
Double == "\""
Backslash == "\\"
Newline == "\n"
Tick == "backtick"

\* s.replace(c, with)
replaced(s, c, with) ==
    FoldLeft(LAMBDA done, x : done \o (IF x = c THEN with ELSE <<x>>), <<>>, s)

\* quote_str: on MySQL the backslash first, then the quote.
quote_str(s, dialect) ==
    LET t == IF dialect = "MySql" THEN replaced(s, Backslash, <<Backslash, Backslash>>) ELSE s
    IN <<Quote>> \o replaced(t, Quote, <<Quote, Quote>>) \o <<Quote>>

quote_ident(ident, dialect) ==
    LET delimiter == IF dialect = "MySql" THEN Tick ELSE Double
    IN <<delimiter>> \o replaced(ident, delimiter, <<delimiter, delimiter>>) \o <<delimiter>>

\* A blob's digits are x here; only the quotes around them matter.
blob_literal(dialect) ==
    IF dialect = "Postgres"
    THEN <<Quote, Backslash, "x", Quote, ":", ":", "b">>
    ELSE <<"X", Quote, "x", Quote>>

\* NaN and the infinities; a finite real is digits.
real_literal(x, dialect) ==
    CASE x = "finite" -> <<"1">>
      [] dialect = "Postgres" -> <<Quote, "N", Quote, ":", ":", "d">>
      [] dialect = "MySql" \/ x = "nan" -> <<"N">>
      [] OTHER -> <<"-", "9", "e", "9">>

\* A cell is [type, text].
value_literal(value, dialect) ==
    CASE value.type = "Null" -> <<"N">>
      [] value.type = "Integer" -> <<"-", "1">>
      [] value.type = "Real" -> real_literal(value.text, dialect)
      [] value.type \in {"Text", "Json"} -> quote_str(value.text, dialect)
      [] value.type = "Blob" -> blob_literal(dialect)

\* Two rows of one cell: `INSERT INTO t (c) VALUES (v), (w);'
build_insert(name, v, w, dialect) ==
    <<"I", " ">> \o quote_ident(name, dialect) \o <<" ", "(">> \o quote_ident(name, dialect)
    \o <<")", " ", "V", " ", "(">> \o value_literal(v, dialect) \o <<")", ",", " ", "(">>
    \o value_literal(w, dialect) \o <<")", ";">>

\* build_update_sql with its key_predicate for a text key: `UPDATE t SET t = v WHERE t = w;'
build_update_sql(name, v, w, dialect) ==
    <<"U", " ">> \o quote_ident(name, dialect) \o <<" ", "S", " ">> \o quote_ident(name, dialect)
    \o <<" ", "=", " ">> \o value_literal(v, dialect) \o <<" ", "W", " ">>
    \o quote_ident(name, dialect) \o <<" ", "=", " ">> \o value_literal(w, dialect) \o <<";">>

\* What heads a table's part of the script: dump_header, `-- name', the DDL.
table_head(name, dialect) ==
    <<"-", "-", " ">> \o name \o <<Newline>> \o <<"C", " ">> \o quote_ident(name, dialect) \o <<";">>
-------------------------------------------------------------------------------
VARIABLES
    written,        \* what the script is made of: dialect, name and two cells
    chars,          \* the script
    i, start,       \* the splitter's place, and where the statement began (from 1)
    has_content,
    statements      \* where the statements found so far end

vars == <<written, chars, i, start, has_content, statements>>

\* The statements the script was written from.
Parts(w) == <<table_head(w.name, w.dialect),
              build_insert(w.name, w.v, w.w, w.dialect),
              build_update_sql(w.name, w.v, w.w, w.dialect)>>

Init ==
    /\ written \in [dialect : Dialects, name : Names, v : [type : {"Text"}, text : Texts], w : Others]
    /\ chars = FlattenSeq(Parts(written))
    /\ i = 1 /\ start = 1
    /\ has_content = FALSE
    /\ statements = <<>>

n == Len(chars)
At(k, c) == k <= n /\ chars[k] = c

\* The splitter goes on at k.
goto(k) == i' = k /\ UNCHANGED <<written, chars, start, statements>>

\* The first place from k on where `found' holds, or the end.
first(k, found(_)) ==
    IF \E j \in k .. n : found(j) THEN CHOOSE j \in k .. n : found(j) /\ \A l \in k .. j - 1 : ~ found(l)
    ELSE n + 1

line_comment ==
    /\ At(i, "-") /\ At(i + 1, "-")
    /\ goto(first(i + 2, LAMBDA j : chars[j] = Newline))
    /\ UNCHANGED has_content

is_ident_char(c) == c \notin {Quote, Double, Tick, Backslash, Newline, " ", ";", "$", "(", ")",
                              ",", "-", "=", ":", "/", "*"}

is_escape_string_opener(k) ==
    /\ k > 1 /\ chars[k - 1] \in {"e", "E"}
    /\ k > 2 => ~ is_ident_char(chars[k - 2])

\* Just past the quotation that opens at k: a doubled delimiter is inside it, a
\* backslash escapes where `escapes' says so.
closing(k, delimiter, escapes) ==
    LET f[j \in k .. n + 2] ==
            IF j > n THEN n + 1
            ELSE IF escapes /\ chars[j] = Backslash /\ j < n THEN f[j + 2]
            ELSE IF chars[j] # delimiter THEN f[j + 1]
            ELSE IF At(j + 1, delimiter) THEN f[j + 2]
            ELSE j + 1
    IN f[k + 1]

skip_single_quoted(k) == closing(k, Quote, is_escape_string_opener(k))
skip_delimited(k, delimiter) == closing(k, delimiter, FALSE)

single_quoted ==
    /\ At(i, Quote)
    /\ goto(skip_single_quoted(i))
    /\ has_content' = TRUE

delimited ==
    /\ At(i, Double) \/ At(i, Tick)
    /\ goto(skip_delimited(i, chars[i]))
    /\ has_content' = TRUE

\* try_open_dollar_quote and find_dollar_close: `$tag$ ... $tag$'.
tag_end(k) == first(k + 1, LAMBDA j : ~ is_ident_char(chars[j]))

dollar ==
    /\ At(i, "$")
    /\ LET j == tag_end(i)
           delim == SubSeq(chars, i, j)
           close == first(j + 1, LAMBDA l : SubSeq(chars, l, l + Len(delim) - 1) = delim)
       IN goto(IF ~ At(j, "$") \/ At(i + 1, "1") THEN i + 1
               ELSE IF close > n THEN n + 1 ELSE close + Len(delim))
    /\ has_content' = TRUE

semicolon ==
    /\ At(i, ";")
    /\ statements' = IF has_content THEN Append(statements, <<start, i>>) ELSE statements
    /\ i' = i + 1 /\ start' = i + 1
    /\ has_content' = FALSE
    /\ UNCHANGED <<written, chars>>

other ==
    /\ i <= n
    /\ chars[i] \notin {Quote, Double, Tick, "$", ";"}
    /\ ~ (At(i, "-") /\ At(i + 1, "-"))
    /\ goto(i + 1)
    /\ has_content' = (has_content \/ chars[i] \notin {" ", Newline})

split_statements == line_comment \/ single_quoted \/ delimited \/ dollar \/ semicolon \/ other

Next == split_statements

Spec == Init /\ [][Next]_vars
-------------------------------------------------------------------------------
\* Where the statements of the script really end.
Ends == [k \in 1 .. Len(Parts(written)) |->
            LET before == FlattenSeq(SubSeq(Parts(written), 1, k - 1))
            IN <<Len(before) + 1, Len(before) + Len(Parts(written)[k])>>]

(***************************************************************************)
(* Whatever is in a cell and whatever a table is called, short of a line   *)
(* break, the splitter finds the statements of a script exactly where they *)
(* were written: no quote, semicolon, comment or dollar sign of the data   *)
(* ends a statement or swallows the next one.                              *)
(***************************************************************************)
ScriptSplitsAsWritten == IsPrefix(statements, Ends) /\ (i > n => statements = Ends)

\* How an engine reads the string literal that opens at place 1 of s: the text
\* it stands for, and that nothing is left over.
Reads(s, dialect) ==
    LET m == Len(s)
        f[j \in 2 .. m + 2] ==
            IF j > m THEN [text |-> <<>>, end |-> 0]
            ELSE IF dialect = "MySql" /\ s[j] = Backslash /\ j < m
            THEN [f[j + 2] EXCEPT !.text = <<s[j + 1]>> \o @]
            ELSE IF s[j] = Quote /\ j < m /\ s[j + 1] = Quote
            THEN [f[j + 2] EXCEPT !.text = <<Quote>> \o @]
            ELSE IF s[j] = Quote THEN [text |-> <<>>, end |-> j]
            ELSE [f[j + 1] EXCEPT !.text = <<s[j]>> \o @]
    IN f[2]

(***************************************************************************)
(* A text literal means the text it was written for, to the engine of its  *)
(* dialect, where MySQL alone reads a backslash as an escape (quote_str).  *)
(***************************************************************************)
LiteralMeansItsText ==
    LET literal == quote_str(written.v.text, written.dialect)
    IN Reads(literal, written.dialect) = [text |-> written.v.text, end |-> Len(literal)]
=============================================================================
