---------------------------------- MODULE RowHistory ----------------------------------
(***************************************************************************)
(* The history a versioned database keeps (HistoryReader): one row's past  *)
(* values, the difference of two commits, and who last changed each row,   *)
(* read from Dolt's system tables (dbboard-mysql dolt.rs) and from         *)
(* Umbrachyx's commands (dbboard-redis umbrachyx.rs), through McpService.  *)
(*                                                                         *)
(* The database is its commits, each with the rows as it left them.        *)
(* Commits go on while a call reads; Dolt answers a call in one statement, *)
(* Umbrachyx pages through its keys.  A row is a tuple of values, its key  *)
(* the first; a key is a sequence of numbers, so that keys have an order.  *)
(***************************************************************************)
EXTENDS Naturals, Sequences, FiniteSets, SequencesExt

CONSTANTS
    None, Failed,
    Scenarios,              \* records: kind, columns, rows, prefix, star
    MAX_COMMITS,            \* bounds the history
    DEFAULT_ROW_VERSIONS, MAX_COMMIT_LIMIT,
    CELLS_PAGE, MAX_CELL_PAGES, MAX_RESULT_ROWS

VARIABLES scenario, commits, call

HistoryVars == <<scenario, commits, call>>

Authors == {"ann", "bob"}
Asks == {"log", "row", "diff", "blame"}
NoCall == [ask |-> "none", limit |-> 0, key |-> None, from |-> 0, to |-> 0, since |-> 0, until |-> 0,
           pages |-> 0, after |-> <<>>, entries |-> <<>>, answer |-> None, result |-> "idle"]

keys == DOMAIN scenario.rows
value(row, n) == commits[n].rows[row]
before(row, n) == IF n = 1 THEN None ELSE value(row, n - 1)
changed_at(row, n) == value(row, n) # before(row, n)

HistoryInit ==
    /\ scenario \in Scenarios
    /\ commits \in {<<[who |-> w, rows |-> r]>> : w \in {"ann"}, r \in [keys -> scenario.values \cup {None}]}
    /\ call = NoCall

\* Somebody commits while no answer is complete: one row is inserted, changed or
\* removed, or none.
commit ==
    /\ Len(commits) < MAX_COMMITS /\ call.result \in {"idle", "paging"}
    /\ \E who \in Authors, row \in keys, v \in scenario.values \cup {None} :
          commits' = Append(commits, [who |-> who, rows |-> [commits[Len(commits)].rows EXCEPT ![row] = v]])
    /\ UNCHANGED <<scenario, call>>

newest_first(test(_), n) ==
    LET found == {i \in 1 .. n : test(i)} IN SetToSortSeq(found, LAMBDA a, b : a > b)
first(s, n) == SubSeq(s, 1, IF n < Len(s) THEN n ELSE Len(s))
commit_of(n) == [hash |-> n, author |-> commits[n].who]
-------------------------------------------------------------------------------
(***************************************************************************)
(* What is compared (dbboard-core history.rs).                             *)
(***************************************************************************)
partial_eq(a, b) == a = b /\ a # "NaN"
same_value(a, b) == partial_eq(a, b) \/ (a = "NaN" /\ b = "NaN")

changed_columns(old, new) == {i \in DOMAIN old : ~ same_value(old[i], new[i])}

between(old, new) ==
    CASE old = None /\ new = None -> None
      [] old = None -> [kind |-> "added", before |-> None, after |-> new, changed |-> DOMAIN new]
      [] new = None -> [kind |-> "removed", before |-> old, after |-> None, changed |-> DOMAIN old]
      [] changed_columns(old, new) = {} -> None
      [] OTHER -> [kind |-> "modified", before |-> old, after |-> new,
                   changed |-> changed_columns(old, new)]

(***************************************************************************)
(* Dolt.  A result is the names of its columns and its rows.               *)
(***************************************************************************)
row_of(k, n) == <<k>> \o value(k, n)
table_columns == <<"id">> \o scenario.columns

index_of(result, name) ==
    LET found == {i \in DOMAIN result.columns : result.columns[i] = name}
    IN IF found = {} THEN 0 ELSE CHOOSE i \in found : \A j \in found : i <= j

HISTORY_TAIL == <<"commit_hash", "committer", "commit_date", "email", "message">>

\* dolt_history lists the row at every commit that has it, touched by it or not.
row_history_sql(k, limit) ==
    LET listed == first(newest_first(LAMBDA n : value(k, n) # None, Len(commits)), limit)
    IN [columns |-> table_columns \o <<"commit_hash", "committer", "commit_date", "email", "message">>,
        rows |-> [i \in DOMAIN listed |->
                    row_of(k, listed[i]) \o <<listed[i], commits[listed[i]].who, listed[i], "e-mail", "why">>]]

\* A version that is not like the one after it.
differs_from_older(all, i) == i = Len(all) \/ between(all[i + 1].values, all[i].values) # None

\* The columns of the table end where the first of the appended ones is found.
parse_row_history(result) ==
    LET tail == [i \in DOMAIN HISTORY_TAIL |-> index_of(result, HISTORY_TAIL[i])]
        width == (CHOOSE i \in ToSet(tail) : \A j \in ToSet(tail) : i <= j) - 1
        all == [i \in DOMAIN result.rows |->
                  [commit |-> [hash |-> result.rows[i][tail[1]], author |-> result.rows[i][tail[2]]],
                   values |-> first(result.rows[i], width)]]
    IN [columns |-> first(result.columns, width),
        versions |-> LET kept == SetToSortSeq({i \in DOMAIN all : differs_from_older(all, i)},
                                              LAMBDA a, b : a < b)
                     IN [i \in DOMAIN kept |-> all[kept[i]]]]

\* dolt_commit_diff: the rows of the two commits side by side, where they differ.
Blank(columns) == [i \in DOMAIN columns |-> None]
side(k, n) == IF value(k, n) = None THEN Blank(table_columns) ELSE row_of(k, n)
diff_type(k, from, to) ==
    IF value(k, from) = None THEN "added" ELSE IF value(k, to) = None THEN "removed" ELSE "modified"
prefixed(p, columns) == [i \in DOMAIN columns |-> <<p, columns[i]>>]

commit_diff_sql(from, to) ==
    LET differ == SetToSeq({k \in keys : value(k, from) # value(k, to)})
    IN [columns |-> prefixed("to", table_columns) \o <<<<"to", "commit">>, <<"to", "commit_date">>>>
                      \o prefixed("from", table_columns) \o <<<<"from", "commit">>, <<"from", "commit_date">>>>
                      \o <<<<"diff", "type">>>>,
        rows |-> [i \in DOMAIN differ |->
                    side(differ[i], to) \o <<to, to>> \o side(differ[i], from) \o <<from, from>>
                      \o <<diff_type(differ[i], from, to)>>]]

parse_commit_diff(result) ==
    LET to_end == index_of(result, <<"to", "commit">>) - 1
        from_start == index_of(result, <<"to", "commit_date">>) + 1
        from_end == index_of(result, <<"from", "commit">>) - 1
        kind == index_of(result, <<"diff", "type">>)
        change(row) ==
            LET after == SubSeq(row, 1, to_end)
                old == SubSeq(row, from_start, from_end)
            IN CASE row[kind] = "added" -> between(None, after)
                 [] row[kind] = "removed" -> between(old, None)
                 [] OTHER -> between(old, after)
    IN IF from_end - from_start + 1 # to_end THEN Failed
       ELSE {change(result.rows[i]) : i \in DOMAIN result.rows} \ {None}

\* dolt_blame has the rows as they are, each with the commit that last changed it.
last_change(k, n) == CHOOSE i \in 1 .. n : changed_at(k, i) /\ \A j \in i + 1 .. n : ~ changed_at(k, j)

blame_sql ==
    LET there == SetToSeq({k \in keys : value(k, Len(commits)) # None})
        last(i) == last_change(there[i], Len(commits))
    IN [columns |-> <<"id", "commit", "commit_date", "committer", "email", "message">>,
        rows |-> [i \in DOMAIN there |->
                    <<there[i], last(i), last(i), commits[last(i)].who, "e-mail", "why">>]]

parse_blame(result) ==
    LET key_end == index_of(result, "commit")
        author == index_of(result, "committer")
    IN [i \in DOMAIN result.rows |->
          [key |-> first(result.rows[i], key_end - 1)[1],
           commit |-> [hash |-> result.rows[i][key_end], author |-> result.rows[i][author]]]]
-------------------------------------------------------------------------------
(***************************************************************************)
(* Umbrachyx: the changes of one key, the changed keys of two commits, and *)
(* pages of keys in their order, each with its last change.                *)
(***************************************************************************)
umbra_row_history(k, limit) ==
    LET changes == newest_first(LAMBDA n : changed_at(k, n), Len(commits))
        versions == [i \in DOMAIN changes |->
                       [commit |-> commit_of(changes[i]), values |-> <<k, value(k, changes[i])>>]]
    IN [columns |-> <<"key", "value">>, versions |-> first(versions, limit)]

starts_with(k, prefix) == Len(k) >= Len(prefix) /\ first(k, Len(prefix)) = prefix
precedes(a, b) ==
    \/ Len(a) < Len(b) /\ starts_with(b, a)
    \/ \E i \in DOMAIN a \cap DOMAIN b : a[i] < b[i] /\ first(a, i - 1) = first(b, i - 1)

\* A pattern of the sidebar: what its keys start with, and any run after it.
glob_matches(k) == IF scenario.star THEN starts_with(k, scenario.prefix) ELSE k = scenario.prefix

cell(k, n) == IF value(k, n) = None THEN None ELSE <<k, value(k, n)>>

umbra_diff(from, to) ==
    LET differ == {k \in keys : value(k, from) # value(k, to)}
    IN IF Cardinality(differ) > CELLS_PAGE THEN Failed
       ELSE {between(cell(k, from), cell(k, to)) : k \in {j \in differ : glob_matches(j)}} \ {None}

\* A key before all that start with the prefix; none for the first of all.
start_before(prefix) == IF prefix = <<>> THEN <<>> ELSE first(prefix, Len(prefix) - 1)

there_now == {k \in keys : value(k, Len(commits)) # None}
cells(after) ==
    LET listed == SetToSortSeq({k \in there_now : precedes(after, k)}, precedes)
    IN [keys |-> first(listed, CELLS_PAGE),
        next |-> IF Len(listed) > CELLS_PAGE THEN listed[CELLS_PAGE] ELSE None]

\* A key that does not start with the prefix ends the walk, wherever it is.
past_any(k) == ~ starts_with(k, scenario.prefix)
past(k) == precedes(scenario.prefix, k) /\ ~ starts_with(k, scenario.prefix)

blame_page(page) ==
    LET end == SelectInSeq(page.keys, past)
        seen == IF end = 0 THEN page.keys ELSE first(page.keys, end - 1)
        found == SelectSeq(seen, glob_matches)
    IN [entries |-> [i \in DOMAIN found |->
                       [key |-> found[i], commit |-> commit_of(last_change(found[i], Len(commits)))]],
        next |-> IF end # 0 THEN None ELSE page.next]
-------------------------------------------------------------------------------
clamp(asked, default, max) ==
    IF asked = None THEN default ELSE IF asked < 1 THEN 1 ELSE IF asked > max THEN max ELSE asked

\* A connection that keeps no history answers the log with that, and nothing else.
unavailable(ask) ==
    /\ scenario.kind = "none"
    /\ call' = [NoCall EXCEPT !.ask = ask, !.result = IF ask = "log" THEN "not available" ELSE "refused"]

\* No key would be every row, and no ref is no commit.
refused(ask) ==
    /\ ask \in {"row", "diff"}
    /\ call' = [NoCall EXCEPT !.ask = ask, !.result = "refused"]

answered(ask, c, answer) ==
    call' = [c EXCEPT !.ask = ask, !.answer = answer, !.since = Len(commits), !.until = Len(commits),
                      !.result = IF answer = Failed THEN "failed" ELSE "done"]

commit_log(limit) ==
    LET all == newest_first(LAMBDA n : TRUE, Len(commits))
    IN answered("log", NoCall, [i \in DOMAIN first(all, limit) |-> commit_of(all[i])])

row_history(k, limit) ==
    answered("row", [NoCall EXCEPT !.key = k, !.limit = limit],
             IF scenario.kind = "dolt" THEN parse_row_history(row_history_sql(k, limit))
             ELSE umbra_row_history(k, limit))

diff(from, to) ==
    answered("diff", [NoCall EXCEPT !.from = from, !.to = to],
             IF scenario.kind = "dolt" THEN parse_commit_diff(commit_diff_sql(from, to))
             ELSE umbra_diff(from, to))

blame ==
    IF scenario.kind = "dolt" THEN answered("blame", NoCall, parse_blame(blame_sql))
    ELSE call' = [NoCall EXCEPT !.ask = "blame", !.since = Len(commits),
                                !.after = start_before(scenario.prefix), !.result = "paging"]

ask ==
    /\ call.result = "idle"
    /\ \/ \E a \in Asks : unavailable(a) \/ refused(a)
       \/ /\ scenario.kind # "none"
          /\ \/ \E asked \in {None} \cup 0 .. MAX_COMMIT_LIMIT + 1 :
                   LET limit == clamp(asked, DEFAULT_ROW_VERSIONS, MAX_COMMIT_LIMIT)
                   IN commit_log(limit) \/ \E k \in keys : row_history(k, limit)
             \/ \E from, to \in DOMAIN commits : diff(from, to)
             \/ blame
    /\ UNCHANGED <<scenario, commits>>

\* One page of UMBRA.CELLS: whole within its pages and rows, or an error.
blame_next_page ==
    /\ call.result = "paging"
    /\ LET page == blame_page(cells(call.after))
           entries == call.entries \o page.entries
           over(result) == call' = [call EXCEPT !.entries = entries, !.answer = entries,
                                                !.until = Len(commits), !.result = result]
       IN IF Len(entries) > MAX_RESULT_ROWS THEN over("failed")
          ELSE IF page.next = None THEN over("done")
          ELSE IF call.pages + 1 = MAX_CELL_PAGES THEN over("failed")
          ELSE call' = [call EXCEPT !.entries = entries, !.after = page.next, !.pages = @ + 1]
    /\ UNCHANGED <<scenario, commits>>

HistoryNext == commit \/ ask \/ blame_next_page

HistorySpec == HistoryInit /\ [][HistoryNext]_HistoryVars
-------------------------------------------------------------------------------
done(a) == call.ask = a /\ call.result = "done"
shown(k, n) == IF scenario.kind = "dolt" THEN row_of(k, n) ELSE <<k, value(k, n)>>

(***************************************************************************)
(* The versions of a row say what it was: at every commit the answer       *)
(* reaches back to and that has the row, its value is that of the newest   *)
(* version not after it ("one row's values at each commit that changed it, *)
(* newest first").                                                         *)
(***************************************************************************)
VersionsTellTheRow ==
    done("row") =>
        LET versions == call.answer.versions
        IN /\ \A i \in 1 .. Len(versions) - 1 : versions[i].commit.hash > versions[i + 1].commit.hash
           /\ versions = <<>> => \A n \in 1 .. call.until : value(call.key, n) = None
           /\ \A n \in 1 .. call.until :
                 versions # <<>> /\ n >= versions[Len(versions)].commit.hash /\ value(call.key, n) # None =>
                     LET at == SelectInSeq(versions, LAMBDA v : v.commit.hash <= n)
                     IN versions[at].values = shown(call.key, n)

(***************************************************************************)
(* The difference of two commits is the rows that differ, each once, whole *)
(* on the sides it is on, with the columns whose value is another; or the  *)
(* call fails: "part of a diff would read as the whole of it"              *)
(* (umbrachyx.rs).                                                         *)
(***************************************************************************)
DiffIsTheDifference ==
    done("diff") =>
        LET matching == {k \in keys : scenario.kind = "umbrachyx" => glob_matches(k)}
            old(k) == IF value(k, call.from) = None THEN None ELSE shown(k, call.from)
            new(k) == IF value(k, call.to) = None THEN None ELSE shown(k, call.to)
        IN /\ {<<c.before, c.after>> : c \in call.answer}
                = {<<old(k), new(k)>> : k \in {j \in matching : old(j) # new(j)}}
           /\ \A c \in call.answer : c.kind = "modified" =>
                 c.changed = {i \in DOMAIN c.before : c.before[i] # c.after[i]}

(***************************************************************************)
(* Blame names, once, every row that was there all along and that no       *)
(* commit touched while the answer was put together, with the commit that  *)
(* last changed it, however many pages it took.                            *)
(***************************************************************************)
BlameNamesTheLastChange ==
    done("blame") =>
        \A k \in keys :
            /\ value(k, call.since) # None
            /\ \A n \in call.since + 1 .. call.until : ~ changed_at(k, n)
            /\ scenario.kind = "umbrachyx" => glob_matches(k)
            =>  Cardinality({i \in DOMAIN call.answer :
                    call.answer[i] = [key |-> k, commit |-> commit_of(last_change(k, call.since))]}) = 1
=============================================================================
