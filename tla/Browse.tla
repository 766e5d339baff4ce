-------------------------------- MODULE Browse --------------------------------
(***************************************************************************)
(* A table opened in the window: read page by page along its primary key,  *)
(* and edited in place (core browse.rs, write_back.rs and dump/select.rs,  *)
(* the desktop's browse.rs, and QueryPanel.svelte with its helpers).       *)
(*                                                                         *)
(* The same table stands in several places, a database behind a connection *)
(* each.  A page is read, answered and described in steps of its own; the  *)
(* operator selects another place or runs a statement of his own, and      *)
(* other clients write, between any two.  A save sends one UPDATE for each *)
(* row that was touched.                                                   *)
(***************************************************************************)
EXTENDS Integers, FiniteSets, Sequences, SequencesExt

CONSTANTS Places,
          connection_of,  \* the connection of every place
          Keys,           \* the primary keys rows may have, numbers
          Exact,          \* the largest number the page holds exactly
          RowLimits,      \* the sizes of a page to choose from
          MaxChanges      \* how often other clients write

VARIABLES tables,    \* the value of every row of the table in each place
          keyed,     \* whether the table declares its key
          selected,  \* the place the sidebar points at
          grid,      \* what is on screen
          call,      \* the read under way
          staged,    \* the touched rows on screen
          saving,    \* where the update under way goes, it, those still to be sent,
                     \* and whether another table was opened since the save began
          changes

BrowseVars == <<tables, keyed, selected, grid, call, staged, saving, changes>>

Absent == 0
Old == 1
Edited == 2
NoCursor == -1

\* A number, read into JavaScript and back: past 2^53 only even ones are left.
\* The tie goes to the number whose half is even.
through_the_page(n) ==
    IF n <= Exact \/ n % 2 = 0 THEN n
    ELSE IF ((n - 1) \div 2) % 2 = 0 THEN n - 1 ELSE n + 1

rows_of(table) == {k \in Keys : table[k] # Absent}

\* The rows after the cursor, all of them on the first page and without a key.
after(table, cursor) ==
    {k \in rows_of(table) : keyed /\ cursor # NoCursor => k > cursor}

\* build_select_page: LIMIT of them, those with the smallest keys and in key
\* order; without a key whichever the engine comes upon.
select_page(table, cursor, limit) ==
    LET found == after(table, cursor)
        n == IF limit < Cardinality(found) THEN limit ELSE Cardinality(found)
    IN  {rows \in [1 .. n -> found] :
           \A i \in 1 .. n :
              /\ \A j \in 1 .. n : rows[i] = rows[j] => i = j
              /\ keyed => \A k \in found : k < rows[i] => \E j \in 1 .. i - 1 : rows[j] = k}

\* The cursor behind a page is its last row, the one kept.
cursor_from_last_row(page) == page[Len(page)]

\* One row more than the page is read, to see whether there is a next page.
page_of(rows, limit) ==
    LET page == SubSeq(rows, 1, IF limit < Len(rows) THEN limit ELSE Len(rows))
    IN  [rows |-> page,
         next |-> IF Len(rows) > limit /\ keyed THEN through_the_page(cursor_from_last_row(page))
                  ELSE NoCursor]
browse_page(table, cursor, limit) ==
    {page_of(rows, limit) : rows \in select_page(table, cursor, limit + 1)}

---------------------------------------------------------------------------
Blank == [origin |-> "none", table |-> FALSE, rows |-> <<>>, next |-> NoCursor,
          trail |-> <<NoCursor>>, index |-> 1, pk |-> FALSE]
NoCall == [at |-> "none", origin |-> "none", index |-> 1,
           answer |-> [rows |-> <<>>, next |-> NoCursor]]
NoSave == [to |-> "none", updates |-> <<>>, moved |-> FALSE]

BrowseInit ==
    /\ tables \in [Places -> [Keys -> {Absent, Old}]] /\ keyed \in BOOLEAN
    /\ selected \in Places
    /\ grid = Blank /\ call = NoCall /\ staged = {} /\ saving = NoSave /\ changes = 0

busy == call.at # "none"
is_saving == saving # NoSave

belongs_to(origin, place) == origin # "none" /\ connection_of[origin] = connection_of[place]

\* The sidebar is pointed elsewhere: rows of another connection leave the
\* screen, what is under way goes on.  The trail a cleared grid keeps is
\* replaced before anything reads it.
select_place(p) ==
    /\ p # selected /\ selected' = p
    /\ IF grid.origin = "none" \/ belongs_to(grid.origin, p) THEN UNCHANGED <<grid, staged>>
       ELSE grid' = Blank /\ staged' = {}
    /\ UNCHANGED <<tables, keyed, call, saving, changes>>

\* What a read that starts anew leaves: the rows stay on screen until its own
\* arrive, but they are of no table that can be edited or turned.
starts_anew(table) ==
    [grid EXCEPT !.origin = selected, !.table = table, !.trail = <<NoCursor>>, !.index = 1,
                 !.pk = FALSE]

\* readPage and execute, unless a read is under way.
asked(at, origin, index) == [NoCall EXCEPT !.at = at, !.origin = origin, !.index = index]

\* The first page of the table, in the place selected now.
start_browse ==
    /\ ~busy
    /\ grid' = starts_anew(TRUE) /\ call' = asked("asked", selected, 1)
    /\ saving' = IF is_saving THEN [saving EXCEPT !.moved = TRUE] ELSE saving
    /\ UNCHANGED <<tables, keyed, selected, staged, changes>>

turn_page ==
    /\ ~busy /\ grid.table
    /\ \/ grid.next # NoCursor /\ call' = asked("asked", grid.origin, grid.index + 1)
       \/ grid.index > 1 /\ call' = asked("asked", grid.origin, grid.index - 1)
    /\ UNCHANGED <<tables, keyed, selected, grid, staged, saving, changes>>

the_cursor == grid.trail[call.index]

\* The answer to a grid that is gone is looked at by nobody.
engine_reads ==
    /\ call.at = "asked"
    /\ IF grid.origin = call.origin
       THEN \E limit \in RowLimits :
              \E answer \in browse_page(tables[call.origin], the_cursor, limit) :
                 call' = [call EXCEPT !.at = "answered", !.answer = answer]
       ELSE call' = [call EXCEPT !.at = "answered"]
    /\ UNCHANGED <<tables, keyed, selected, grid, staged, saving, changes>>

\* The cursors up to this page stay, those of later pages go.
advance_trail(trail, index, next) == Append(SubSeq(trail, 1, index), next)

\* The rows arrive; those for a grid that is gone are dropped.
rows_arrive ==
    /\ call.at = "answered"
    /\ IF grid.origin = call.origin
       THEN /\ grid' = [grid EXCEPT !.rows = call.answer.rows, !.next = call.answer.next,
                            !.index = call.index,
                            !.trail = advance_trail(@, call.index, call.answer.next)]
            /\ staged' = {}
            /\ call' = [NoCall EXCEPT !.at = "described", !.origin = call.origin]
       ELSE call' = NoCall /\ UNCHANGED <<grid, staged>>
    /\ UNCHANGED <<tables, keyed, selected, saving, changes>>

\* describe_table tells the key; where it fails the rows stay read-only.  It is
\* not looked at which grid is there by then.
described ==
    /\ call.at = "described"
    /\ \E told \in BOOLEAN : grid' = [grid EXCEPT !.pk = keyed /\ told]
    /\ call' = NoCall
    /\ UNCHANGED <<tables, keyed, selected, staged, saving, changes>>

\* With no table left on screen, nothing can be turned, edited or read again.
read_fails ==
    /\ call.at = "asked"
    /\ call' = NoCall
    /\ IF grid.origin = call.origin THEN grid' = Blank /\ staged' = {}
       ELSE UNCHANGED <<grid, staged>>
    /\ UNCHANGED <<tables, keyed, selected, saving, changes>>

\* execute: a statement somebody wrote is run in the place selected now.
executes == grid' = starts_anew(FALSE) /\ call' = asked("running", selected, 1)

run ==
    /\ ~busy /\ executes
    /\ UNCHANGED <<tables, keyed, selected, staged, saving, changes>>

\* Its rows are of no table, and there is no page after them; nor after an error.
statement_ends ==
    /\ call.at = "running" /\ call' = NoCall
    /\ IF grid.origin = call.origin
       THEN grid' = [grid EXCEPT !.rows = <<>>, !.next = NoCursor] /\ staged' = {}
       ELSE UNCHANGED <<grid, staged>>
    /\ UNCHANGED <<tables, keyed, selected, saving, changes>>

---------------------------------------------------------------------------
(* Edits. *)

\* editContextFor: none for rows of no table, of a table without a key, or of
\* a connection the sidebar does not point at.
edit_context ==
    IF grid.table /\ grid.pk /\ belongs_to(grid.origin, selected) THEN grid.origin ELSE "none"
editable == edit_context # "none"

stage ==
    /\ editable
    /\ \E i \in DOMAIN grid.rows : staged' = staged \union {i}
    /\ UNCHANGED <<tables, keyed, selected, grid, call, saving, changes>>

discard_edits ==
    /\ editable /\ ~is_saving /\ staged # {} /\ staged' = {}
    /\ UNCHANGED <<tables, keyed, selected, grid, call, saving, changes>>

in_order(numbers) ==
    {s \in [1 .. Cardinality(numbers) -> numbers] : \A i, j \in DOMAIN s : i < j => s[i] < s[j]}

\* Mutant: the keys are looked up by the row's place in what was touched.
by_place_touched(rows, touched) ==
    [n \in DOMAIN touched |->
        [key |-> through_the_page(rows[n]), meant |-> rows[touched[n]], from |-> grid.origin]]

\* buildRowUpdates: one update for each touched row, keyed by what is on screen.
build_row_updates(rows, touched) ==
    [n \in DOMAIN touched |->
        [key |-> through_the_page(rows[touched[n]]), meant |-> rows[touched[n]],
         from |-> grid.origin]]

\* Where an update goes is looked up as it is sent; with nowhere to go the
\* save ends with an error.
send(updates) ==
    IF edit_context = "none" THEN NoSave
    ELSE [to |-> edit_context, updates |-> updates, moved |-> saving.moved]

save ==
    /\ editable /\ staged # {} /\ ~is_saving
    /\ \E touched \in in_order(staged) : saving' = send(build_row_updates(grid.rows, touched))
    /\ UNCHANGED <<tables, keyed, selected, grid, call, staged, changes>>

\* update_row: the rows whose key the UPDATE names, one or none.
matching(update) == {k \in rows_of(tables[saving.to]) : k = update.key}

\* reloadAfterSave: the page is read again, or what is in the editor is run.
reload_after_save ==
    IF busy THEN UNCHANGED <<grid, call>>
    ELSE IF grid.table THEN call' = asked("asked", grid.origin, grid.index) /\ UNCHANGED grid
    ELSE executes

\* The engine runs the update under way, and its answer is acted on: with one
\* row changed the next is sent or, after the last, the grid is read again;
\* with none the save ends and the edits stay.
update_row ==
    /\ is_saving
    /\ LET update == Head(saving.updates)
           left == Tail(saving.updates)
           one == Cardinality(matching(update)) = 1
       IN  /\ tables' = [tables EXCEPT ![saving.to] =
                            [k \in Keys |-> IF k \in matching(update) THEN Edited ELSE @[k]]]
           /\ saving' = IF one /\ left # <<>> THEN send(left) ELSE NoSave
           /\ IF one /\ left = <<>> THEN staged' = {} /\ reload_after_save
              ELSE UNCHANGED <<staged, grid, call>>
    /\ UNCHANGED <<keyed, selected, changes>>

\* The engine refuses, or cannot be reached: the edits stay where they are.
update_fails ==
    /\ is_saving /\ saving' = NoSave
    /\ UNCHANGED <<tables, keyed, selected, grid, call, staged, changes>>

---------------------------------------------------------------------------
\* Other clients put rows in and take rows out.
others_write ==
    /\ changes < MaxChanges /\ changes' = changes + 1
    /\ \E p \in Places : \E k \in Keys :
         tables' = [tables EXCEPT ![p][k] = IF @ = Absent THEN Old ELSE Absent]
    /\ UNCHANGED <<keyed, selected, grid, call, staged, saving>>

BrowseNext ==
    \/ \E p \in Places : select_place(p)
    \/ start_browse \/ turn_page \/ engine_reads \/ rows_arrive \/ described \/ read_fails
    \/ run \/ statement_ends
    \/ stage \/ discard_edits \/ save \/ update_row \/ update_fails \/ others_write

BrowseSpec == BrowseInit /\ [][BrowseNext]_BrowseVars

---------------------------------------------------------------------------
(* What a reader of the grid relies on. *)

\* The page behind Next is the rows that follow the last one on screen, as the
\* table stands: none is passed over and none comes a second time, whatever
\* was put in or taken out meanwhile and however the pages were turned before
\* (core browse.rs, "cannot shift the rows either side of the boundary";
\* pages.ts advanceTrail).
NextPageFollows ==
    (call.at = "asked" /\ call'.at = "answered" /\ grid.origin = call.origin
          /\ call.index = grid.index + 1 /\ grid.rows # <<>>) =>
        LET shown == grid.rows[Len(grid.rows)]
                following == {k \in rows_of(tables[call.origin]) : k > shown}
                page == ToSet(call'.answer.rows)
            IN  /\ page \subseteq following
                /\ \A k \in following \ page : \A p \in page : p < k
                /\ following # {} => page # {}

\* A save changes rows that were on screen, in the place they were read from,
\* and no other, whatever is selected, run or turned to meanwhile.  Only where
\* another table was opened before it ended is nothing promised: what is still
\* to be sent then goes to that one (desktop browse.rs: "a key value taken
\* straight from a query result round-trips into the update unchanged").
EditLandsOnTheRowShown ==
    (is_saving /\ ~saving.moved /\ saving' # saving) =>
          \A p \in Places : \A k \in Keys :
             tables'[p][k] # tables[p][k] =>
                 p = Head(saving.updates).from /\ k = Head(saving.updates).meant
=============================================================================
