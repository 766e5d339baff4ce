------------------------------ MODULE LocalNotes ------------------------------
(***************************************************************************)
(* Notes on tables and columns, and saved queries: annotations.toml and    *)
(* saved-queries.toml, each held whole in the memory of every window that  *)
(* opened it and written whole (annotations.rs, saved_queries.rs; the      *)
(* commands of browse.rs and queries.rs).                                  *)
(*                                                                         *)
(* A file is what it says: the text of a note by connection, table and     *)
(* column, or of a query by connection and name.  The stanzas it is laid   *)
(* out in, which are made when first needed and pruned when empty, say     *)
(* nothing more.  A window holds its lock for a whole command.             *)
(***************************************************************************)
EXTENDS Naturals, FiniteSets

CONSTANTS
    Windows,        \* the desktop windows on one profile
    Places,         \* where a note or a query goes: connection and table, column or name
    Texts,          \* texts, trimmed
    Blank           \* a text of nothing but blanks

Stores == {"annotations", "saved_queries"}
nothing == [p \in {} |-> Blank]

VARIABLES
    disk,           \* of each store: the file
    tmp,            \* of each store: a leftover of a save
    open,           \* the windows that run
    held,           \* of each window: its AnnotationsAdmin and SavedQueryAdmin
    promised        \* history: what a window was told its file holds

NotesVars == <<disk, tmp, open, held, promised>>

NotesInit ==
    /\ disk = [s \in Stores |-> nothing]
    /\ tmp = [s \in Stores |-> FALSE]
    /\ open = {}
    /\ held = [w \in Windows |-> disk]
    /\ promised = held

\* open_default, load_or_empty: a missing file is an empty one.
open_default(w) ==
    /\ w \notin open
    /\ open' = open \cup {w}
    /\ held' = [held EXCEPT ![w] = disk]
    /\ promised' = [promised EXCEPT ![w] = disk]
    /\ UNCHANGED <<disk, tmp>>

\* table_entry_mut, write_query; and what set_note and remove take away, pruned.
put(f, p, t) == [q \in DOMAIN f \cup {p} |-> IF q = p THEN t ELSE f[q]]
pruned(f, p) == [q \in DOMAIN f \ {p} |-> f[q]]

\* save_atomic: the temporary file, then the rename.  A leftover is in the way of
\* the notes, which fail loudly, and is removed by the saved queries.
saved(s, f) ==
    /\ s = "annotations" => ~ tmp[s]
    /\ disk' = [disk EXCEPT ![s] = f]
    /\ tmp' = [tmp EXCEPT ![s] = FALSE]
not_saved(s) ==
    /\ UNCHANGED disk
    /\ tmp' \in {[tmp EXCEPT ![s] = b] : b \in IF s = "annotations" /\ tmp[s] THEN {TRUE} ELSE BOOLEAN}

\* persist: the file first, the memory only once it is written.
persist(w, s, f) ==
    \/ saved(s, f) /\ held' = [held EXCEPT ![w][s] = f] /\ promised' = [promised EXCEPT ![w][s] = f]
    \/ not_saved(s) /\ UNCHANGED <<held, promised>>

\* set_table_note and set_column_note: a blank note takes the old one away.
set_note(w, p, t) ==
    /\ w \in open
    /\ persist(w, "annotations", IF t = Blank THEN pruned(held[w]["annotations"], p)
                                 ELSE put(held[w]["annotations"], p, t))
    /\ UNCHANGED open

\* save_query: add refuses a name that is taken, replace does not; both refuse a
\* blank text.
save_query(w, p, t, overwrite) ==
    LET f == held[w]["saved_queries"] IN
    /\ w \in open /\ t # Blank
    /\ p \in DOMAIN f => overwrite
    /\ persist(w, "saved_queries", put(f, p, t))
    /\ UNCHANGED open

\* remove writes nothing when there is nothing to remove.
delete_saved_query(w, p) ==
    LET f == held[w]["saved_queries"] IN
    /\ w \in open /\ p \in DOMAIN f
    /\ persist(w, "saved_queries", pruned(f, p))
    /\ UNCHANGED open

\* A window is closed, or killed in the middle of a save, before or after the rename.
close(w) == w \in open /\ open' = open \ {w} /\ UNCHANGED <<disk, tmp, held, promised>>
killed(w, s) ==
    /\ w \in open /\ open' = open \ {w}
    /\ ~ tmp[s] /\ tmp' = [tmp EXCEPT ![s] = TRUE]
    /\ UNCHANGED <<disk, held, promised>>

NotesNext ==
    \E w \in Windows :
        \/ open_default(w) \/ close(w)
        \/ \E s \in Stores : killed(w, s)
        \/ \E p \in Places, t \in Texts \cup {Blank} :
              \/ set_note(w, p, t)
              \/ \E b \in BOOLEAN : save_query(w, p, t, b)
        \/ \E p \in Places : delete_saved_query(w, p)

NotesSpec == NotesInit /\ [][NotesNext]_NotesVars
-------------------------------------------------------------------------------
(***************************************************************************)
(* A change that was reported as failed has left no trace: the window that *)
(* made it holds what it was last told was saved, so that no later save    *)
(* brings the change back (AnnotationsAdmin::persist, write_query).        *)
(***************************************************************************)
FailedSaveLeavesNoTrace == \A w \in open : held[w] = promised[w]
=============================================================================
