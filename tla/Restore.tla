--------------------------------- MODULE Restore --------------------------------
(***************************************************************************)
(* The logical restore (core/restore/run.rs, plan.rs; restore.rs of the    *)
(* desktop): the script is read, split and classified, the target's tables *)
(* are listed, and unless there are none the user has to confirm.  Where   *)
(* the adapter offers it the script runs as one transaction, elsewhere one *)
(* statement at a time.                                                    *)
(*                                                                         *)
(* The dialog plans first and shows what it found; the command that runs   *)
(* afterwards reads the file and lists the tables again.                   *)
(***************************************************************************)
EXTENDS BackupFile

CONSTANTS
    Targets,        \* the databases to restore into
    RestoreFaults,  \* what may fail: "list", "statement", "commit"
    MaxIntruders    \* how many tables other clients create in the target

Database == UNION {[ts -> SUBSET Rows] : ts \in SUBSET Tables}
ASSUME TargetAssumption == Targets \subseteq Database
ASSUME RestoreFaultAssumption == RestoreFaults \subseteq {"list", "statement", "commit"}
ASSUME IntruderAssumption == MaxIntruders \in Nat

VARIABLES
    target,         \* the database: the tables there are, with their rows
    restore,        \* the dialog and the command it starts
    restore_cancel, \* the flag the cancel button sets
    before,         \* history: the target when the command began
    foreign,        \* history: the tables other clients created, with their rows
    ran             \* history: the statements the engine ran to their end

RestoreVars == <<target, restore, restore_cancel, before, foreign, ran>>

NoTables == [t \in {} |-> {}]

NoRestore ==
    [pc |-> "idle", confirmed |-> FALSE, on_error |-> "stop", statements |-> <<>>,
     existing |-> {}, index |-> 1, statements_run |-> 0, failures |-> {},
     cancelled |-> FALSE, atomic |-> FALSE]

RestoreInit ==
    /\ target \in Targets
    /\ restore = NoRestore
    /\ restore_cancel \in BOOLEAN
    /\ before = target
    /\ foreign = NoTables
    /\ ran = <<>>

RestoreActive == restore.pc \notin {"idle", "dialog", "ok", "refused", "failed"}
-------------------------------------------------------------------------------
(***************************************************************************)
(* The engine's side of a statement: what the target db becomes, or that   *)
(* the statement is refused.                                               *)
(***************************************************************************)
holds_key(db, t, rows) == \E r \in db[t], s \in rows : r.key = s.key

accepted(db, statement) ==
    LET chunk == statement[1] IN
    /\ Len(statement) = 1 /\ chunk.whole
    /\ CASE chunk.kind = "ddl" ->
                /\ chunk.table \notin DOMAIN db
                /\ Capabilities(engine).checks_references =>
                      RefersTo[chunk.table] \subseteq DOMAIN db \cup {chunk.table}
         [] chunk.kind = "insert" ->
                /\ chunk.table \in DOMAIN db
                /\ chunk.table \notin Keyless => ~ holds_key(db, chunk.table, chunk.rows)
         [] OTHER -> TRUE

applied(db, statement) ==
    LET chunk == statement[1] IN
    CASE chunk.kind = "ddl" -> [t \in DOMAIN db \cup {chunk.table} |->
                                   IF t = chunk.table THEN {} ELSE db[t]]
      [] chunk.kind = "insert" -> [t \in DOMAIN db |->
                                      IF t = chunk.table THEN db[t] \cup chunk.rows ELSE db[t]]
      [] OTHER -> db
-------------------------------------------------------------------------------
(***************************************************************************)
(* The dialog and the gate.                                                *)
(***************************************************************************)
\* plan_restore for the dialog: the user decides by what it shows, confirming
\* only where it says that the target is not empty.
open_dialog ==
    /\ restore.pc = "idle"
    /\ path.exists
    /\ \E confirmed \in {c \in BOOLEAN : c => target # NoTables}, on_error \in {"stop", "continue"} :
          restore' = [restore EXCEPT !.pc = "dialog", !.confirmed = confirmed,
                                     !.on_error = on_error]
    /\ UNCHANGED <<FileVars, target, restore_cancel, before, foreign, ran>>

\* run_restore of the desktop: the file is read.
begin_restore ==
    /\ restore.pc = "dialog"
    /\ restore' = [restore EXCEPT !.pc = "plan", !.statements = classify_script(path.script)]
    /\ before' = target
    /\ UNCHANGED <<FileVars, target, restore_cancel, foreign, ran>>

\* plan_restore lists the tables; then the flag is cleared.
plan_restore ==
    /\ restore.pc = "plan"
    /\ restore' = [restore EXCEPT !.pc = "gate", !.existing = DOMAIN target]
    /\ restore_cancel' = FALSE
    /\ UNCHANGED <<FileVars, target, before, foreign, ran>>

plan_restore_fails ==
    /\ restore.pc = "plan"
    /\ "list" \in RestoreFaults
    /\ restore' = [restore EXCEPT !.pc = "refused"]
    /\ UNCHANGED <<FileVars, target, restore_cancel, before, foreign, ran>>

\* The script's own BEGIN and COMMIT run with the rest.
unstripped == restore.statements

stripped ==
    LET others[i \in 0 .. Len(restore.statements)] ==
            IF i = 0 THEN <<>>
            ELSE IF restore.statements[i].kind = "TransactionControl" THEN others[i - 1]
            ELSE Append(others[i - 1], restore.statements[i])
    IN others[Len(restore.statements)]

is_target_empty == restore.existing = {}

gate ==
    /\ restore.pc = "gate"
    /\ restore' =
          IF ~ is_target_empty /\ ~ restore.confirmed
          THEN [restore EXCEPT !.pc = "refused"]
          ELSE [restore EXCEPT !.statements = stripped,
                               !.atomic = Capabilities(engine).has_atomic_restore,
                               !.pc = IF Capabilities(engine).has_atomic_restore
                                      THEN "batch" ELSE "each"]
    /\ UNCHANGED <<FileVars, target, restore_cancel, before, foreign, ran>>
-------------------------------------------------------------------------------
(***************************************************************************)
(* run_atomic: BEGIN, every statement, COMMIT.  Nobody else sees what is   *)
(* in the transaction, so one action stands for all of it; `kept' is what  *)
(* is left of the target when it breaks off after n statements.  A COMMIT  *)
(* among the statements, or a CREATE TABLE that commits, ends the          *)
(* transaction there, and what follows stays as it comes.                  *)
(***************************************************************************)
statement(i) == restore.statements[i].sql
total == Len(restore.statements)

\* The target after the first n statements.
DoneUpTo(n) ==
    LET f[i \in 0 .. n] == IF i = 0 THEN target ELSE applied(f[i - 1], statement(i)) IN f[n]
Runs(n) == \A i \in 1 .. n : accepted(DoneUpTo(i - 1), statement(i))

commits(s) == \/ s[1].kind = "commit"
              \/ s[1].kind = "ddl" /\ Capabilities(engine).ddl_commits
kept(n) == IF \E i \in 1 .. n : commits(statement(i)) THEN DoneUpTo(n) ELSE target

batch_cancelled ==
    /\ restore.pc = "batch"
    /\ restore_cancel
    /\ restore' = [restore EXCEPT !.pc = "ok", !.cancelled = TRUE]
    /\ UNCHANGED <<FileVars, target, restore_cancel, before, foreign, ran>>

run_atomic ==
    /\ restore.pc = "batch"
    /\ ~ restore_cancel
    /\ Runs(total)
    /\ target' = DoneUpTo(total)
    /\ ran' = [i \in 1 .. total |-> i]
    /\ restore' = [restore EXCEPT !.pc = "ok", !.statements_run = total]
    /\ UNCHANGED <<FileVars, restore_cancel, before, foreign>>

\* Statement n + 1 is refused or fails, or the commit does.
run_atomic_fails ==
    /\ restore.pc = "batch"
    /\ ~ restore_cancel
    /\ \E n \in 0 .. total :
          /\ Runs(n)
          /\ IF n < total
             THEN ~ accepted(DoneUpTo(n), statement(n + 1)) \/ "statement" \in RestoreFaults
             ELSE "commit" \in RestoreFaults
          /\ target' = kept(n)
    /\ restore' = [restore EXCEPT !.pc = "failed"]
    /\ UNCHANGED <<FileVars, restore_cancel, before, foreign, ran>>
-------------------------------------------------------------------------------
(***************************************************************************)
(* run_per_statement: every statement is a call of its own and stays.      *)
(***************************************************************************)
each_done ==
    /\ restore.pc = "each"
    /\ restore_cancel \/ restore.index > total
    /\ restore' = [restore EXCEPT !.pc = "ok",
                                  !.cancelled = restore.index <= total]
    /\ UNCHANGED <<FileVars, target, restore_cancel, before, foreign, ran>>

execute ==
    /\ restore.pc = "each"
    /\ ~ restore_cancel /\ restore.index <= total
    /\ accepted(target, statement(restore.index))
    /\ target' = applied(target, statement(restore.index))
    /\ ran' = Append(ran, restore.index)
    /\ restore' = [restore EXCEPT !.index = @ + 1, !.statements_run = @ + 1]
    /\ UNCHANGED <<FileVars, restore_cancel, before, foreign>>

execute_fails ==
    /\ restore.pc = "each"
    /\ ~ restore_cancel /\ restore.index <= total
    /\ ~ accepted(target, statement(restore.index)) \/ "statement" \in RestoreFaults
    /\ restore' = [restore EXCEPT
                      !.pc = IF restore.on_error = "stop" THEN "ok" ELSE "each",
                      !.index = @ + 1,
                      !.failures = @ \cup {restore.index}]
    /\ UNCHANGED <<FileVars, target, restore_cancel, before, foreign, ran>>
-------------------------------------------------------------------------------
cancel_restore ==
    /\ RestoreActive
    /\ ~ restore_cancel
    /\ restore_cancel' = TRUE
    /\ UNCHANGED <<FileVars, target, restore, before, foreign, ran>>

\* Another client creates a table with a row in it.
intrude ==
    /\ Cardinality(DOMAIN foreign) < MaxIntruders
    /\ restore.pc \notin {"idle", "ok", "refused", "failed"}
    /\ \E t \in Tables \ DOMAIN target, r \in {r \in Rows : r.key = 1} :
          /\ target' = [u \in DOMAIN target \cup {t} |-> IF u = t THEN {r} ELSE target[u]]
          /\ foreign' = [u \in DOMAIN foreign \cup {t} |-> IF u = t THEN {r} ELSE foreign[u]]
    /\ UNCHANGED <<FileVars, restore, restore_cancel, before, ran>>

Restoring ==
    \/ plan_restore \/ plan_restore_fails \/ gate
    \/ batch_cancelled \/ run_atomic \/ run_atomic_fails
    \/ each_done \/ execute \/ execute_fails

RestoreNext ==
    open_dialog \/ begin_restore \/ Restoring \/ cancel_restore \/ intrude
=============================================================================
