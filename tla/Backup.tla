---------------------------------- MODULE Backup ---------------------------------
(***************************************************************************)
(* A dump, and a restore of the file it leaves into another database of    *)
(* the same engine: what the two together promise.                         *)
(***************************************************************************)
EXTENDS Dump, Restore

vars == <<FileVars, DumpVars, RestoreVars>>

Init ==
    /\ engine \in Engines
    /\ path \in {[exists |-> FALSE, script |-> <<>>]}
                \cup {[exists |-> TRUE, script |-> s] : s \in ForeignScripts}
    /\ DumpInit
    /\ RestoreInit

\* A file is restored when nobody is writing it any more; a dump into the file
\* of a restore in progress is left out.  So are two kinds of files that differ
\* in nothing a restore could tell from those restored: what an agent dumped,
\* and what was dumped while rows changed.
Restorable == ~ DumpActive /\ dump.caller = "desktop" /\ touched = {}

Next ==
    \/ restore.pc = "idle" /\ DumpNext /\ UNCHANGED RestoreVars
    \/ Restorable /\ RestoreNext /\ UNCHANGED DumpVars

Spec == Init /\ [][Next]_vars

\* Both commands run to their end: an adapter answers or fails, a write returns.
LiveSpec ==
    /\ Spec
    /\ WF_vars(Dumping /\ UNCHANGED RestoreVars)
    /\ WF_vars(Restoring /\ UNCHANGED DumpVars)
-------------------------------------------------------------------------------
\* How many rows of table t with key k the script inserts.
Inserted(script, t, k) ==
    Cardinality({i \in 1 .. Len(script) :
                    script[i].kind = "insert" /\ script[i].table = t
                        /\ \E r \in script[i].rows : r.key = k})

(***************************************************************************)
(* A dump that reports success and was not cancelled is on disk, accounts  *)
(* for every table, and of each table it does not report as failed or cut  *)
(* short it holds every row nobody touched exactly once, as it was; no     *)
(* other row of a table with a key is there twice either.  Pages are read  *)
(* one after another while rows come and go between them                   *)
(* (dump_table_data, build_select_page, cursor_from_last_row, FileSink).   *)
(***************************************************************************)
BackupIsComplete ==
    dump.pc = "ok" /\ ~ dump.cancelled /\ restore.pc = "idle" =>
        \A t \in Tables :
            /\ t \in dump.dumped \cup dump.failures
            /\ keyed(t) => \A k \in Keys : Inserted(path.script, t, k) <= 1
            /\ t \notin dump.failures \cup dump.truncations =>
                  \A r \in rows_of(t) : <<t, r.key>> \notin touched =>
                      /\ Inserted(path.script, t, r.key) = 1
                      /\ r \in RowsIn(path.script, t)

(***************************************************************************)
(* The script of a dump that reports success splits into exactly the       *)
(* statements the dump wrote, whatever the adapter's DDL looks like:       *)
(* adapter.rs asks every adapter for complete, terminated statements       *)
(* (table_ddl, split_statements).                                          *)
(***************************************************************************)
EveryStatementStands ==
    dump.pc = "ok" => Len(split_statements(path.script)) = Len(path.script)

(***************************************************************************)
(* An agent's dump destroys no file, wherever one turns up between the     *)
(* look at the path and the creation (check_dump_destination, create_new). *)
(***************************************************************************)
AgentSparesFiles ==
    [][dump.caller = "agent" /\ dump.pc \in {"plan", "create"} /\ path.exists => path' = path]_vars

(***************************************************************************)
(* Every dump comes to an end, page after page, whatever other clients do  *)
(* to the rows meanwhile (the loop of dump_table_data).                    *)
(***************************************************************************)
DumpEnds == dump.pc = "plan" ~> ~ DumpActive

\* What the statements the engine ran make of the target there was.
Outcome ==
    LET alone == [t \in DOMAIN before \cup DOMAIN foreign |->
                     IF t \in DOMAIN before THEN before[t] ELSE foreign[t]]
        f[i \in 0 .. Len(ran)] == IF i = 0 THEN alone ELSE applied(f[i - 1], statement(ran[i]))
    IN f[Len(ran)]

(***************************************************************************)
(* The target is what the outcome says: after an error it is as if no      *)
(* statement had run; after a run of every statement for itself each one   *)
(* ran, failed or, after a stop or a cancel, was not begun, in the order   *)
(* of the script (run_atomic, run_per_statement, stripped COMMITs).  A     *)
(* restore the user did not confirm leaves every table alone that was in   *)
(* the target when it started, also one that came into it after the dialog *)
(* had found it empty (the second plan_restore, the gate of run_restore).  *)
(***************************************************************************)
TargetIsAsReported ==
    /\ restore.pc \in {"failed", "refused"} => ran = <<>> /\ target = Outcome
    /\ restore.pc = "ok" =>
          /\ target = Outcome
          /\ restore.statements_run = Len(ran)
          /\ ~ restore.cancelled /\ restore.on_error = "continue" /\ ~ restore.atomic =>
                \A i \in 1 .. total : i \in {ran[j] : j \in 1 .. Len(ran)} <=> i \notin restore.failures
    /\ ~ restore.confirmed =>
          \A t \in DOMAIN before : t \in DOMAIN target /\ target[t] = before[t]
=============================================================================
