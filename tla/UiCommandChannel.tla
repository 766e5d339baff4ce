---------------------------- MODULE UiCommandChannel ----------------------------
(***************************************************************************)
(* UiCommandChannel (ui_command.rs of dbboard-config, send_ui_command of   *)
(* dbboard-mcp, ui_state.rs and lib/ui-command of the desktop): an agent   *)
(* tells the running window to do something and waits for its answer.      *)
(*                                                                         *)
(* The two ends are processes that share two files.  A call numbers its    *)
(* command above everything either file has seen, replaces ui-command.toml *)
(* and polls ui-command-result.toml for an answer with its number until    *)
(* its deadline.  A window polls the command file from a thread, hands     *)
(* what rose above the last number it acted on to its page, and the page   *)
(* answers when the work is finished, so answers may come late and in any  *)
(* order.  Both files are replaced through a temporary file of a fixed     *)
(* name, which two writers of one file share.                              *)
(***************************************************************************)
EXTENDS Integers, FiniteSets, FiniteSetsExt, Functions

CONSTANTS
    Calls,      \* the calls of send_ui_command, each made once
    After,      \* the calls an agent waits for before it makes one
    Windows,    \* the desktop windows
    Sessions,   \* how often each window is started
    Faults,     \* what may fail
    Nobody      \* no writer

ASSUME CallAssumption == IsFiniteSet(Calls) /\ After \in [Calls -> SUBSET Calls]
ASSUME SessionAssumption == Sessions \in Nat
\* "read": a file that cannot be read counts as absent; "emit": the event does
\* not reach the page; "write", "rename": saving a file; "kill": the process of
\* a call ends under it.
ASSUME FaultAssumption == Faults \subseteq {"read", "emit", "write", "rename", "kill"}
\* A writer of the command file is a call, of the result file a window's answer
\* to a call, and no writer is both.
ASSUME WriterAssumption ==
    /\ Nobody \notin Calls \cup (Windows \X Calls)
    /\ Calls \cap (Windows \X Calls) = {}

VARIABLES
    caller,     \* each call
    window,     \* each window
    path,       \* the two files
    tmp,        \* their temporary files
    taken,      \* history: the commands each window handed to its page
    carried     \* history: the commands a window carried out

vars == <<caller, window, path, tmp, taken, carried>>
-------------------------------------------------------------------------------
(***************************************************************************)
(* Files.  One is its number, the call it is about, for an answer whether  *)
(* the window did it, whether it is completely written and who is writing  *)
(* it.  An absent file has number 0, as one that cannot be parsed counts.  *)
(***************************************************************************)
FileNames == {"command", "result"}
Seqs == Nat

NoFile == [seq |-> 0, call |-> Nobody, ok |-> FALSE, whole |-> TRUE, by |-> Nobody]
Written(seq, call, ok, by) ==
    [seq |-> seq, call |-> call, ok |-> ok, whole |-> FALSE, by |-> by]

\* load_command_or_default, load_result_or_default: what a reader may make of a
\* file.
load_or_default(file) ==
    {IF file.whole THEN file ELSE NoFile} \cup (IF "read" \in Faults THEN {NoFile} ELSE {})

\* save_atomic, one call on the file system at a time.  A writer that lost its
\* temporary file to another one still writes into what became of it.
keep_tmp(f) == UNCHANGED <<tmp, path>>    \* mutant: a leftover stays
remove_tmp(f) == tmp' = [tmp EXCEPT ![f] = NoFile] /\ UNCHANGED path

create_new(f, file) ==
    tmp[f] = NoFile /\ tmp' = [tmp EXCEPT ![f] = file] /\ UNCHANGED path

closed(file, by) ==
    IF file.by = by THEN [file EXCEPT !.whole = TRUE, !.by = Nobody] ELSE file

write_all(f, by) ==
    /\ tmp' = [tmp EXCEPT ![f] = closed(@, by)]
    /\ path' = [path EXCEPT ![f] = closed(@, by)]

rename(f) ==
    /\ tmp[f] # NoFile
    /\ path' = [path EXCEPT ![f] = tmp[f]]
    /\ tmp' = [tmp EXCEPT ![f] = NoFile]

\* A save of f may end in an error where it stands: the temporary file exists,
\* or is gone, or the file system refuses.  Failing to rename removes it.
save_fails(f, at) ==
    \/ at = "create" /\ tmp[f] # NoFile /\ UNCHANGED <<tmp, path>>
    \/ at \in {"create", "write"} /\ "write" \in Faults /\ UNCHANGED <<tmp, path>>
    \/ at = "rename" /\ (tmp[f] = NoFile \/ "rename" \in Faults) /\ remove_tmp(f)

Saving == {"remove", "create", "write", "rename"}

\* The step of a save at "at", and where the writer stands after it.
save_step(f, at, file, next) ==
    \/ at = "remove" /\ remove_tmp(f) /\ next = "create"
    \/ at = "create" /\ create_new(f, file) /\ next = "write"
    \/ at = "write" /\ write_all(f, file.by) /\ next = "rename"
    \/ at = "rename" /\ rename(f) /\ next = "saved"
-------------------------------------------------------------------------------
Off == [ up |-> FALSE, starts |-> 0, last_acted |-> 0, attached |-> FALSE,
         watcher |-> Nobody, jobs |-> [c \in Calls |-> "none"],
         seq |-> [c \in Calls |-> 0], ok |-> [c \in Calls |-> FALSE] ]

Init ==
    /\ caller = [c \in Calls |-> [at |-> "unsent", seen |-> 0, seq |-> 0]]
    /\ window = [w \in Windows |-> Off]
    /\ path = [f \in FileNames |-> NoFile]
    /\ tmp = [f \in FileNames |-> NoFile]
    /\ taken = {}
    /\ carried = {}

Outcomes == {"ok", "refused", "no_response", "config", "killed"}
ended(c) == caller[c].at \in Outcomes
-------------------------------------------------------------------------------
(***************************************************************************)
(* send_ui_command_within.                                                 *)
(***************************************************************************)
Advance(c, at) == caller' = [caller EXCEPT ![c].at = at]

read_command(c) ==
    /\ caller[c].at = "unsent"
    /\ \A d \in After[c] : ended(d)
    /\ \E file \in load_or_default(path["command"]) :
           caller' = [caller EXCEPT ![c].at = "number", ![c].seen = file.seq]
    /\ UNCHANGED <<window, path, tmp, taken, carried>>

next_seq(command_seq, result_seq) == Max({command_seq, result_seq}) + 1

number(c) ==
    /\ caller[c].at = "number"
    /\ \E file \in load_or_default(path["result"]) :
           caller' = [caller EXCEPT ![c].at = "remove", ![c].seen = 0,
                                    ![c].seq = next_seq(caller[c].seen, file.seq)]
    /\ UNCHANGED <<window, path, tmp, taken, carried>>

save_command(c) ==
    /\ caller[c].at \in Saving
    /\ \/ \E next \in Saving \cup {"saved"} :
             /\ save_step("command", caller[c].at, Written(caller[c].seq, c, FALSE, c), next)
             /\ Advance(c, IF next = "saved" THEN "waiting" ELSE next)
       \/ save_fails("command", caller[c].at) /\ Advance(c, "config")
    /\ UNCHANGED <<window, taken, carried>>

answers_any(file, seq) == file.seq # 0    \* mutant: any answer will do
answers(file, seq) == file.seq = seq

poll(c) ==
    /\ caller[c].at = "waiting"
    /\ \E file \in load_or_default(path["result"]) :
           /\ answers(file, caller[c].seq)
           /\ Advance(c, IF file.ok THEN "ok" ELSE "refused")
    /\ UNCHANGED <<window, path, tmp, taken, carried>>

\* Mutant: only an answer ends the wait.
give_up_on_answer(c) ==
    /\ caller[c].at = "waiting"
    /\ path["result"].seq > caller[c].seq
    /\ Advance(c, "no_response")
    /\ UNCHANGED <<window, path, tmp, taken, carried>>

\* The deadline is looked at after a poll that found nothing.
give_up(c) ==
    /\ caller[c].at = "waiting"
    /\ \E file \in load_or_default(path["result"]) : ~answers(file, caller[c].seq)
    /\ Advance(c, "no_response")
    /\ UNCHANGED <<window, path, tmp, taken, carried>>

\* A file whose writer is gone stays as it is.
orphaned(file, writers) ==
    IF file.by \in writers THEN [file EXCEPT !.by = Nobody] ELSE file

orphan(writers) ==
    /\ path' = [f \in FileNames |-> orphaned(path[f], writers)]
    /\ tmp' = [f \in FileNames |-> orphaned(tmp[f], writers)]

kill(c) ==
    /\ "kill" \in Faults
    /\ caller[c].at # "unsent" /\ ~ended(c)
    /\ Advance(c, "killed")
    /\ orphan({c})
    /\ UNCHANGED <<window, taken, carried>>
-------------------------------------------------------------------------------
(***************************************************************************)
(* The window: watch_ui_command on its thread, and the page.               *)
(***************************************************************************)
handled_nothing(file) == 0    \* mutant
already_handled_at_startup(file) == file.seq

start(w) ==
    /\ ~window[w].up
    /\ window[w].starts < Sessions
    /\ \E file \in load_or_default(path["command"]) :
           window' = [window EXCEPT ![w] =
                         [Off EXCEPT !.up = TRUE, !.starts = window[w].starts + 1,
                                     !.last_acted = already_handled_at_startup(file)]]
    /\ UNCHANGED <<caller, path, tmp, taken, carried>>

\* The page is loaded and listens.
attach(w) ==
    /\ window[w].up
    /\ ~window[w].attached
    /\ window' = [window EXCEPT ![w].attached = TRUE]
    /\ UNCHANGED <<caller, path, tmp, taken, carried>>

pending_next(file, last_acted) == file.seq = last_acted + 1    \* mutant
pending_command(file, last_acted) == file.seq > last_acted

\* What the watcher's tick makes of the command it found: an event the page
\* takes, one nobody listens to, or, if it cannot be sent, an answer of its own.
handed(w, file, at, by_watcher) ==
    window' = [window EXCEPT ![w].last_acted = file.seq,
                             ![w].watcher = IF by_watcher THEN file.call ELSE Nobody,
                             ![w].jobs[file.call] = at,
                             ![w].seq[file.call] = file.seq,
                             ![w].ok[file.call] = FALSE]

watch_ui_command(w) ==
    /\ window[w].up
    /\ window[w].watcher = Nobody
    /\ \E file \in load_or_default(path["command"]) :
         /\ pending_command(file, window[w].last_acted)
         /\ \/ /\ window[w].attached
               /\ handed(w, file, "running", FALSE)
               /\ taken' = taken \cup {<<w, file.call>>}
            \/ /\ ~window[w].attached
               /\ handed(w, file, "none", FALSE)
               /\ UNCHANGED taken
            \/ /\ "emit" \in Faults
               /\ handed(w, file, "remove", TRUE)
               /\ UNCHANGED taken
    /\ UNCHANGED <<caller, path, tmp, carried>>

\* Mutant: answered on receipt.
dispatch_on_receipt(w, c) ==
    /\ window[w].jobs[c] = "running"
    /\ window' = [window EXCEPT ![w].jobs[c] = "remove", ![w].ok[c] = TRUE]
    /\ UNCHANGED <<caller, path, tmp, taken, carried>>

\* The handler of the verb did the work, or threw; only then is it reported.
dispatch(w, c) ==
    /\ window[w].jobs[c] = "running"
    /\ \/ /\ window' = [window EXCEPT ![w].jobs[c] = "remove", ![w].ok[c] = TRUE]
          /\ carried' = carried \cup {c}
       \/ /\ window' = [window EXCEPT ![w].jobs[c] = "remove"]
          /\ UNCHANGED carried
    /\ UNCHANGED <<caller, path, tmp, taken>>

\* report_ui_command_result, or the watcher's own answer.  An error has nobody
\* to be told to.
Report(w, c, at) ==
    window' = [window EXCEPT ![w].jobs[c] = at,
                             ![w].watcher = IF @ = c /\ at = "none" THEN Nobody ELSE @]

report(w, c) ==
    LET job == window[w].jobs[c]
        answer == Written(window[w].seq[c], c, window[w].ok[c], <<w, c>>)
    IN  /\ job \in Saving
        /\ \/ \E next \in Saving \cup {"saved"} :
                 /\ save_step("result", job, answer, next)
                 /\ Report(w, c, IF next = "saved" THEN "none" ELSE next)
           \/ save_fails("result", job) /\ Report(w, c, "none")
        /\ UNCHANGED <<caller, taken, carried>>

\* The window is closed or dies: what it was doing is gone.
stop(w) ==
    /\ window[w].up
    /\ window' = [window EXCEPT ![w] = [Off EXCEPT !.starts = window[w].starts]]
    /\ orphan({w} \X Calls)
    /\ UNCHANGED <<caller, taken, carried>>
-------------------------------------------------------------------------------
Calling(c) ==
    read_command(c) \/ number(c) \/ save_command(c) \/ poll(c) \/ give_up(c)

Answering(w) == \E c \in Calls : dispatch(w, c) \/ report(w, c)

Next ==
    \/ \E c \in Calls : Calling(c) \/ kill(c)
    \/ \E w \in Windows :
          start(w) \/ attach(w) \/ watch_ui_command(w) \/ Answering(w) \/ stop(w)

Spec == Init /\ [][Next]_vars

\* A call and a watcher are loops over a clock; a page that listens is told,
\* and what it was told to do it does.
LiveSpec ==
    /\ Spec
    /\ \A c \in Calls : WF_vars(Calling(c))
    /\ \A w \in Windows : WF_vars(watch_ui_command(w)) /\ WF_vars(Answering(w))
-------------------------------------------------------------------------------
Files == [seq : Seqs, call : Calls \cup {Nobody}, ok : BOOLEAN, whole : BOOLEAN,
          by : Calls \cup (Windows \X Calls) \cup {Nobody}]

\* "A result that names an earlier command is not this command's result": an
\* agent told that the window obeyed was obeyed.
SuccessIsMine == \A c \in Calls : caller[c].at = "ok" => c \in carried

\* With one window the answer is true both ways: an agent told that the window
\* refused knows that its command was not carried out.
AnswerIsTrue ==
    SuccessIsMine /\ \A c \in Calls : caller[c].at = "refused" => c \notin carried

\* A command already handed to a window's page is never handed to it again, by
\* a later tick or by a window that starts over what it finds on disk.
ObeyedOnce ==
    [][\A w \in Windows, c \in Calls :
          window[w].jobs[c] # "running" /\ window'[w].jobs[c] = "running"
             => <<w, c>> \notin taken]_vars

\* A command in the file of a window that is up is acted on, unless another one
\* replaces it or the window goes.
CommandsNoticed ==
    \A w \in Windows, c \in Calls :
        (window[w].up /\ path["command"].call = c /\ path["command"].whole)
           ~> \/ ~window[w].up
              \/ path["command"].call # c
              \/ window[w].last_acted >= path["command"].seq

\* Nothing a dead process left behind keeps a later call from sending.
LeftoversHarmless == \A c \in Calls : caller[c].at # "config"

\* An agent is never left waiting: every call that is made ends.
EveryCallEnds == \A c \in Calls : caller[c].at # "unsent" ~> ended(c)
===============================================================================
