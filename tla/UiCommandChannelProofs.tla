------------------------ MODULE UiCommandChannelProofs ------------------------
(***************************************************************************)
(* What an agent and the window may rely on when they talk through two     *)
(* files, whatever the number of calls, windows and restarts.              *)
(***************************************************************************)
EXTENDS UiCommandChannel, TLAPS

-------------------------------------------------------------------------------
(***************************************************************************)
(* The shape of every variable.  A file that is about no call has number   *)
(* 0, the number of an absent one.                                         *)
(***************************************************************************)
Places == {"unsent", "number", "waiting"} \cup Saving \cup Outcomes
Callers == [at : Places, seen : Seqs, seq : Seqs]
Working == {"none", "running"} \cup Saving
Desktops ==
    [ up : BOOLEAN, starts : Nat, last_acted : Seqs, attached : BOOLEAN,
      watcher : Calls \cup {Nobody}, jobs : [Calls -> Working],
      seq : [Calls -> Seqs], ok : [Calls -> BOOLEAN] ]
Numbered(file) == file.call = Nobody => file.seq = 0

TypeOK ==
    /\ caller \in [Calls -> Callers]
    /\ window \in [Windows -> Desktops]
    /\ path \in [FileNames -> Files]
    /\ tmp \in [FileNames -> Files]
    /\ \A f \in FileNames : Numbered(path[f]) /\ Numbered(tmp[f])
    /\ taken \subseteq Windows \X Calls
    /\ carried \subseteq Calls

\* Where a call and a window's job stand.
At(c) == caller[c].at
Job(w, c) == window[w].jobs[c]

\* The four files there are.
Command == path["command"]
CommandTmp == tmp["command"]
Result == path["result"]
ResultTmp == tmp["result"]

LEMMA FileTypes ==
    ASSUME TypeOK
    PROVE  /\ Command \in Files /\ CommandTmp \in Files
           /\ Result \in Files /\ ResultTmp \in Files
           /\ Numbered(Command) /\ Numbered(CommandTmp)
           /\ Numbered(Result) /\ Numbered(ResultTmp)
  BY DEF TypeOK, FileNames, Command, CommandTmp, Result, ResultTmp

LEMMA NoFileType == NoFile \in Files /\ Numbered(NoFile) /\ NoFile.call = Nobody
  BY DEF NoFile, Files, Seqs, Numbered

LEMMA WrittenType ==
    ASSUME NEW n \in Seqs, NEW c \in Calls, NEW ok \in BOOLEAN,
           NEW by \in Calls \cup (Windows \X Calls)
    PROVE  Written(n, c, ok, by) \in Files /\ Numbered(Written(n, c, ok, by))
  BY WriterAssumption DEF Written, Files, Numbered

-------------------------------------------------------------------------------
(***************************************************************************)
(* What is left of a file when its writer closes it, or dies: all it says. *)
(***************************************************************************)
SameFile(new, old) ==
    /\ new.seq = old.seq /\ new.call = old.call /\ new.ok = old.ok
    /\ old.whole => new.whole

LEMMA ClosedKeeps ==
    ASSUME NEW file \in Files, NEW by
    PROVE  /\ closed(file, by) \in Files /\ SameFile(closed(file, by), file)
           /\ file.by = by => closed(file, by).whole
  BY DEF closed, Files, SameFile

LEMMA OrphanedKeeps ==
    ASSUME NEW file \in Files, NEW writers
    PROVE  /\ orphaned(file, writers) \in Files /\ SameFile(orphaned(file, writers), file)
           /\ file.by \notin writers => orphaned(file, writers) = file
  BY DEF orphaned, Files, SameFile

LEMMA SameKeepsNumbered ==
    ASSUME NEW new, NEW old, SameFile(new, old), Numbered(old)
    PROVE  Numbered(new)
  BY DEF SameFile, Numbered

LEMMA SameIsSame == \A file : SameFile(file, file)
  BY DEF SameFile

\* A dead process leaves the four files as they were, but for who writes them.
LEMMA OrphanKeeps ==
    ASSUME TypeOK, NEW writers, orphan(writers)
    PROVE  /\ \A f \in FileNames : path'[f] \in Files /\ tmp'[f] \in Files
           /\ \A f \in FileNames : SameFile(path'[f], path[f]) /\ SameFile(tmp'[f], tmp[f])
           /\ \A f \in FileNames : tmp[f].by \notin writers => tmp'[f] = tmp[f]
           /\ path' \in [FileNames -> Files] /\ tmp' \in [FileNames -> Files]
           /\ \A f \in FileNames : Numbered(path'[f]) /\ Numbered(tmp'[f])
  <1>1. ASSUME NEW f \in FileNames
        PROVE  /\ path'[f] \in Files /\ SameFile(path'[f], path[f])
               /\ tmp'[f] \in Files /\ SameFile(tmp'[f], tmp[f])
               /\ tmp[f].by \notin writers => tmp'[f] = tmp[f]
    <2>1. path'[f] = orphaned(path[f], writers) /\ tmp'[f] = orphaned(tmp[f], writers)
      BY DEF orphan
    <2>2. path[f] \in Files /\ tmp[f] \in Files
      BY DEF TypeOK
    <2> QED  BY <2>1, <2>2, OrphanedKeeps
  <1>2. path' \in [FileNames -> Files] /\ tmp' \in [FileNames -> Files]
    BY <1>1 DEF orphan
  <1>3. \A f \in FileNames : Numbered(path'[f]) /\ Numbered(tmp'[f])
    BY <1>1, SameKeepsNumbered DEF TypeOK
  <1> QED  BY <1>1, <1>2, <1>3

(***************************************************************************)
(* One step of a save of f that is at "at": it ends up at "end", or fails. *)
(* The other file is left alone.                                           *)
(***************************************************************************)
FileStep(f, at, file, end) ==
    \/ /\ at = "remove" /\ end = "create"
       /\ tmp'[f] = NoFile /\ path'[f] = path[f]
    \/ /\ at = "create" /\ end = "write" /\ tmp[f] = NoFile
       /\ tmp'[f] = file /\ path'[f] = path[f]
    \/ /\ at = "write" /\ end = "rename"
       /\ tmp'[f] = closed(tmp[f], file.by) /\ path'[f] = closed(path[f], file.by)
    \/ /\ at = "rename" /\ end = "saved" /\ tmp[f] # NoFile
       /\ tmp'[f] = NoFile /\ path'[f] = tmp[f]
    \/ /\ at \in {"create", "write", "rename"} /\ end = "failed"
       /\ \/ at = "create" /\ tmp[f] # NoFile
          \/ at \in {"create", "write"} /\ "write" \in Faults
          \/ at = "rename" /\ (tmp[f] = NoFile \/ "rename" \in Faults)
       /\ tmp'[f] \in {tmp[f], NoFile} /\ path'[f] = path[f]

Ends == {"create", "write", "rename", "saved", "failed"}

LEMMA SaveSteps ==
    ASSUME TypeOK, NEW f \in FileNames, NEW at \in Saving, NEW file,
           NEW next, save_step(f, at, file, next)
    PROVE  /\ FileStep(f, at, file, next) /\ next \in Ends /\ next # "failed"
           /\ \A g \in FileNames \ {f} : path'[g] = path[g] /\ tmp'[g] = tmp[g]
           /\ DOMAIN path' = FileNames /\ DOMAIN tmp' = FileNames
           /\ path' = [g \in FileNames |-> path'[g]] /\ tmp' = [g \in FileNames |-> tmp'[g]]
  BY DEF TypeOK, save_step, FileStep, remove_tmp, create_new, write_all, rename, Ends, Saving

LEMMA SaveFailures ==
    ASSUME TypeOK, NEW f \in FileNames, NEW at \in Saving, NEW file, save_fails(f, at)
    PROVE  /\ FileStep(f, at, file, "failed")
           /\ \A g \in FileNames \ {f} : path'[g] = path[g] /\ tmp'[g] = tmp[g]
           /\ DOMAIN path' = FileNames /\ DOMAIN tmp' = FileNames
           /\ path' = [g \in FileNames |-> path'[g]] /\ tmp' = [g \in FileNames |-> tmp'[g]]
  BY DEF TypeOK, save_fails, FileStep, remove_tmp, Saving

\* The two files keep their types.
LEMMA FileStepType ==
    ASSUME TypeOK, NEW f \in FileNames, NEW at, NEW file \in Files, NEW end,
           Numbered(file), FileStep(f, at, file, end)
    PROVE  /\ path'[f] \in Files /\ Numbered(path'[f])
           /\ tmp'[f] \in Files /\ Numbered(tmp'[f])
  <1>1. path[f] \in Files /\ tmp[f] \in Files /\ Numbered(path[f]) /\ Numbered(tmp[f])
    BY DEF TypeOK
  <1>2. CASE tmp'[f] = closed(tmp[f], file.by) /\ path'[f] = closed(path[f], file.by)
    BY <1>1, <1>2, ClosedKeeps, SameKeepsNumbered
  <1>3. CASE tmp'[f] \in {tmp[f], NoFile, file} /\ path'[f] \in {path[f], tmp[f]}
    BY <1>1, <1>3, NoFileType
  <1> QED  BY <1>2, <1>3 DEF FileStep

-------------------------------------------------------------------------------
(***************************************************************************)
(* What each step does to the calls and to the windows.                    *)
(***************************************************************************)
OnlyMoves(c, at) ==
    /\ \A d \in Calls : /\ caller'[d].seq = caller[d].seq /\ caller'[d].seen = caller[d].seen
                        /\ d # c => caller'[d].at = caller[d].at
    /\ caller'[c].at = at

LEMMA AdvanceMoves ==
    ASSUME TypeOK, NEW c \in Calls, NEW at \in Places, Advance(c, at)
    PROVE  OnlyMoves(c, at) /\ caller' \in [Calls -> Callers]
  BY DEF TypeOK, Advance, OnlyMoves, Callers

\* Where a save's step leaves its writer: a caller, and a window's answer.
Landing(end) ==
    IF end = "saved" THEN "waiting" ELSE IF end = "failed" THEN "config" ELSE end
Reported(end) == IF end \in {"saved", "failed"} THEN "none" ELSE end

LEMMA Landings ==
    /\ \A end \in Ends : Landing(end) \in Places /\ Reported(end) \in Working
    /\ \A end \in Ends : Landing(end) # "unsent" /\ Reported(end) # "running"
  BY DEF Ends, Landing, Reported, Places, Working, Saving, Outcomes

OwnFile(c) == Written(caller[c].seq, c, FALSE, c)
Answer(w, c) == Written(window[w].seq[c], c, window[w].ok[c], <<w, c>>)

LEMMA FilesToWrite ==
    ASSUME TypeOK
    PROVE  /\ \A c \in Calls : OwnFile(c) \in Files /\ Numbered(OwnFile(c))
           /\ \A w \in Windows, c \in Calls : Answer(w, c) \in Files /\ Numbered(Answer(w, c))
  <1>1. ASSUME NEW c \in Calls PROVE OwnFile(c) \in Files /\ Numbered(OwnFile(c))
    <2>1. caller[c].seq \in Seqs
      BY DEF TypeOK, Callers
    <2> QED  BY <2>1, WrittenType DEF OwnFile
  <1>2. ASSUME NEW w \in Windows, NEW c \in Calls
        PROVE  Answer(w, c) \in Files /\ Numbered(Answer(w, c))
    <2>1. window[w].seq[c] \in Seqs /\ window[w].ok[c] \in BOOLEAN
      BY DEF TypeOK, Desktops
    <2>2. <<w, c>> \in Windows \X Calls
      OBVIOUS
    <2> QED  BY <2>1, <2>2, WrittenType DEF Answer
  <1> QED  BY <1>1, <1>2

LEMMA SavingACommand ==
    ASSUME TypeOK, NEW c \in Calls, save_command(c)
    PROVE  \E end \in Ends :
              /\ FileStep("command", At(c), OwnFile(c), end)
              /\ At(c) \in Saving /\ OnlyMoves(c, Landing(end))
              /\ Result' = Result /\ ResultTmp' = ResultTmp
              /\ UNCHANGED <<window, taken, carried>>
              /\ caller' \in [Calls -> Callers]
              /\ path' = [g \in FileNames |-> path'[g]]
              /\ tmp' = [g \in FileNames |-> tmp'[g]]
  <1>0. At(c) \in Saving /\ "command" \in FileNames /\ "result" \in FileNames \ {"command"}
    BY DEF save_command, At, FileNames
  <1>1. CASE save_fails("command", At(c)) /\ Advance(c, "config")
    <2>1. FileStep("command", At(c), OwnFile(c), "failed")
      BY <1>0, <1>1, SaveFailures
    <2>2. OnlyMoves(c, "config") /\ caller' \in [Calls -> Callers]
      BY <1>1, AdvanceMoves DEF Places, Outcomes
    <2>3. path'["result"] = path["result"] /\ tmp'["result"] = tmp["result"]
      BY <1>0, <1>1, SaveFailures
    <2>4. /\ path' = [g \in FileNames |-> path'[g]]
          /\ tmp' = [g \in FileNames |-> tmp'[g]]
      BY <1>0, <1>1, SaveFailures
    <2>5. "failed" \in Ends /\ Landing("failed") = "config"
      BY DEF Ends, Landing
    <2> QED  BY <1>0, <2>1, <2>2, <2>3, <2>4, <2>5 DEF save_command, Result, ResultTmp
  <1>2. CASE \E next \in Saving \cup {"saved"} :
                /\ save_step("command", At(c), OwnFile(c), next)
                /\ Advance(c, IF next = "saved" THEN "waiting" ELSE next)
    <2>0. PICK next : /\ save_step("command", At(c), OwnFile(c), next)
                      /\ Advance(c, IF next = "saved" THEN "waiting" ELSE next)
      BY <1>2
    <2>1. FileStep("command", At(c), OwnFile(c), next) /\ next \in Ends /\ next # "failed"
      BY <1>0, <2>0, SaveSteps
    <2>2. OnlyMoves(c, Landing(next)) /\ caller' \in [Calls -> Callers]
      <3>1. Landing(next) = IF next = "saved" THEN "waiting" ELSE next
        BY <2>1 DEF Landing
      <3>2. Landing(next) \in Places
        BY <2>1, Landings
      <3> QED  BY <2>0, <3>1, <3>2, AdvanceMoves
    <2>3. path'["result"] = path["result"] /\ tmp'["result"] = tmp["result"]
      BY <1>0, <2>0, SaveSteps
    <2>4. /\ path' = [g \in FileNames |-> path'[g]]
          /\ tmp' = [g \in FileNames |-> tmp'[g]]
      BY <1>0, <2>0, SaveSteps
    <2> QED  BY <1>0, <2>1, <2>2, <2>3, <2>4 DEF save_command, Result, ResultTmp
  <1> QED  BY <1>1, <1>2 DEF save_command, At, OwnFile

\* A step of an answer's save changes one job of one window, and nothing the
\* window knows.
OnlyReports(w, c, at) ==
    /\ \A v \in Windows, d \in Calls :
          /\ window'[v].seq[d] = window[v].seq[d] /\ window'[v].ok[d] = window[v].ok[d]
          /\ v # w \/ d # c => window'[v].jobs[d] = window[v].jobs[d]
    /\ window'[w].jobs[c] = at
    /\ \A v \in Windows :
          window'[v].up = window[v].up /\ window'[v].last_acted = window[v].last_acted

LEMMA ReportMoves ==
    ASSUME TypeOK, NEW w \in Windows, NEW c \in Calls, NEW at \in Working, Report(w, c, at)
    PROVE  OnlyReports(w, c, at) /\ window' \in [Windows -> Desktops]
  <1>1. window[w] \in Desktops
    BY DEF TypeOK
  <1> DEFINE jobs == [window[w].jobs EXCEPT ![c] = at]
             watcher == IF window[w].watcher = c /\ at = "none" THEN Nobody
                        ELSE window[w].watcher
             new == [window[w] EXCEPT !.jobs = jobs, !.watcher = watcher]
  <1>2. window' = [window EXCEPT ![w] = new]
    BY <1>1 DEF Report, TypeOK, Desktops
  <1>3. jobs \in [Calls -> Working] /\ watcher \in Calls \cup {Nobody}
    BY <1>1 DEF Desktops
  <1> HIDE DEF jobs, watcher
  <1>4. /\ new \in Desktops /\ new.jobs = jobs
        /\ new.seq = window[w].seq /\ new.ok = window[w].ok
        /\ new.up = window[w].up /\ new.last_acted = window[w].last_acted
    BY <1>1, <1>3 DEF Desktops
  <1> HIDE DEF new
  <1>5. window' \in [Windows -> Desktops] /\ window'[w] = new
    BY <1>2, <1>4 DEF TypeOK
  <1>6. \A v \in Windows \ {w} : window'[v] = window[v]
    BY <1>2 DEF TypeOK
  <1>7. jobs[c] = at /\ \A d \in Calls \ {c} : jobs[d] = window[w].jobs[d]
    BY <1>1 DEF Desktops, jobs
  <1> QED  BY <1>5, <1>6, <1>4, <1>7 DEF OnlyReports

LEMMA Reporting ==
    ASSUME TypeOK, NEW w \in Windows, NEW c \in Calls, report(w, c)
    PROVE  \E end \in Ends :
              /\ FileStep("result", Job(w, c), Answer(w, c), end)
              /\ Job(w, c) \in Saving /\ OnlyReports(w, c, Reported(end))
              /\ Command' = Command /\ CommandTmp' = CommandTmp
              /\ UNCHANGED <<caller, taken, carried>>
              /\ window' \in [Windows -> Desktops]
              /\ path' = [g \in FileNames |-> path'[g]]
              /\ tmp' = [g \in FileNames |-> tmp'[g]]
  <1>0. Job(w, c) \in Saving /\ "result" \in FileNames /\ "command" \in FileNames \ {"result"}
    BY DEF report, Job, FileNames
  <1>1. CASE save_fails("result", Job(w, c)) /\ Report(w, c, "none")
    <2>1. FileStep("result", Job(w, c), Answer(w, c), "failed")
      BY <1>0, <1>1, SaveFailures
    <2>2. OnlyReports(w, c, "none") /\ window' \in [Windows -> Desktops]
      BY <1>1, ReportMoves DEF Working
    <2>3. path'["command"] = path["command"] /\ tmp'["command"] = tmp["command"]
      BY <1>0, <1>1, SaveFailures
    <2>4. /\ path' = [g \in FileNames |-> path'[g]]
          /\ tmp' = [g \in FileNames |-> tmp'[g]]
      BY <1>0, <1>1, SaveFailures
    <2>5. "failed" \in Ends /\ Reported("failed") = "none"
      BY DEF Ends, Reported
    <2> QED  BY <1>0, <2>1, <2>2, <2>3, <2>4, <2>5 DEF report, Command, CommandTmp
  <1>2. CASE \E next \in Saving \cup {"saved"} :
                /\ save_step("result", Job(w, c), Answer(w, c), next)
                /\ Report(w, c, IF next = "saved" THEN "none" ELSE next)
    <2>0. PICK next : /\ save_step("result", Job(w, c), Answer(w, c), next)
                      /\ Report(w, c, IF next = "saved" THEN "none" ELSE next)
      BY <1>2
    <2>1. FileStep("result", Job(w, c), Answer(w, c), next) /\ next \in Ends /\ next # "failed"
      BY <1>0, <2>0, SaveSteps
    <2>2. OnlyReports(w, c, Reported(next)) /\ window' \in [Windows -> Desktops]
      <3>1. Reported(next) = IF next = "saved" THEN "none" ELSE next
        BY <2>1 DEF Reported
      <3>2. Reported(next) \in Working
        BY <2>1, Landings
      <3> QED  BY <2>0, <3>1, <3>2, ReportMoves
    <2>3. path'["command"] = path["command"] /\ tmp'["command"] = tmp["command"]
      BY <1>0, <2>0, SaveSteps
    <2>4. /\ path' = [g \in FileNames |-> path'[g]]
          /\ tmp' = [g \in FileNames |-> tmp'[g]]
      BY <1>0, <2>0, SaveSteps
    <2> QED  BY <1>0, <2>1, <2>2, <2>3, <2>4 DEF report, Command, CommandTmp
  <1> QED  BY <1>1, <1>2 DEF report, Job, Answer

\* What a reader makes of a file: what it says, or the number 0 of no file.
LEMMA Loaded ==
    ASSUME NEW file, NEW read \in load_or_default(file)
    PROVE  /\ read \in {file, NoFile}
           /\ read # NoFile => file.whole
           /\ "read" \notin Faults /\ file.whole => read = file
  BY DEF load_or_default

\* One window changes.
Becomes(w, new) ==
    /\ window'[w] = new
    /\ \A v \in Windows \ {w} : window'[v] = window[v]

LEMMA WindowChanges ==
    ASSUME TypeOK, NEW w \in Windows, NEW new \in Desktops, window' = [window EXCEPT ![w] = new]
    PROVE  Becomes(w, new) /\ window' \in [Windows -> Desktops]
  BY DEF TypeOK, Becomes

LEMMA OffType == Off \in Desktops /\ ~Off.up /\ \A c \in Calls : Off.jobs[c] = "none"
  <1>1. [c \in Calls |-> "none"] \in [Calls -> Working]
    BY DEF Working
  <1>2. [c \in Calls |-> 0] \in [Calls -> Seqs]
    BY DEF Seqs
  <1>3. [c \in Calls |-> FALSE] \in [Calls -> BOOLEAN]
    OBVIOUS
  <1> QED  BY <1>1, <1>2, <1>3 DEF Off, Desktops, Seqs

LEMMA Starting ==
    ASSUME TypeOK, NEW w \in Windows, start(w)
    PROVE  /\ ~window[w].up
           /\ \E file \in load_or_default(Command) : window'[w].last_acted = file.seq
           /\ window'[w].up /\ \A c \in Calls : window'[w].jobs[c] = "none"
           /\ \A v \in Windows \ {w} : window'[v] = window[v]
           /\ window' \in [Windows -> Desktops]
  <1>1. PICK file \in load_or_default(Command) :
          window' = [window EXCEPT ![w] =
                       [Off EXCEPT !.up = TRUE, !.starts = window[w].starts + 1,
                                   !.last_acted = file.seq]]
    BY DEF start, already_handled_at_startup, Command
  <1> DEFINE new == [Off EXCEPT !.up = TRUE, !.starts = window[w].starts + 1,
                                !.last_acted = file.seq]
  <1>2. file.seq \in Seqs
    BY Loaded, FileTypes, NoFileType DEF Files
  <1>3. window[w].starts + 1 \in Nat
    BY DEF TypeOK, Desktops
  <1>4. /\ new \in Desktops /\ new.up /\ new.jobs = Off.jobs
        /\ new.last_acted = file.seq
    BY <1>2, <1>3, OffType DEF Desktops
  <1> HIDE DEF new
  <1>5. Becomes(w, new) /\ window' \in [Windows -> Desktops]
    BY <1>1, <1>4, WindowChanges DEF new
  <1> QED  BY <1>4, <1>5, OffType DEF start, Becomes

LEMMA Stopping ==
    ASSUME TypeOK, NEW w \in Windows, stop(w)
    PROVE  /\ ~window'[w].up /\ \A c \in Calls : window'[w].jobs[c] = "none"
           /\ \A v \in Windows \ {w} : window'[v] = window[v]
           /\ window' \in [Windows -> Desktops]
  <1> DEFINE new == [Off EXCEPT !.starts = window[w].starts]
  <1>1. window[w].starts \in Nat
    BY DEF TypeOK, Desktops
  <1>2. new \in Desktops /\ ~new.up /\ new.jobs = Off.jobs
    BY <1>1, OffType DEF Desktops
  <1>3. window' = [window EXCEPT ![w] = new]
    BY DEF stop
  <1> HIDE DEF new
  <1>4. Becomes(w, new) /\ window' \in [Windows -> Desktops]
    BY <1>2, <1>3, WindowChanges
  <1> QED  BY <1>2, <1>4, OffType DEF Becomes

\* Nothing a call could notice.
LEMMA Attaching ==
    ASSUME TypeOK, NEW w \in Windows, attach(w)
    PROVE  /\ \A v \in Windows : /\ window'[v].up = window[v].up
                                 /\ window'[v].last_acted = window[v].last_acted
                                 /\ window'[v].jobs = window[v].jobs
                                 /\ window'[v].seq = window[v].seq
                                 /\ window'[v].ok = window[v].ok
           /\ window' \in [Windows -> Desktops]
  <1> DEFINE new == [window[w] EXCEPT !.attached = TRUE]
  <1>1. /\ new \in Desktops /\ new.up = window[w].up /\ new.last_acted = window[w].last_acted
        /\ new.jobs = window[w].jobs /\ new.seq = window[w].seq /\ new.ok = window[w].ok
    BY DEF TypeOK, Desktops
  <1>2. window' = [window EXCEPT ![w] = new]
    BY DEF attach
  <1> HIDE DEF new
  <1>3. Becomes(w, new) /\ window' \in [Windows -> Desktops]
    BY <1>1, <1>2, WindowChanges
  <1> QED  BY <1>1, <1>3 DEF Becomes

\* The watcher acts on the command in the file, and only if it is newer than
\* all it acted on.
Hands(w, x, at) ==
    /\ window'[w].up /\ window'[w].last_acted = Command.seq
    /\ window'[w].jobs[x] = at /\ window'[w].seq[x] = Command.seq /\ ~window'[w].ok[x]
    /\ \A d \in Calls \ {x} : /\ window'[w].jobs[d] = window[w].jobs[d]
                              /\ window'[w].seq[d] = window[w].seq[d]
                              /\ window'[w].ok[d] = window[w].ok[d]
    /\ \A v \in Windows \ {w} : window'[v] = window[v]

LEMMA Watching ==
    ASSUME TypeOK, NEW w \in Windows, watch_ui_command(w)
    PROVE  /\ window[w].up /\ Command.whole /\ Command.call \in Calls
           /\ Command.seq > window[w].last_acted
           /\ \/ Hands(w, Command.call, "running") /\ taken' = taken \cup {<<w, Command.call>>}
              \/ Hands(w, Command.call, "none") /\ taken' = taken
              \/ Hands(w, Command.call, "remove") /\ taken' = taken
           /\ window' \in [Windows -> Desktops]
  <1>1. PICK file \in load_or_default(Command) :
          /\ pending_command(file, window[w].last_acted)
          /\ \/ handed(w, file, "running", FALSE) /\ taken' = taken \cup {<<w, file.call>>}
             \/ handed(w, file, "none", FALSE) /\ taken' = taken
             \/ handed(w, file, "remove", TRUE) /\ taken' = taken
    BY DEF watch_ui_command, Command
  <1>2. window[w] \in Desktops /\ window[w].last_acted \in Nat
    BY DEF TypeOK, Desktops, Seqs
  <1>3. file = Command /\ Command.whole /\ Command.seq \in Nat /\ Command.seq > window[w].last_acted
    <2>1. file.seq > window[w].last_acted
      BY <1>1 DEF pending_command
    <2>2. file # NoFile
      BY <1>2, <2>1 DEF NoFile
    <2>3. Command.seq \in Nat
      BY FileTypes DEF Files, Seqs
    <2> QED  BY <2>1, <2>2, <2>3, Loaded
  <1>4. Command.call \in Calls
    <2>1. Command.seq # 0
      BY <1>2, <1>3
    <2> QED  BY <2>1, FileTypes DEF Files, Numbered
  <1>5. ASSUME NEW at \in {"running", "none", "remove"}, NEW b \in BOOLEAN,
               handed(w, Command, at, b)
        PROVE  Hands(w, Command.call, at) /\ window' \in [Windows -> Desktops]
    <2> DEFINE x == Command.call
               jobs == [window[w].jobs EXCEPT ![x] = at]
               seq == [window[w].seq EXCEPT ![x] = Command.seq]
               ok == [window[w].ok EXCEPT ![x] = FALSE]
               watcher == IF b THEN x ELSE Nobody
               new == [window[w] EXCEPT !.last_acted = Command.seq, !.watcher = watcher,
                                        !.jobs = jobs, !.seq = seq, !.ok = ok]
    <2>1. window' = [window EXCEPT ![w] = new]
      BY <1>2, <1>5 DEF handed, TypeOK, Desktops
    <2>2. /\ jobs \in [Calls -> Working] /\ seq \in [Calls -> Seqs] /\ ok \in [Calls -> BOOLEAN]
          /\ watcher \in Calls \cup {Nobody}
      BY <1>2, <1>3, <1>4 DEF Desktops, Working, Saving, Seqs
    <2>3. /\ jobs[x] = at /\ seq[x] = Command.seq /\ ~ok[x]
          /\ \A d \in Calls \ {x} : /\ jobs[d] = window[w].jobs[d]
                                    /\ seq[d] = window[w].seq[d] /\ ok[d] = window[w].ok[d]
      BY <1>2, <1>4 DEF Desktops
    <2> HIDE DEF jobs, seq, ok, watcher
    <2>4. /\ new \in Desktops /\ new.up = window[w].up /\ new.last_acted = Command.seq
          /\ new.jobs = jobs /\ new.seq = seq /\ new.ok = ok
      BY <1>2, <1>3, <2>2 DEF Desktops, Seqs
    <2> HIDE DEF new
    <2>5. Becomes(w, new) /\ window' \in [Windows -> Desktops]
      BY <2>1, <2>4, WindowChanges
    <2>6. window[w].up
      BY DEF watch_ui_command
    <2> QED  BY <2>3, <2>4, <2>5, <2>6 DEF Hands, Becomes
  <1>6. window[w].up
    BY DEF watch_ui_command
  <1> QED  BY <1>1, <1>3, <1>4, <1>5, <1>6

\* A handler is done with its work, or threw.
LEMMA Dispatching ==
    ASSUME TypeOK, NEW w \in Windows, NEW c \in Calls, dispatch(w, c)
    PROVE  /\ Job(w, c) = "running" /\ window'[w].jobs[c] = "remove"
           /\ \/ window'[w].ok[c] /\ carried' = carried \cup {c}
              \/ window'[w].ok[c] = window[w].ok[c] /\ carried' = carried
           /\ \A v \in Windows, d \in Calls :
                 /\ window'[v].seq[d] = window[v].seq[d]
                 /\ v # w \/ d # c => /\ window'[v].jobs[d] = window[v].jobs[d]
                                      /\ window'[v].ok[d] = window[v].ok[d]
           /\ \A v \in Windows :
                 window'[v].up = window[v].up /\ window'[v].last_acted = window[v].last_acted
           /\ window' \in [Windows -> Desktops]
  <1>1. window[w] \in Desktops /\ Job(w, c) = "running"
    BY DEF TypeOK, dispatch, Job
  <1>2. \E b \in BOOLEAN :
           /\ window' = [window EXCEPT ![w] =
                           [window[w] EXCEPT !.jobs = [window[w].jobs EXCEPT ![c] = "remove"],
                                             !.ok = [window[w].ok EXCEPT ![c] = b]]]
           /\ \/ b /\ carried' = carried \cup {c}
              \/ b = window[w].ok[c] /\ carried' = carried
    <2>1. CASE /\ window' = [window EXCEPT ![w].jobs[c] = "remove", ![w].ok[c] = TRUE]
               /\ carried' = carried \cup {c}
      BY <1>1, <2>1 DEF TypeOK, Desktops
    <2>2. CASE /\ window' = [window EXCEPT ![w].jobs[c] = "remove"]
               /\ carried' = carried
      <3>1. window[w].ok[c] \in BOOLEAN
        BY <1>1 DEF Desktops
      <3>2. [window[w].ok EXCEPT ![c] = window[w].ok[c]] = window[w].ok
        BY <1>1 DEF Desktops
      <3>3. [window[w] EXCEPT !.jobs = [window[w].jobs EXCEPT ![c] = "remove"], !.ok = window[w].ok]
              = [window[w] EXCEPT !.jobs = [window[w].jobs EXCEPT ![c] = "remove"]]
        BY <1>1 DEF Desktops
      <3> QED  BY <2>2, <3>1, <3>2, <3>3
    <2> QED  BY <2>1, <2>2 DEF dispatch
  <1>3. PICK b \in BOOLEAN :
           /\ window' = [window EXCEPT ![w] =
                           [window[w] EXCEPT !.jobs = [window[w].jobs EXCEPT ![c] = "remove"],
                                             !.ok = [window[w].ok EXCEPT ![c] = b]]]
           /\ \/ b /\ carried' = carried \cup {c}
              \/ b = window[w].ok[c] /\ carried' = carried
    BY <1>2
  <1> DEFINE jobs == [window[w].jobs EXCEPT ![c] = "remove"]
             ok == [window[w].ok EXCEPT ![c] = b]
             new == [window[w] EXCEPT !.jobs = jobs, !.ok = ok]
  <1>4. /\ jobs \in [Calls -> Working] /\ ok \in [Calls -> BOOLEAN]
        /\ jobs[c] = "remove" /\ ok[c] = b
        /\ \A d \in Calls \ {c} : jobs[d] = window[w].jobs[d] /\ ok[d] = window[w].ok[d]
    BY <1>1 DEF Desktops, Working, Saving
  <1>5. window' = [window EXCEPT ![w] = new]
    BY <1>3
  <1> HIDE DEF jobs, ok
  <1>6. /\ new \in Desktops /\ new.jobs = jobs /\ new.ok = ok /\ new.seq = window[w].seq
        /\ new.up = window[w].up /\ new.last_acted = window[w].last_acted
    BY <1>1, <1>4 DEF Desktops
  <1> HIDE DEF new
  <1>7. Becomes(w, new) /\ window' \in [Windows -> Desktops]
    BY <1>5, <1>6, WindowChanges
  <1>8. /\ window'[w].jobs = jobs /\ window'[w].ok = ok /\ window'[w].seq = window[w].seq
        /\ window'[w].up = window[w].up /\ window'[w].last_acted = window[w].last_acted
        /\ \A v \in Windows \ {w} : window'[v] = window[v]
    BY <1>6, <1>7 DEF Becomes
  <1>9. \/ window'[w].ok[c] /\ carried' = carried \cup {c}
        \/ window'[w].ok[c] = window[w].ok[c] /\ carried' = carried
    BY <1>3, <1>4, <1>8
  <1>10. ASSUME NEW v \in Windows, NEW d \in Calls
         PROVE  /\ window'[v].seq[d] = window[v].seq[d]
                /\ v # w \/ d # c => /\ window'[v].jobs[d] = window[v].jobs[d]
                                     /\ window'[v].ok[d] = window[v].ok[d]
                /\ window'[v].up = window[v].up /\ window'[v].last_acted = window[v].last_acted
    <2>1. CASE v = w  BY <1>4, <1>8, <2>1
    <2>2. CASE v # w  BY <1>8, <2>2
    <2> QED  BY <2>1, <2>2
  <1> QED  BY <1>1, <1>4, <1>7, <1>8, <1>9, <1>10

LEMMA MaxOfTwo ==
    ASSUME NEW a \in Nat, NEW b \in Nat
    PROVE  next_seq(a, b) \in Nat /\ next_seq(a, b) > a /\ next_seq(a, b) > b
  <1>1. \E x \in {a, b} : \A y \in {a, b} : x >= y
    <2>1. CASE a >= b  BY <2>1
    <2>2. CASE b >= a  BY <2>2
    <2> QED  BY <2>1, <2>2
  <1>2. Max({a, b}) \in {a, b} /\ \A y \in {a, b} : Max({a, b}) >= y
    BY <1>1 DEF Max
  <1> QED  BY <1>2 DEF next_seq

Elsewhere(c) == \A d \in Calls \ {c} : caller'[d] = caller[d]

LEMMA ReadingTheNumber ==
    ASSUME TypeOK, NEW c \in Calls, read_command(c)
    PROVE  /\ At(c) = "unsent" /\ \A d \in After[c] : ended(d)
           /\ caller'[c].at = "number" /\ caller'[c].seq = caller[c].seq
           /\ \E file \in load_or_default(Command) : caller'[c].seen = file.seq
           /\ Elsewhere(c) /\ caller' \in [Calls -> Callers]
  <1>1. PICK file \in load_or_default(Command) :
          caller' = [caller EXCEPT ![c] = [caller[c] EXCEPT !.at = "number", !.seen = file.seq]]
    BY DEF read_command, Command, TypeOK, Callers
  <1> DEFINE new == [caller[c] EXCEPT !.at = "number", !.seen = file.seq]
  <1>2. file.seq \in Seqs
    BY Loaded, FileTypes, NoFileType DEF Files
  <1>3. /\ new \in Callers /\ new.at = "number" /\ new.seq = caller[c].seq
        /\ new.seen = file.seq
    BY <1>2 DEF TypeOK, Callers, Places
  <1> HIDE DEF new
  <1>4. /\ caller' \in [Calls -> Callers] /\ caller'[c] = new
        /\ \A d \in Calls \ {c} : caller'[d] = caller[d]
    BY <1>1, <1>3 DEF TypeOK, new
  <1> QED  BY <1>3, <1>4 DEF read_command, At, Elsewhere

LEMMA Numbering ==
    ASSUME TypeOK, NEW c \in Calls, number(c)
    PROVE  /\ At(c) = "number" /\ caller'[c].at = "remove"
           /\ caller'[c].seq > caller[c].seen
           /\ Elsewhere(c) /\ caller' \in [Calls -> Callers]
  <1>1. PICK file \in load_or_default(Result) :
          caller' = [caller EXCEPT ![c] =
                       [caller[c] EXCEPT !.at = "remove", !.seen = 0,
                                         !.seq = next_seq(caller[c].seen, file.seq)]]
    BY DEF number, Result, TypeOK, Callers
  <1> DEFINE n == next_seq(caller[c].seen, file.seq)
             new == [caller[c] EXCEPT !.at = "remove", !.seen = 0, !.seq = n]
  <1>2. file.seq \in Nat
    BY Loaded, FileTypes, NoFileType DEF Files, Seqs
  <1>3. n \in Nat /\ n > caller[c].seen
    BY <1>2, MaxOfTwo DEF TypeOK, Callers, Seqs
  <1>4. caller' = [caller EXCEPT ![c] = new]
    BY <1>1
  <1> HIDE DEF n
  <1>5. new \in Callers /\ new.at = "remove" /\ new.seq = n
    BY <1>3 DEF TypeOK, Callers, Places, Saving, Seqs
  <1> HIDE DEF new
  <1>6. /\ caller' \in [Calls -> Callers] /\ caller'[c] = new
        /\ \A d \in Calls \ {c} : caller'[d] = caller[d]
    BY <1>5, <1>4 DEF TypeOK
  <1> QED  BY <1>3, <1>5, <1>6 DEF number, At, Elsewhere

LEMMA Polling ==
    ASSUME TypeOK, NEW c \in Calls, poll(c)
    PROVE  /\ At(c) = "waiting"
           /\ \E file \in load_or_default(Result) :
                 file.seq = caller[c].seq /\ OnlyMoves(c, IF file.ok THEN "ok" ELSE "refused")
           /\ caller' \in [Calls -> Callers]
  <1>1. PICK file \in load_or_default(Result) :
          file.seq = caller[c].seq /\ Advance(c, IF file.ok THEN "ok" ELSE "refused")
    BY DEF poll, answers, Result
  <1>2. (IF file.ok THEN "ok" ELSE "refused") \in Places
    BY DEF Places, Outcomes
  <1>3. /\ OnlyMoves(c, IF file.ok THEN "ok" ELSE "refused")
        /\ caller' \in [Calls -> Callers]
    BY <1>1, <1>2, AdvanceMoves
  <1> QED  BY <1>1, <1>3 DEF poll, At

LEMMA GivingUp ==
    ASSUME TypeOK, NEW c \in Calls, give_up(c)
    PROVE  At(c) = "waiting" /\ OnlyMoves(c, "no_response") /\ caller' \in [Calls -> Callers]
  <1>1. "no_response" \in Places
    BY DEF Places, Outcomes
  <1> QED  BY <1>1, AdvanceMoves DEF give_up, At

LEMMA Killing ==
    ASSUME TypeOK, NEW c \in Calls, kill(c)
    PROVE  /\ At(c) # "unsent" /\ ~ended(c)
           /\ OnlyMoves(c, "killed") /\ caller' \in [Calls -> Callers]
  <1>1. "killed" \in Places
    BY DEF Places, Outcomes
  <1> QED  BY <1>1, AdvanceMoves DEF kill, At

-------------------------------------------------------------------------------
\* Every variable keeps its shape.
LEMMA TypeKept == TypeOK /\ [Next]_vars => TypeOK'
  <1> SUFFICES ASSUME TypeOK, [Next]_vars PROVE TypeOK'
    OBVIOUS
  <1> DEFINE FilesFit ==
                /\ path' \in [FileNames -> Files] /\ tmp' \in [FileNames -> Files]
                /\ \A f \in FileNames : Numbered(path'[f]) /\ Numbered(tmp'[f])
             Fit == caller' \in [Calls -> Callers] /\ window' \in [Windows -> Desktops]
  <1>0. UNCHANGED <<path, tmp>> => FilesFit
    BY DEF TypeOK
  <1>1. ASSUME NEW c \in Calls, save_command(c) PROVE TypeOK'
    <2>1. PICK end \in Ends :
              /\ FileStep("command", At(c), OwnFile(c), end)
              /\ Result' = Result /\ ResultTmp' = ResultTmp
              /\ UNCHANGED <<window, taken, carried>>
              /\ caller' \in [Calls -> Callers]
              /\ path' = [g \in FileNames |-> path'[g]]
              /\ tmp' = [g \in FileNames |-> tmp'[g]]
      BY <1>1, SavingACommand
    <2>2. /\ path'["command"] \in Files /\ Numbered(path'["command"])
          /\ tmp'["command"] \in Files /\ Numbered(tmp'["command"])
      BY <2>1, FileStepType, FilesToWrite DEF FileNames
    <2>3. /\ path'["result"] \in Files /\ Numbered(path'["result"])
          /\ tmp'["result"] \in Files /\ Numbered(tmp'["result"])
      BY <2>1, FileTypes DEF Result, ResultTmp
    <2>4. FilesFit
      BY <2>1, <2>2, <2>3 DEF FileNames
    <2>5. Fit /\ UNCHANGED <<taken, carried>>
      BY <2>1 DEF TypeOK
    <2> QED  BY <2>4, <2>5 DEF TypeOK
  <1>2. ASSUME NEW w \in Windows, NEW c \in Calls, report(w, c) PROVE TypeOK'
    <2>1. PICK end \in Ends :
              /\ FileStep("result", Job(w, c), Answer(w, c), end)
              /\ Command' = Command /\ CommandTmp' = CommandTmp
              /\ UNCHANGED <<caller, taken, carried>>
              /\ window' \in [Windows -> Desktops]
              /\ path' = [g \in FileNames |-> path'[g]]
              /\ tmp' = [g \in FileNames |-> tmp'[g]]
      BY <1>2, Reporting
    <2>2. /\ path'["result"] \in Files /\ Numbered(path'["result"])
          /\ tmp'["result"] \in Files /\ Numbered(tmp'["result"])
      BY <2>1, FileStepType, FilesToWrite DEF FileNames
    <2>3. /\ path'["command"] \in Files /\ Numbered(path'["command"])
          /\ tmp'["command"] \in Files /\ Numbered(tmp'["command"])
      BY <2>1, FileTypes DEF Command, CommandTmp
    <2>4. FilesFit
      BY <2>1, <2>2, <2>3 DEF FileNames
    <2>5. Fit /\ UNCHANGED <<taken, carried>>
      BY <2>1 DEF TypeOK
    <2> QED  BY <2>4, <2>5 DEF TypeOK
  <1>3. ASSUME NEW c \in Calls, kill(c) PROVE TypeOK'
    <2>1. orphan({c}) /\ UNCHANGED <<window, taken, carried>>
      BY <1>3 DEF kill
    <2>2. FilesFit
      BY <2>1, OrphanKeeps
    <2>3. Fit
      BY <1>3, <2>1, Killing DEF TypeOK
    <2> QED  BY <2>1, <2>2, <2>3 DEF TypeOK
  <1>4. ASSUME NEW w \in Windows, stop(w) PROVE TypeOK'
    <2>1. orphan({w} \X Calls) /\ UNCHANGED <<caller, taken, carried>>
      BY <1>4 DEF stop
    <2>2. FilesFit
      BY <2>1, OrphanKeeps
    <2>3. Fit
      BY <1>4, <2>1, Stopping DEF TypeOK
    <2> QED  BY <2>1, <2>2, <2>3 DEF TypeOK
  <1>5. ASSUME NEW c \in Calls, read_command(c) \/ number(c) \/ poll(c) \/ give_up(c)
        PROVE  TypeOK'
    <2>1. UNCHANGED <<window, path, tmp, taken, carried>>
      BY <1>5 DEF read_command, number, poll, give_up
    <2>2. caller' \in [Calls -> Callers]
      BY <1>5, ReadingTheNumber, Numbering, Polling, GivingUp
    <2> QED  BY <1>0, <2>1, <2>2 DEF TypeOK
  <1>6. ASSUME NEW w \in Windows, start(w) \/ attach(w) PROVE TypeOK'
    <2>1. UNCHANGED <<caller, path, tmp, taken, carried>>
      BY <1>6 DEF start, attach
    <2>2. window' \in [Windows -> Desktops]
      BY <1>6, Starting, Attaching
    <2> QED  BY <1>0, <2>1, <2>2 DEF TypeOK
  <1>7. ASSUME NEW w \in Windows, watch_ui_command(w) PROVE TypeOK'
    <2>1. UNCHANGED <<caller, path, tmp, carried>>
      BY <1>7 DEF watch_ui_command
    <2>2. /\ window' \in [Windows -> Desktops] /\ Command.call \in Calls
          /\ taken' \in {taken, taken \cup {<<w, Command.call>>}}
      BY <1>7, Watching
    <2>3. taken' \subseteq Windows \X Calls
      BY <2>2 DEF TypeOK
    <2> QED  BY <1>0, <2>1, <2>2, <2>3 DEF TypeOK
  <1>8. ASSUME NEW w \in Windows, NEW c \in Calls, dispatch(w, c) PROVE TypeOK'
    <2>1. UNCHANGED <<caller, path, tmp, taken>>
      BY <1>8 DEF dispatch
    <2>2. /\ window' \in [Windows -> Desktops]
          /\ carried' \in {carried, carried \cup {c}}
      BY <1>8, Dispatching
    <2>3. carried' \subseteq Calls
      BY <2>2 DEF TypeOK
    <2> QED  BY <1>0, <2>1, <2>2, <2>3 DEF TypeOK
  <1>9. CASE UNCHANGED vars
    BY <1>9 DEF vars, TypeOK
  <1> QED  BY <1>1, <1>2, <1>3, <1>4, <1>5, <1>6, <1>7, <1>8, <1>9 DEF Next, Calling, Answering

LEMMA InitType == Init => TypeOK
  <1> SUFFICES ASSUME Init PROVE TypeOK
    OBVIOUS
  <1>1. caller \in [Calls -> Callers]
    BY DEF Init, Callers, Places, Seqs
  <1>2. window \in [Windows -> Desktops]
    BY OffType DEF Init
  <1>3. /\ path \in [FileNames -> Files] /\ tmp \in [FileNames -> Files]
        /\ \A f \in FileNames : Numbered(path[f]) /\ Numbered(tmp[f])
    BY NoFileType DEF Init
  <1> QED  BY <1>1, <1>2, <1>3 DEF Init, TypeOK

THEOREM ChannelTypes == Spec => []TypeOK
  BY InitType, TypeKept, PTL DEF Spec

-------------------------------------------------------------------------------
(***************************************************************************)
(* A command is handed to a page once.  A call's command is in one file at *)
(* most: in none until the call creates it, in the temporary one until the *)
(* rename, and then no page was given it yet; and a window that gave it to *)
(* its page, or comes up over it, has acted on its number.                 *)
(***************************************************************************)
Early == {"unsent", "number", "remove", "create"}
Untaken(c) == \A w \in Windows : <<w, c>> \notin taken

Unwritten ==
    \A c \in Calls : At(c) \in Early => /\ Command.call # c /\ CommandTmp.call # c
                                        /\ Untaken(c)
Unsent == \A c \in Calls : CommandTmp.call = c => Command.call # c /\ Untaken(c)
Remembered ==
    \A w \in Windows, c \in Calls :
        <<w, c>> \in taken /\ Command.call = c =>
            /\ Command.whole
            /\ window[w].up => window[w].last_acted >= Command.seq
Once == Unwritten /\ Unsent /\ Remembered

\* Steps that write no command, wake no window and hand nothing to a page.
LEMMA OnceStays ==
    ASSUME TypeOK, Once, SameFile(Command', Command),
           CommandTmp'.call \in {Nobody, CommandTmp.call},
           \A c \in Calls : At(c)' \in Early => At(c) \in Early,
           \A w \in Windows : window'[w].up =>
              window[w].up /\ window'[w].last_acted = window[w].last_acted,
           taken' = taken
    PROVE  Once'
  <1>0. \A c \in Calls : c # Nobody
    BY WriterAssumption
  <1>1. Unwritten'
    BY <1>0 DEF Once, Unwritten, Untaken, SameFile
  <1>2. Unsent'
    BY <1>0 DEF Once, Unsent, Untaken, SameFile
  <1>3. Remembered'
    BY DEF Once, Remembered, SameFile
  <1> QED  BY <1>1, <1>2, <1>3 DEF Once

LEMMA FilesStay ==
    ASSUME TypeOK, UNCHANGED <<path, tmp>>
    PROVE  /\ SameFile(Command', Command) /\ SameFile(CommandTmp', CommandTmp)
           /\ SameFile(Result', Result) /\ SameFile(ResultTmp', ResultTmp)
  BY SameIsSame DEF Command, CommandTmp, Result, ResultTmp

LEMMA DeathKeepsFiles ==
    ASSUME TypeOK, NEW writers, orphan(writers)
    PROVE  /\ SameFile(Command', Command) /\ SameFile(CommandTmp', CommandTmp)
           /\ SameFile(Result', Result) /\ SameFile(ResultTmp', ResultTmp)
           /\ CommandTmp.by \notin writers => CommandTmp' = CommandTmp
  BY OrphanKeeps DEF FileNames, Command, CommandTmp, Result, ResultTmp

LEMMA CallsKeepOnce ==
    ASSUME TypeOK, Once, NEW c \in Calls, Calling(c) \/ kill(c)
    PROVE  Once'
  <1>1. CASE read_command(c) \/ number(c) \/ poll(c) \/ give_up(c)
    <2>1. UNCHANGED <<window, path, tmp, taken>>
      BY <1>1 DEF read_command, number, poll, give_up
    <2>2. \A d \in Calls : At(d)' \in Early => At(d) \in Early
      <3>1. CASE read_command(c)
        BY <3>1, ReadingTheNumber DEF At, Elsewhere, Early
      <3>2. CASE number(c)
        BY <3>2, Numbering DEF At, Elsewhere, Early
      <3>3. CASE poll(c)
        BY <3>3, Polling DEF At, OnlyMoves, Early
      <3>4. CASE give_up(c)
        BY <3>4, GivingUp DEF At, OnlyMoves, Early
      <3> QED  BY <1>1, <3>1, <3>2, <3>3, <3>4
    <2> QED  BY <2>1, <2>2, FilesStay, OnceStays DEF SameFile
  <1>2. CASE kill(c)
    <2>1. orphan({c}) /\ UNCHANGED <<window, taken>>
      BY <1>2 DEF kill
    <2>2. \A d \in Calls : At(d)' \in Early => At(d) \in Early
      BY <1>2, Killing DEF At, OnlyMoves, Early
    <2> QED  BY <2>1, <2>2, DeathKeepsFiles, OnceStays DEF SameFile
  <1>3. CASE save_command(c)
    <2>1. PICK end \in Ends :
              /\ FileStep("command", At(c), OwnFile(c), end)
              /\ At(c) \in Saving /\ OnlyMoves(c, Landing(end))
              /\ UNCHANGED <<window, taken>>
      BY <1>3, SavingACommand
    <2>2. /\ At(c)' = Landing(end)
          /\ \A d \in Calls \ {c} : At(d)' = At(d)
      BY <2>1 DEF OnlyMoves, At
    <2>3. /\ path'["command"] = Command' /\ tmp'["command"] = CommandTmp'
          /\ path["command"] = Command /\ tmp["command"] = CommandTmp
      BY DEF Command, CommandTmp
    <2>4. NoFile.call = Nobody
      BY NoFileType
    <2>5. CASE end = "create"
      <3>1. At(c) = "remove" /\ CommandTmp' = NoFile /\ Command' = Command
        BY <2>1, <2>3, <2>5 DEF FileStep
      <3>2. \A d \in Calls : At(d)' \in Early => At(d) \in Early
        BY <2>2, <3>1 DEF Early
      <3> QED  BY <2>1, <2>4, <3>1, <3>2, SameIsSame, OnceStays
    <2>6. CASE end = "write"
      <3>1. /\ At(c) = "create" /\ At(c)' = "write" /\ CommandTmp' = OwnFile(c)
            /\ Command' = Command /\ CommandTmp = NoFile
        BY <2>1, <2>2, <2>3, <2>6 DEF FileStep, Landing
      <3>2. OwnFile(c).call = c
        BY DEF OwnFile, Written
      <3>3. Command.call # c /\ Untaken(c)
        BY <3>1 DEF Once, Unwritten, Early
      <3>4. Unwritten'
        BY <2>1, <2>2, <3>1, <3>2 DEF Once, Unwritten, Untaken, Early
      <3>5. Unsent'
        BY <2>1, <3>1, <3>2, <3>3 DEF Unsent, Untaken
      <3>6. Remembered'
        BY <2>1, <3>1 DEF Once, Remembered
      <3> QED  BY <3>4, <3>5, <3>6 DEF Once
    <2>7. CASE end = "rename"
      <3>1. /\ At(c) = "write" /\ CommandTmp' = closed(CommandTmp, c)
            /\ Command' = closed(Command, c)
        BY <2>1, <2>3, <2>7 DEF FileStep, OwnFile, Written
      <3>2. SameFile(Command', Command) /\ SameFile(CommandTmp', CommandTmp)
        BY <3>1, ClosedKeeps, FileTypes
      <3>3. \A d \in Calls : At(d)' \in Early => At(d) \in Early
        BY <2>2, <2>7 DEF Early, Landing
      <3> QED  BY <2>1, <3>2, <3>3, OnceStays DEF SameFile
    <2>8. CASE end = "saved"
      <3>1. /\ At(c) = "rename" /\ At(c)' = "waiting"
            /\ Command' = CommandTmp /\ CommandTmp' = NoFile
        BY <2>1, <2>2, <2>3, <2>8 DEF FileStep, Landing
      <3>2. \A d \in Calls : CommandTmp'.call # d
        BY <2>4, <3>1, WriterAssumption
      <3>3. Unwritten'
        BY <2>1, <2>2, <3>1, <3>2 DEF Once, Unwritten, Untaken, Early
      <3>4. Unsent'
        BY <3>2 DEF Unsent
      <3>5. Remembered'
        BY <2>1, <3>1 DEF Once, Unsent, Untaken, Remembered
      <3> QED  BY <3>3, <3>4, <3>5 DEF Once
    <2>9. CASE end = "failed"
      <3>1. Command' = Command /\ CommandTmp' \in {CommandTmp, NoFile}
        BY <2>1, <2>3, <2>9 DEF FileStep
      <3>2. \A d \in Calls : At(d)' \in Early => At(d) \in Early
        BY <2>2, <2>9 DEF Early, Landing
      <3> QED  BY <2>1, <2>4, <3>1, <3>2, SameIsSame, OnceStays
    <2> QED  BY <2>5, <2>6, <2>7, <2>8, <2>9 DEF Ends
  <1> QED  BY <1>1, <1>2, <1>3 DEF Calling

LEMMA WindowsKeepOnce ==
    ASSUME "read" \notin Faults, TypeOK, Once, NEW w \in Windows,
           start(w) \/ attach(w) \/ watch_ui_command(w) \/ Answering(w) \/ stop(w)
    PROVE  Once'
  <1>1. CASE start(w)
    <2>1. UNCHANGED <<caller, path, tmp, taken>>
      BY <1>1 DEF start
    <2>2. Command' = Command /\ CommandTmp' = CommandTmp /\ \A c \in Calls : At(c)' = At(c)
      BY <2>1 DEF Command, CommandTmp, At
    <2>3. Unwritten' /\ Unsent'
      BY <2>1, <2>2 DEF Once, Unwritten, Unsent, Untaken
    <2>4. Remembered'
      <3> SUFFICES ASSUME NEW v \in Windows, NEW c \in Calls, <<v, c>> \in taken, Command.call = c
                   PROVE  Command.whole /\ (window'[v].up => window'[v].last_acted >= Command.seq)
        BY <2>1, <2>2 DEF Remembered
      <3>1. Command.whole /\ (window[v].up => window[v].last_acted >= Command.seq)
        BY DEF Once, Remembered
      <3>2. CASE v = w
        <4>1. window'[w].last_acted = Command.seq
          BY <1>1, <3>1, Starting, Loaded
        <4>2. Command.seq \in Nat
          BY FileTypes DEF Files, Seqs
        <4> QED  BY <3>1, <3>2, <4>1, <4>2
      <3>3. CASE v # w
        BY <1>1, <3>1, <3>3, Starting
      <3> QED  BY <3>2, <3>3
    <2> QED  BY <2>3, <2>4 DEF Once
  <1>2. CASE attach(w)
    <2>1. UNCHANGED <<caller, path, tmp, taken>>
      BY <1>2 DEF attach
    <2>2. \A v \in Windows : /\ window'[v].up = window[v].up
                             /\ window'[v].last_acted = window[v].last_acted
      BY <1>2, Attaching
    <2> QED  BY <2>1, <2>2, FilesStay, OnceStays DEF At, SameFile
  <1>3. CASE watch_ui_command(w)
    <2>1. UNCHANGED <<caller, path, tmp>>
      BY <1>3 DEF watch_ui_command
    <2>2. Command' = Command /\ CommandTmp' = CommandTmp /\ \A c \in Calls : At(c)' = At(c)
      BY <2>1 DEF Command, CommandTmp, At
    <2> DEFINE x == Command.call
    <2>3. /\ x \in Calls /\ Command.whole /\ window[w].up
          /\ \A v \in Windows \ {w} : window'[v] = window[v]
          /\ window'[w].up /\ window'[w].last_acted = Command.seq
          /\ taken' \in {taken, taken \cup {<<w, x>>}}
      BY <1>3, Watching DEF Hands
    <2>4. At(x) \notin Early /\ CommandTmp.call # x
      BY <2>3 DEF Once, Unwritten, Unsent
    <2>5. \A v \in Windows, c \in Calls : <<v, c>> \in taken' => <<v, c>> \in taken \/ c = x
      BY <2>3
    <2>6. Unwritten' /\ Unsent'
      <3>1. \A c \in Calls : c # x /\ Untaken(c) => Untaken(c)'
        BY <2>5 DEF Untaken
      <3> QED  BY <2>2, <2>4, <3>1 DEF Once, Unwritten, Unsent
    <2>7. Remembered'
      <3>1. Command.seq \in Nat
        BY FileTypes DEF Files, Seqs
      <3>2. \A v \in Windows \ {w}, c \in Calls : <<v, c>> \in taken' => <<v, c>> \in taken
        BY <2>3
      <3>3. ASSUME NEW v \in Windows, NEW c \in Calls, <<v, c>> \in taken', Command.call = c
            PROVE  Command.whole /\ (window'[v].up => window'[v].last_acted >= Command.seq)
        <4>1. CASE v = w
          BY <2>3, <3>1, <4>1
        <4>2. CASE v # w
          BY <2>3, <3>2, <3>3, <4>2 DEF Once, Remembered
        <4> QED  BY <4>1, <4>2
      <3> QED  BY <2>2, <3>3 DEF Remembered
    <2> QED  BY <2>6, <2>7 DEF Once
  <1>4. ASSUME NEW c \in Calls, dispatch(w, c) PROVE Once'
    <2>1. UNCHANGED <<caller, path, tmp, taken>>
      BY <1>4 DEF dispatch
    <2>2. \A v \in Windows : /\ window'[v].up = window[v].up
                             /\ window'[v].last_acted = window[v].last_acted
      BY <1>4, Dispatching
    <2> QED  BY <2>1, <2>2, FilesStay, OnceStays DEF At, SameFile
  <1>5. ASSUME NEW c \in Calls, report(w, c) PROVE Once'
    <2>1. /\ UNCHANGED <<caller, taken>> /\ Command' = Command /\ CommandTmp' = CommandTmp
          /\ \A v \in Windows : /\ window'[v].up = window[v].up
                                /\ window'[v].last_acted = window[v].last_acted
      BY <1>5, Reporting DEF OnlyReports
    <2> QED  BY <2>1, SameIsSame, OnceStays DEF At
  <1>6. CASE stop(w)
    <2>1. orphan({w} \X Calls) /\ UNCHANGED <<caller, taken>>
      BY <1>6 DEF stop
    <2>2. ~window'[w].up /\ \A v \in Windows \ {w} : window'[v] = window[v]
      BY <1>6, Stopping
    <2> QED  BY <2>1, <2>2, DeathKeepsFiles, OnceStays DEF At, SameFile
  <1> QED  BY <1>1, <1>2, <1>3, <1>4, <1>5, <1>6 DEF Answering

LEMMA OnceHolds == ASSUME "read" \notin Faults PROVE Spec => [](TypeOK /\ Once)
  <1>1. Init => Once
    <2> SUFFICES ASSUME Init PROVE Once
      OBVIOUS
    <2>1. Command = NoFile /\ CommandTmp = NoFile /\ taken = {}
      BY DEF Init, Command, CommandTmp, FileNames
    <2> QED  BY <2>1, NoFileType, WriterAssumption DEF Once, Unwritten, Unsent, Untaken, Remembered
  <1>2. TypeOK /\ Once /\ [Next]_vars => Once'
    <2>1. TypeOK /\ Once /\ UNCHANGED vars => Once'
      BY DEF vars, Once, Unwritten, Unsent, Untaken, Remembered, Command, CommandTmp, At
    <2> QED  BY <2>1, CallsKeepOnce, WindowsKeepOnce DEF Next
  <1> QED  BY <1>1, <1>2, InitType, TypeKept, PTL DEF Spec

(***************************************************************************)
(* A command handed to a page is never handed to it again: not by a later  *)
(* tick, not while several agents write at once, not by a window that      *)
(* comes up over what it finds on disk, whichever saves fail and whoever   *)
(* dies in the middle of one (pending_command, already_handled_at_startup).*)
(* A window that comes up while the file cannot be read is left out by the *)
(* assumption: it takes the number to be 0 and obeys again.                *)
(***************************************************************************)
THEOREM ObeysOnce == ASSUME "read" \notin Faults PROVE Spec => ObeyedOnce
  <1> DEFINE NoRepeat == \A w \in Windows, c \in Calls :
                window[w].jobs[c] # "running" /\ window'[w].jobs[c] = "running"
                   => <<w, c>> \notin taken
  <1>1. TypeOK /\ Once /\ [Next]_vars => NoRepeat
    <2> SUFFICES ASSUME TypeOK, Once, Next, NEW w \in Windows, NEW c \in Calls,
                        window[w].jobs[c] # "running", window'[w].jobs[c] = "running"
                 PROVE  <<w, c>> \notin taken
      BY DEF vars
    <2>1. window' # window
      OBVIOUS
    <2>2. ASSUME NEW d \in Calls, Calling(d) \/ kill(d) PROVE FALSE
      BY <2>1, <2>2, SavingACommand DEF Calling, read_command, number, poll, give_up, kill
    <2>3. ASSUME NEW v \in Windows, start(v) \/ attach(v) \/ stop(v) PROVE FALSE
      <3>1. window'[w].jobs[c] \in {"none", window[w].jobs[c]}
        BY <2>3, Starting, Attaching, Stopping
      <3> QED  BY <3>1
    <2>4. ASSUME NEW v \in Windows, NEW d \in Calls, dispatch(v, d) PROVE FALSE
      <3>1. window'[w].jobs[c] \in {"remove", window[w].jobs[c]}
        BY <2>4, Dispatching
      <3> QED  BY <3>1
    <2>5. ASSUME NEW v \in Windows, NEW d \in Calls, report(v, d) PROVE FALSE
      <3>1. PICK end \in Ends : OnlyReports(v, d, Reported(end))
        BY <2>5, Reporting
      <3>2. window'[w].jobs[c] \in {Reported(end), window[w].jobs[c]}
        BY <3>1 DEF OnlyReports
      <3> QED  BY <3>1, <3>2, Landings
    <2>6. ASSUME NEW v \in Windows, watch_ui_command(v) PROVE <<w, c>> \notin taken
      <3> DEFINE x == Command.call
      <3>1. /\ window[v].up /\ x \in Calls /\ Command.seq > window[v].last_acted
            /\ \A u \in Windows \ {v} : window'[u] = window[u]
            /\ \A d \in Calls \ {x} : window'[v].jobs[d] = window[v].jobs[d]
        BY <2>6, Watching DEF Hands
      <3>2. w = v /\ c = x
        BY <3>1
      <3>3. Command.seq \in Nat /\ window[v].last_acted \in Nat
        BY FileTypes DEF Files, Seqs, TypeOK, Desktops
      <3>4. ~(window[v].last_acted >= Command.seq)
        BY <3>1, <3>3
      <3> QED  BY <3>1, <3>2, <3>4 DEF Once, Remembered
    <2> QED  BY <2>2, <2>3, <2>4, <2>5, <2>6 DEF Next, Answering
  <1>2. Spec => [][NoRepeat]_vars
    BY <1>1, OnceHolds, PTL DEF Spec
  <1> QED  BY <1>2 DEF ObeyedOnce

-------------------------------------------------------------------------------
(***************************************************************************)
(* Calls in turn: of any two, one waits for the other to end.  Then one    *)
(* call at most is under way.                                              *)
(***************************************************************************)
InTurn == \A c, d \in Calls : c # d => c \in After[d] \/ d \in After[c]

Waits == \A c \in Calls : At(c) # "unsent" => \A d \in After[c] : ended(d)
UnderWay(c) == At(c) # "unsent" /\ ~ended(c)

LEMMA OneUnderWay ==
    ASSUME InTurn, Waits, NEW c \in Calls, UnderWay(c), NEW d \in Calls, d # c
    PROVE  At(d) = "unsent" \/ ended(d)
  BY DEF InTurn, Waits, UnderWay

\* A call that was made is not unmade, and one that ended stays so.
LEMMA CallsGoForward ==
    ASSUME TypeOK, NEW c \in Calls, Calling(c) \/ kill(c)
    PROVE  /\ ~ended(c) /\ At(c)' # "unsent"
           /\ \A d \in Calls \ {c} : At(d)' = At(d)
           /\ At(c) = "unsent" => \A d \in After[c] : ended(d)
  <1>1. CASE read_command(c)
    BY <1>1, ReadingTheNumber DEF At, Elsewhere, ended, Outcomes
  <1>2. CASE number(c)
    BY <1>2, Numbering DEF At, Elsewhere, ended, Outcomes
  <1>3. CASE save_command(c)
    <2>1. PICK end \in Ends : At(c) \in Saving /\ OnlyMoves(c, Landing(end))
      BY <1>3, SavingACommand
    <2>2. At(c) # "unsent" /\ ~ended(c)
      BY <2>1 DEF ended, At, Outcomes, Saving
    <2> QED  BY <2>1, <2>2, Landings DEF At, OnlyMoves
  <1>4. CASE poll(c)
    BY <1>4, Polling DEF At, OnlyMoves, ended, Outcomes
  <1>5. CASE give_up(c)
    BY <1>5, GivingUp DEF At, OnlyMoves, ended, Outcomes
  <1>6. CASE kill(c)
    BY <1>6, Killing DEF At, OnlyMoves, ended, Outcomes
  <1> QED  BY <1>1, <1>2, <1>3, <1>4, <1>5, <1>6 DEF Calling

LEMMA WindowsKeepCalls ==
    ASSUME NEW w \in Windows,
           start(w) \/ attach(w) \/ watch_ui_command(w) \/ Answering(w) \/ stop(w)
    PROVE  UNCHANGED caller
  BY DEF start, attach, watch_ui_command, Answering, dispatch, report, stop

LEMMA WaitsKept == TypeOK /\ Waits /\ [Next]_vars => Waits'
  <1> SUFFICES ASSUME TypeOK, Waits, [Next]_vars PROVE Waits'
    OBVIOUS
  <1>1. UNCHANGED caller => Waits'
    BY DEF Waits, At, ended
  <1>2. ASSUME NEW c \in Calls, Calling(c) \/ kill(c) PROVE Waits'
    <2>1. \A d \in Calls : After[d] \subseteq Calls
      BY CallAssumption
    <2>2. \A d \in Calls : ended(d) => ended(d)'
      BY <1>2, CallsGoForward DEF ended, At
    <2>3. ASSUME NEW d \in Calls, At(d)' # "unsent" PROVE \A e \in After[d] : ended(e)
      BY <1>2, <2>3, CallsGoForward DEF Waits
    <2> QED  BY <2>1, <2>2, <2>3 DEF Waits
  <1> QED  BY <1>1, <1>2, WindowsKeepCalls DEF Next, vars

-------------------------------------------------------------------------------
(***************************************************************************)
(* Leftovers: the temporary file is gone before the call under way creates *)
(* it, and it is there until that call renames it.                         *)
(***************************************************************************)
TmpReady(c) ==
    /\ At(c) = "create" => CommandTmp = NoFile
    /\ At(c) \in {"write", "rename"} => CommandTmp.call # Nobody
    /\ At(c) # "config"
Ready == Waits /\ \A c \in Calls : TmpReady(c)

LEMMA DeathKeepsNoFile ==
    ASSUME TypeOK, NEW writers, Nobody \notin writers, orphan(writers)
    PROVE  CommandTmp = NoFile => CommandTmp' = NoFile
  BY DeathKeepsFiles DEF NoFile

LEMMA ReadyKept ==
    ASSUME InTurn, Faults \cap {"write", "rename"} = {}, TypeOK, Ready, [Next]_vars
    PROVE  \A d \in Calls : TmpReady(d)'
  <1>1. ASSUME CommandTmp' = CommandTmp, UNCHANGED caller
        PROVE  \A d \in Calls : TmpReady(d)'
    BY <1>1 DEF Ready, TmpReady, At
  <1>2. ASSUME NEW c \in Calls, read_command(c) \/ number(c) \/ poll(c) \/ give_up(c)
        PROVE  \A d \in Calls : TmpReady(d)'
    <2>1. CommandTmp' = CommandTmp
      BY <1>2 DEF read_command, number, poll, give_up, CommandTmp
    <2>2. At(c)' \notin {"create", "write", "rename", "config"}
      <3>1. CASE read_command(c)
        BY <3>1, ReadingTheNumber DEF At
      <3>2. CASE number(c)
        BY <3>2, Numbering DEF At
      <3>3. CASE poll(c)
        BY <3>3, Polling DEF At, OnlyMoves
      <3>4. CASE give_up(c)
        BY <3>4, GivingUp DEF At, OnlyMoves
      <3> QED  BY <1>2, <3>1, <3>2, <3>3, <3>4
    <2>3. \A d \in Calls \ {c} : At(d)' = At(d)
      BY <1>2, CallsGoForward DEF Calling
    <2> QED  BY <2>1, <2>2, <2>3 DEF Ready, TmpReady
  <1>3. ASSUME NEW c \in Calls, kill(c)
        PROVE  \A d \in Calls : TmpReady(d)'
    <2>1. UnderWay(c) /\ At(c)' = "killed" /\ \A d \in Calls \ {c} : At(d)' = At(d)
      BY <1>3, Killing DEF UnderWay, OnlyMoves, At
    <2>2. orphan({c}) /\ Nobody \notin {c}
      BY <1>3, WriterAssumption DEF kill
    <2>3. /\ CommandTmp = NoFile => CommandTmp' = NoFile
          /\ CommandTmp'.call = CommandTmp.call
      BY <2>2, DeathKeepsNoFile, DeathKeepsFiles DEF SameFile
    <2> QED  BY <2>1, <2>3 DEF Ready, TmpReady
  <1>4. ASSUME NEW c \in Calls, save_command(c)
        PROVE  \A d \in Calls : TmpReady(d)'
    <2>1. PICK end \in Ends :
              /\ FileStep("command", At(c), OwnFile(c), end)
              /\ At(c) \in Saving /\ OnlyMoves(c, Landing(end))
      BY <1>4, SavingACommand
    <2>2. UnderWay(c)
      BY <2>1 DEF UnderWay, ended, At, Outcomes, Saving
    <2>3. ASSUME NEW d \in Calls, d # c PROVE TmpReady(d)'
      <3>1. At(d)' = At(d) /\ (At(d) = "unsent" \/ ended(d))
        BY <2>1, <2>2, <2>3, OneUnderWay DEF OnlyMoves, At, Ready
      <3> QED  BY <3>1 DEF TmpReady, Ready, ended, Outcomes, At
    <2>4. TmpReady(c)'
      <3>1. At(c)' = Landing(end)
        BY <2>1 DEF OnlyMoves, At
      <3>2. tmp'["command"] = CommandTmp' /\ tmp["command"] = CommandTmp
        BY DEF CommandTmp
      <3>3. CASE end = "create"
        BY <2>1, <3>1, <3>2, <3>3 DEF FileStep, Landing, TmpReady
      <3>4. CASE end = "write"
        <4>1. CommandTmp' = OwnFile(c) /\ At(c)' = "write"
          BY <2>1, <3>1, <3>2, <3>4 DEF FileStep, Landing
        <4>2. OwnFile(c).call # Nobody
          BY WriterAssumption DEF OwnFile, Written
        <4> QED  BY <4>1, <4>2 DEF TmpReady
      <3>5. CASE end = "rename"
        <4>1. At(c) = "write" /\ At(c)' = "rename" /\ CommandTmp' = closed(CommandTmp, OwnFile(c).by)
          BY <2>1, <3>1, <3>2, <3>5 DEF FileStep, Landing
        <4>2. CommandTmp'.call = CommandTmp.call
          BY <4>1, ClosedKeeps, FileTypes DEF SameFile
        <4> QED  BY <4>1, <4>2 DEF TmpReady, Ready
      <3>6. CASE end = "saved"
        BY <3>1, <3>6 DEF Landing, TmpReady
      <3>7. CASE end = "failed"
        <4>1. \/ At(c) = "create" /\ CommandTmp # NoFile
              \/ At(c) = "rename" /\ CommandTmp = NoFile
          BY <2>1, <3>2, <3>7 DEF FileStep
        <4> QED  BY <4>1, NoFileType DEF Ready, TmpReady
      <3> QED  BY <3>3, <3>4, <3>5, <3>6, <3>7 DEF Ends
    <2> QED  BY <2>3, <2>4
  <1>5. ASSUME NEW w \in Windows, start(w) \/ attach(w) \/ watch_ui_command(w)
        PROVE  CommandTmp' = CommandTmp
    BY <1>5 DEF start, attach, watch_ui_command, CommandTmp
  <1>6. ASSUME NEW w \in Windows, NEW c \in Calls, dispatch(w, c) \/ report(w, c)
        PROVE  CommandTmp' = CommandTmp
    <2>1. CASE dispatch(w, c)
      BY <2>1 DEF dispatch, CommandTmp
    <2>2. CASE report(w, c)
      BY <2>2, Reporting
    <2> QED  BY <1>6, <2>1, <2>2
  <1>7. ASSUME NEW w \in Windows, stop(w)
        PROVE  \A d \in Calls : TmpReady(d)'
    <2>1. orphan({w} \X Calls) /\ UNCHANGED caller
      BY <1>7 DEF stop
    <2>2. Nobody \notin {w} \X Calls
      BY WriterAssumption
    <2>3. /\ CommandTmp = NoFile => CommandTmp' = NoFile
          /\ CommandTmp'.call = CommandTmp.call
      BY <2>1, <2>2, DeathKeepsNoFile, DeathKeepsFiles DEF SameFile
    <2> QED  BY <2>1, <2>3 DEF Ready, TmpReady, At
  <1>8. CASE UNCHANGED vars
    BY <1>1, <1>8 DEF vars, CommandTmp
  <1>9. CASE \E c \in Calls : Calling(c) \/ kill(c)
    BY <1>2, <1>3, <1>4, <1>9 DEF Calling
  <1>10. CASE \E w \in Windows :
               start(w) \/ attach(w) \/ watch_ui_command(w) \/ Answering(w) \/ stop(w)
    BY <1>1, <1>5, <1>6, <1>7, <1>10, WindowsKeepCalls DEF Answering
  <1> QED  BY <1>8, <1>9, <1>10 DEF Next

(***************************************************************************)
(* Nothing a dead call left behind makes a later one fail: the save of a   *)
(* command removes the temporary file first (save_atomic), so while calls  *)
(* are made in turn and the file system itself refuses nothing, no call    *)
(* ends with an error of the file.  Two calls at once do fail: the file    *)
(* one creates is in the way of the other.                                 *)
(***************************************************************************)
THEOREM LeftoversAreHarmless ==
    ASSUME InTurn, Faults \cap {"write", "rename"} = {}
    PROVE  Spec => []LeftoversHarmless
  <1>1. Init => Ready
    <2> SUFFICES ASSUME Init PROVE Ready
      OBVIOUS
    <2>1. \A c \in Calls : At(c) = "unsent"
      BY DEF Init, At
    <2> QED  BY <2>1 DEF Ready, Waits, TmpReady
  <1>2. TypeOK /\ Ready /\ [Next]_vars => Ready'
    BY ReadyKept, WaitsKept DEF Ready
  <1>3. Ready => LeftoversHarmless
    BY DEF Ready, TmpReady, LeftoversHarmless, At
  <1> QED  BY <1>1, <1>2, <1>3, InitType, TypeKept, PTL DEF Spec

-------------------------------------------------------------------------------
(***************************************************************************)
(* Numbers.  While calls are made in turn the command file only ever gets  *)
(* a number above its own; the call that waits is the one it is about; and *)
(* whatever a window is still working on, or has answered, is either older *)
(* or about that call.                                                     *)
(***************************************************************************)
Sends(c) ==
    /\ At(c) = "number" => caller[c].seen = Command.seq
    /\ At(c) \in Saving => caller[c].seq > Command.seq
    /\ At(c) \in {"write", "rename"} => /\ CommandTmp.call = c
                                        /\ CommandTmp.seq = caller[c].seq
    /\ At(c) = "write" => CommandTmp.by = c
    /\ At(c) = "rename" => CommandTmp.whole
    /\ At(c) = "waiting" => /\ Command.call = c /\ Command.seq = caller[c].seq
                            /\ Command.seq > 0
    /\ At(c) = "ok" => c \in carried
Tells(r) ==
    /\ r.seq <= Command.seq
    /\ r.seq = Command.seq /\ r.seq > 0 => r.call = Command.call
    /\ r.ok => r.call \in carried
Works(w, c) ==
    Job(w, c) # "none" =>
        /\ window[w].seq[c] <= Command.seq
        /\ window[w].seq[c] = Command.seq => c = Command.call
        /\ Job(w, c) = "running" => ~window[w].ok[c]
        /\ window[w].ok[c] => c \in carried
Told ==
    /\ Command.whole
    /\ \A c \in Calls : Sends(c)
    /\ Tells(Result) /\ Tells(ResultTmp)
    /\ \A w \in Windows, c \in Calls : Works(w, c)
Mine == Waits /\ Told

\* What is told stays true while the command file says the same.
LEMMA SendsStay ==
    ASSUME NEW c \in Calls, Sends(c), SameFile(Command', Command),
           SameFile(CommandTmp', CommandTmp), CommandTmp.by = c => CommandTmp'.by = c,
           carried \subseteq carried', caller'[c] = caller[c]
    PROVE  Sends(c)'
  BY DEF Sends, SameFile, At

LEMMA RestingStays ==
    ASSUME NEW c \in Calls, Sends(c), At(c) = "unsent" \/ ended(c), At(c)' = At(c),
           carried \subseteq carried'
    PROVE  Sends(c)'
  BY DEF Sends, At, ended, Outcomes, Saving

LEMMA TellsStays ==
    ASSUME NEW r, NEW s, Tells(r), s.seq = r.seq, s.call = r.call, s.ok = r.ok,
           Command'.seq = Command.seq, Command'.call = Command.call,
           carried \subseteq carried'
    PROVE  /\ s.seq <= Command'.seq
           /\ s.seq = Command'.seq /\ s.seq > 0 => s.call = Command'.call
           /\ s.ok => s.call \in carried'
  BY DEF Tells

LEMMA WorksStays ==
    ASSUME NEW w \in Windows, NEW c \in Calls, Works(w, c),
           Command'.seq = Command.seq, Command'.call = Command.call,
           carried \subseteq carried',
           window'[w].jobs[c] \in {"none", window[w].jobs[c]},
           window'[w].seq[c] = window[w].seq[c], window'[w].ok[c] = window[w].ok[c]
    PROVE  Works(w, c)'
  BY DEF Works, Job

\* Steps that neither touch a file's text nor a window: only the callers move.
LEMMA CallersMove ==
    ASSUME TypeOK, Told, SameFile(Command', Command), SameFile(Result', Result),
           SameFile(ResultTmp', ResultTmp), UNCHANGED <<window, carried>>,
           \A d \in Calls : Sends(d)'
    PROVE  Told'
  <1>1. Command'.whole
    BY DEF Told, SameFile
  <1>2. Tells(Result)'
    BY TellsStays DEF Told, SameFile, Tells
  <1>3. Tells(ResultTmp)'
    BY TellsStays DEF Told, SameFile, Tells
  <1>4. \A w \in Windows, c \in Calls : Works(w, c)'
    BY WorksStays DEF Told, SameFile
  <1> QED  BY <1>1, <1>2, <1>3, <1>4 DEF Told

LEMMA QuietCallsKeepTold ==
    ASSUME "read" \notin Faults, TypeOK, Told, NEW c \in Calls,
           read_command(c) \/ number(c) \/ poll(c) \/ give_up(c)
    PROVE  Told'
  <1>1. UNCHANGED <<window, path, tmp, taken, carried>>
    BY DEF read_command, number, poll, give_up
  <1>2. /\ Command' = Command /\ CommandTmp' = CommandTmp
        /\ Result' = Result /\ ResultTmp' = ResultTmp
    BY <1>1 DEF Command, CommandTmp, Result, ResultTmp
  <1>3. Command.whole /\ Sends(c) /\ Command.seq \in Nat
    BY FileTypes DEF Told, Files, Seqs
  <1>4. Sends(c)'
    <2>1. CASE read_command(c)
      <3>1. At(c)' = "number" /\ caller'[c].seen = Command.seq
        BY <1>3, <2>1, ReadingTheNumber, Loaded DEF At
      <3> QED  BY <1>2, <3>1 DEF Sends, Saving
    <2>2. CASE number(c)
      <3>1. At(c)' = "remove" /\ caller'[c].seq > Command.seq
        BY <1>3, <2>2, Numbering DEF At, Sends
      <3> QED  BY <1>2, <3>1 DEF Sends, Saving
    <2>3. CASE poll(c)
      <3>1. PICK file \in load_or_default(Result) :
              /\ file.seq = caller[c].seq
              /\ OnlyMoves(c, IF file.ok THEN "ok" ELSE "refused")
        BY <2>3, Polling
      <3>2. At(c) = "waiting"
        BY <2>3, Polling
      <3>3. Command.call = c /\ file.seq = Command.seq /\ file.seq > 0
        BY <1>3, <3>1, <3>2 DEF Sends
      <3>4. file = Result
        BY <3>3, Loaded DEF NoFile
      <3>5. file.ok => c \in carried
        BY <3>3, <3>4 DEF Told, Tells
      <3>6. At(c)' = IF file.ok THEN "ok" ELSE "refused"
        BY <3>1 DEF OnlyMoves, At
      <3> QED  BY <1>1, <3>5, <3>6 DEF Sends, Saving
    <2>4. CASE give_up(c)
      <3>1. At(c)' = "no_response"
        BY <2>4, GivingUp DEF OnlyMoves, At
      <3> QED  BY <3>1 DEF Sends, Saving
    <2> QED  BY <2>1, <2>2, <2>3, <2>4
  <1>5. Elsewhere(c) \/ \E at : OnlyMoves(c, at)
    BY ReadingTheNumber, Numbering, Polling, GivingUp
  <1>6. ASSUME NEW d \in Calls, d # c PROVE Sends(d)'
    <2>1. /\ At(d)' = At(d) /\ caller'[d].seq = caller[d].seq
          /\ caller'[d].seen = caller[d].seen
      BY <1>5, <1>6 DEF Elsewhere, OnlyMoves, At
    <2>2. Sends(d)
      BY DEF Told
    <2> QED  BY <1>1, <1>2, <2>1, <2>2 DEF Sends
  <1> QED  BY <1>1, <1>4, <1>6, FilesStay, CallersMove

LEMMA KillsKeepTold ==
    ASSUME InTurn, TypeOK, Mine, NEW c \in Calls, kill(c)
    PROVE  Told'
  <1>1. orphan({c}) /\ UNCHANGED <<window, carried>>
    BY DEF kill
  <1>2. UnderWay(c) /\ At(c)' = "killed" /\ \A d \in Calls \ {c} : At(d)' = At(d)
    BY Killing DEF UnderWay, OnlyMoves, At
  <1>3. Sends(c)'
    BY <1>2 DEF Sends, Saving
  <1>4. ASSUME NEW d \in Calls, d # c PROVE Sends(d)'
    <2>1. At(d) = "unsent" \/ ended(d)
      BY <1>2, <1>4, OneUnderWay DEF Mine
    <2> QED  BY <1>1, <1>2, <1>4, <2>1, RestingStays DEF Mine, Told
  <1> QED  BY <1>1, <1>3, <1>4, DeathKeepsFiles, CallersMove DEF Mine

LEMMA SavesKeepTold ==
    ASSUME InTurn, TypeOK, Mine, NEW c \in Calls, save_command(c)
    PROVE  Told'
  <1>1. PICK end \in Ends :
            /\ FileStep("command", At(c), OwnFile(c), end)
            /\ At(c) \in Saving /\ OnlyMoves(c, Landing(end))
            /\ Result' = Result /\ ResultTmp' = ResultTmp
            /\ UNCHANGED <<window, taken, carried>>
    BY SavingACommand
  <1>2. UnderWay(c)
    BY <1>1 DEF UnderWay, ended, At, Outcomes, Saving
  <1>3. ASSUME NEW d \in Calls, d # c PROVE Sends(d)'
    <2>1. At(d)' = At(d) /\ (At(d) = "unsent" \/ ended(d))
      BY <1>1, <1>2, <1>3, OneUnderWay DEF OnlyMoves, At, Mine
    <2> QED  BY <1>1, <2>1, RestingStays DEF Mine, Told
  <1>4. /\ path'["command"] = Command' /\ tmp'["command"] = CommandTmp'
        /\ path["command"] = Command /\ tmp["command"] = CommandTmp
    BY DEF Command, CommandTmp
  <1>5. At(c)' = Landing(end) /\ caller'[c].seq = caller[c].seq
    BY <1>1 DEF OnlyMoves, At
  <1>6. Sends(c) /\ caller[c].seq > Command.seq /\ Command.whole
    BY <1>1 DEF Mine, Told, Sends
  <1>7. Command.seq \in Nat /\ caller[c].seq \in Nat
    BY FileTypes DEF TypeOK, Files, Callers, Seqs
  <1>8. CASE end \in {"create", "write", "failed"}
    <2>1. Command' = Command
      BY <1>1, <1>4, <1>8 DEF FileStep
    <2>2. Sends(c)'
      <3>1. CASE end = "write"
        <4>1. CommandTmp' = OwnFile(c)
          BY <1>1, <1>4, <3>1 DEF FileStep
        <4>2. /\ CommandTmp'.call = c /\ CommandTmp'.by = c
              /\ CommandTmp'.seq = caller[c].seq
          BY <4>1 DEF OwnFile, Written
        <4>3. At(c)' = "write"
          BY <1>5, <3>1 DEF Landing
        <4> QED  BY <1>5, <1>6, <2>1, <4>2, <4>3 DEF Sends
      <3>2. CASE end = "create"
        <4>1. At(c)' = "create"
          BY <1>5, <3>2 DEF Landing
        <4> QED  BY <1>5, <1>6, <2>1, <4>1 DEF Sends
      <3>3. CASE end = "failed"
        BY <1>5, <3>3 DEF Landing, Sends, Saving
      <3> QED  BY <1>8, <3>1, <3>2, <3>3
    <2> QED  BY <1>1, <1>3, <2>1, <2>2, SameIsSame, CallersMove DEF Mine
  <1>9. CASE end = "rename"
    <2>1. /\ At(c) = "write" /\ At(c)' = "rename"
          /\ CommandTmp' = closed(CommandTmp, c) /\ Command' = closed(Command, c)
      BY <1>1, <1>4, <1>5, <1>9 DEF FileStep, OwnFile, Written, Landing
    <2>2. SameFile(Command', Command) /\ SameFile(CommandTmp', CommandTmp)
      BY <2>1, ClosedKeeps, FileTypes
    <2>3. CommandTmp.by = c /\ CommandTmp.call = c /\ CommandTmp.seq = caller[c].seq
      BY <1>6, <2>1 DEF Sends
    <2>4. CommandTmp'.whole
      BY <2>1, <2>3, ClosedKeeps, FileTypes
    <2>5. Sends(c)'
      BY <1>5, <1>6, <2>1, <2>2, <2>3, <2>4 DEF Sends, SameFile
    <2> QED  BY <1>1, <1>3, <2>2, <2>5, SameIsSame, CallersMove DEF Mine
  <1>10. CASE end = "saved"
    <2>1. /\ At(c) = "rename" /\ At(c)' = "waiting" /\ Command' = CommandTmp
      BY <1>1, <1>4, <1>5, <1>10 DEF FileStep, Landing
    <2>2. /\ Command'.whole /\ Command'.call = c
          /\ Command'.seq = caller[c].seq /\ Command'.seq > Command.seq /\ Command'.seq \in Nat
      BY <1>6, <1>7, <2>1 DEF Sends
    <2>3. Sends(c)'
      BY <1>5, <1>7, <2>1, <2>2 DEF Sends, Saving
    <2>4. Tells(Result)' /\ Tells(ResultTmp)'
      <3>1. Result.seq \in Nat /\ ResultTmp.seq \in Nat
        BY FileTypes DEF Files, Seqs
      <3>2. Result.seq < Command'.seq /\ ResultTmp.seq < Command'.seq
        BY <1>7, <2>2, <3>1 DEF Mine, Told, Tells
      <3>3. Result.ok => Result.call \in carried
        BY DEF Mine, Told, Tells
      <3>4. ResultTmp.ok => ResultTmp.call \in carried
        BY DEF Mine, Told, Tells
      <3> QED  BY <1>1, <2>2, <3>1, <3>2, <3>3, <3>4 DEF Tells
    <2>5. ASSUME NEW v \in Windows, NEW d \in Calls PROVE Works(v, d)'
      <3>1. Works(v, d) /\ window[v].seq[d] \in Nat
        BY DEF Mine, Told, TypeOK, Desktops, Seqs
      <3> QED  BY <1>1, <1>7, <2>2, <3>1 DEF Works, Job
    <2> QED  BY <1>3, <2>2, <2>3, <2>4, <2>5 DEF Told
  <1> QED  BY <1>8, <1>9, <1>10 DEF Ends

\* Steps of a window that keep what the files say, and carry out at most more.
LEMMA WindowsMove ==
    ASSUME TypeOK, Told, UNCHANGED caller, SameFile(Command', Command),
           SameFile(CommandTmp', CommandTmp),
           \A c \in Calls : CommandTmp.by = c => CommandTmp'.by = c,
           carried \subseteq carried', Tells(Result)', Tells(ResultTmp)',
           \A w \in Windows, c \in Calls : Works(w, c)'
    PROVE  Told'
  <1>1. \A c \in Calls : Sends(c)'
    BY SendsStay DEF Told
  <1>2. Command'.whole
    BY DEF Told, SameFile
  <1> QED  BY <1>1, <1>2 DEF Told

LEMMA WindowsKeepTold ==
    ASSUME TypeOK, Told, NEW w \in Windows,
           start(w) \/ attach(w) \/ watch_ui_command(w) \/ stop(w)
    PROVE  Told'
  <1>1. UNCHANGED <<caller, carried>>
    BY DEF start, attach, watch_ui_command, stop
  <1>2. UNCHANGED <<path, tmp>> \/ orphan({w} \X Calls)
    BY DEF start, attach, watch_ui_command, stop
  <1>3. /\ SameFile(Command', Command) /\ SameFile(CommandTmp', CommandTmp)
        /\ SameFile(Result', Result) /\ SameFile(ResultTmp', ResultTmp)
    BY <1>2, FilesStay, DeathKeepsFiles
  <1>4. \A c \in Calls : CommandTmp.by = c => CommandTmp'.by = c
    <2>1. ASSUME NEW c \in Calls, CommandTmp.by = c PROVE c \notin {w} \X Calls
      BY WriterAssumption
    <2>2. CASE UNCHANGED <<path, tmp>>
      BY <2>2 DEF CommandTmp
    <2>3. CASE orphan({w} \X Calls)
      BY <2>1, <2>3, DeathKeepsFiles
    <2> QED  BY <1>2, <2>2, <2>3
  <1>5. Tells(Result)' /\ Tells(ResultTmp)'
    <2>1. Tells(Result)'
      BY <1>1, <1>3, TellsStays DEF Told, SameFile, Tells
    <2>2. Tells(ResultTmp)'
      BY <1>1, <1>3, TellsStays DEF Told, SameFile, Tells
    <2> QED  BY <2>1, <2>2
  <1>6. ASSUME NEW v \in Windows, NEW c \in Calls PROVE Works(v, c)'
    <2>0. Works(v, c)
      BY DEF Told
    <2>1. CASE window'[v].jobs[c] = "none"
      BY <2>1 DEF Works, Job
    <2>2. CASE /\ window'[v].jobs[c] = window[v].jobs[c]
               /\ window'[v].seq[c] = window[v].seq[c] /\ window'[v].ok[c] = window[v].ok[c]
      BY <1>1, <1>3, <2>0, <2>2, WorksStays DEF SameFile
    <2>3. CASE start(w) \/ stop(w)
      <3>1. v # w => window'[v] = window[v]
        BY <2>3, Starting, Stopping
      <3>2. v = w => window'[v].jobs[c] = "none"
        BY <2>3, Starting, Stopping
      <3> QED  BY <2>1, <2>2, <3>1, <3>2
    <2>4. CASE attach(w)
      BY <2>2, <2>4, Attaching
    <2>5. CASE watch_ui_command(w)
      <3> DEFINE x == Command.call
      <3>1. PICK at \in {"running", "none", "remove"} : Hands(w, x, at)
        BY <2>5, Watching
      <3>2. CASE v # w \/ c # x
        BY <2>2, <3>1, <3>2 DEF Hands
      <3>3. CASE v = w /\ c = x
        <4>1. /\ window'[v].jobs[c] = at /\ window'[v].seq[c] = Command.seq
              /\ ~window'[v].ok[c]
          BY <3>1, <3>3 DEF Hands
        <4>2. Command'.seq = Command.seq /\ Command'.call = c /\ Command.seq \in Nat
          BY <1>3, <3>3, FileTypes DEF SameFile, Files, Seqs
        <4> QED  BY <4>1, <4>2 DEF Works, Job
      <3> QED  BY <3>2, <3>3
    <2> QED  BY <2>3, <2>4, <2>5
  <1> QED  BY <1>1, <1>3, <1>4, <1>5, <1>6, WindowsMove

LEMMA DispatchKeepsTold ==
    ASSUME TypeOK, Told, NEW w \in Windows, NEW c \in Calls, dispatch(w, c)
    PROVE  Told'
  <1>1. UNCHANGED <<caller, path, tmp>>
    BY DEF dispatch
  <1>2. /\ Command' = Command /\ CommandTmp' = CommandTmp
        /\ Result' = Result /\ ResultTmp' = ResultTmp
    BY <1>1 DEF Command, CommandTmp, Result, ResultTmp
  <1>3. carried \subseteq carried'
    BY Dispatching
  <1>4. Tells(Result)' /\ Tells(ResultTmp)'
    BY <1>2, <1>3 DEF Told, Tells
  <1>5. ASSUME NEW v \in Windows, NEW d \in Calls PROVE Works(v, d)'
    <2>0. Works(v, d) /\ Job(w, c) = "running" /\ window'[v].seq[d] = window[v].seq[d]
      BY Dispatching DEF Told
    <2>1. CASE v # w \/ d # c
      <3>1. window'[v].jobs[d] = window[v].jobs[d] /\ window'[v].ok[d] = window[v].ok[d]
        BY <2>1, Dispatching
      <3> QED  BY <1>2, <1>3, <2>0, <3>1, WorksStays
    <2>2. CASE v = w /\ d = c
      <3>1. window'[w].jobs[c] = "remove" /\ (window'[w].ok[c] => c \in carried')
        <4>1. \/ carried' = carried \cup {c}
              \/ window'[w].ok[c] = window[w].ok[c] /\ carried' = carried
          BY Dispatching
        <4>2. ~window[w].ok[c]
          BY <2>0, <2>2 DEF Works
        <4> QED  BY <4>1, <4>2, Dispatching
      <3> QED  BY <1>2, <2>0, <2>2, <3>1 DEF Works, Job
    <2> QED  BY <2>1, <2>2
  <1> QED  BY <1>1, <1>2, <1>3, <1>4, <1>5, SameIsSame, WindowsMove

LEMMA ReportKeepsTold ==
    ASSUME TypeOK, Told, NEW w \in Windows, NEW c \in Calls, report(w, c)
    PROVE  Told'
  <1>1. PICK end \in Ends :
            /\ FileStep("result", Job(w, c), Answer(w, c), end)
            /\ Job(w, c) \in Saving /\ OnlyReports(w, c, Reported(end))
            /\ Command' = Command /\ CommandTmp' = CommandTmp
            /\ UNCHANGED <<caller, taken, carried>>
    BY Reporting
  <1>2. /\ path'["result"] = Result' /\ tmp'["result"] = ResultTmp'
        /\ path["result"] = Result /\ tmp["result"] = ResultTmp
    BY DEF Result, ResultTmp
  <1>3. Tells(Result) /\ Tells(ResultTmp) /\ Works(w, c) /\ Command.seq \in Nat
    BY FileTypes DEF Told, Files, Seqs
  <1>4. Job(w, c) # "none" /\ Job(w, c) # "running"
    BY <1>1 DEF Saving
  <1>5. Tells(NoFile) /\ Tells(Answer(w, c))
    BY <1>3, <1>4 DEF Tells, NoFile, Answer, Written, Works
  <1>6. Result' \in {Result, ResultTmp, closed(Result, <<w, c>>)}
    BY <1>1, <1>2 DEF FileStep, Answer, Written
  <1>7. ResultTmp' \in {ResultTmp, NoFile, Answer(w, c), closed(ResultTmp, <<w, c>>)}
    BY <1>1, <1>2 DEF FileStep, Answer, Written
  <1>8. /\ SameFile(closed(Result, <<w, c>>), Result)
        /\ SameFile(closed(ResultTmp, <<w, c>>), ResultTmp)
    BY ClosedKeeps, FileTypes
  <1>9. Tells(closed(Result, <<w, c>>)) /\ Tells(closed(ResultTmp, <<w, c>>))
    BY <1>3, <1>8 DEF Tells, SameFile
  <1>10. Tells(Result') /\ Tells(ResultTmp')
    BY <1>3, <1>5, <1>6, <1>7, <1>9
  <1>11. Tells(Result)' /\ Tells(ResultTmp)'
    BY <1>1, <1>10 DEF Tells
  <1>12. ASSUME NEW v \in Windows, NEW d \in Calls PROVE Works(v, d)'
    <2>0. Works(v, d)
      BY DEF Told
    <2>1. window'[v].seq[d] = window[v].seq[d] /\ window'[v].ok[d] = window[v].ok[d]
      BY <1>1 DEF OnlyReports
    <2>2. CASE v # w \/ d # c
      <3>1. window'[v].jobs[d] = window[v].jobs[d]
        BY <1>1, <2>2 DEF OnlyReports
      <3> QED  BY <1>1, <2>0, <2>1, <3>1, WorksStays
    <2>3. CASE v = w /\ d = c
      <3>1. window'[w].jobs[c] # "running"
        BY <1>1, Landings DEF OnlyReports
      <3> QED  BY <1>1, <1>4, <2>0, <2>1, <2>3, <3>1 DEF Works, Job
    <2> QED  BY <2>2, <2>3
  <1> QED  BY <1>1, <1>11, <1>12, SameIsSame, WindowsMove

LEMMA MineHolds ==
    ASSUME InTurn, "read" \notin Faults
    PROVE  Spec => [](TypeOK /\ Mine)
  <1>1. Init => Mine
    <2> SUFFICES ASSUME Init PROVE Mine
      OBVIOUS
    <2>1. /\ Command = NoFile /\ Result = NoFile /\ ResultTmp = NoFile
          /\ \A c \in Calls : At(c) = "unsent"
          /\ \A w \in Windows, c \in Calls : Job(w, c) = "none"
      BY OffType DEF Init, Command, Result, ResultTmp, FileNames, At, Job
    <2>2. Waits
      BY <2>1 DEF Waits
    <2>3. Command.whole /\ Tells(Result) /\ Tells(ResultTmp)
      BY <2>1 DEF NoFile, Tells
    <2> QED  BY <2>1, <2>2, <2>3 DEF Mine, Told, Sends, Works, Saving
  <1>2. TypeOK /\ Mine /\ [Next]_vars => Told'
    <2> SUFFICES ASSUME TypeOK, Mine, [Next]_vars PROVE Told'
      OBVIOUS
    <2>0. Told
      BY DEF Mine
    <2>1. UNCHANGED vars => Told'
      BY <2>0 DEF vars, Told, Sends, Tells, Works, At, Job, Command, CommandTmp, Result, ResultTmp
    <2>2. ASSUME NEW c \in Calls, Calling(c) \/ kill(c) PROVE Told'
      BY <2>0, <2>2, QuietCallsKeepTold, KillsKeepTold, SavesKeepTold DEF Calling
    <2>3. ASSUME NEW w \in Windows,
                 start(w) \/ attach(w) \/ watch_ui_command(w) \/ Answering(w) \/ stop(w)
          PROVE  Told'
      BY <2>0, <2>3, WindowsKeepTold, DispatchKeepsTold, ReportKeepsTold DEF Answering
    <2> QED  BY <2>1, <2>2, <2>3 DEF Next
  <1>3. TypeOK /\ Mine /\ [Next]_vars => Mine'
    BY <1>2, WaitsKept DEF Mine
  <1> QED  BY <1>1, <1>3, InitType, TypeKept, PTL DEF Spec

(***************************************************************************)
(* "A result that names an earlier command is not this command's result":  *)
(* an agent that was told its command succeeded was obeyed, with any       *)
(* number of windows on one profile that come, go and answer late, whoever *)
(* dies in the middle of a save.  Only calls made at the same time break   *)
(* it (UiTwoAgents), and a file that cannot be read for a moment.          *)
(***************************************************************************)
THEOREM SuccessIsOnesOwn ==
    ASSUME InTurn, "read" \notin Faults
    PROVE  Spec => []SuccessIsMine
  <1>1. Mine => SuccessIsMine
    BY DEF Mine, Told, Sends, SuccessIsMine, At
  <1> QED  BY <1>1, MineHolds, PTL

-------------------------------------------------------------------------------
(***************************************************************************)
(* With one window an answer is true both ways.  A command leaves a trace  *)
(* from the moment the window acts on it: a job, an answer, or the work    *)
(* itself.  One still to be acted on, or not sent yet, has left none, and  *)
(* an answer and the work it reports agree.                                *)
(***************************************************************************)
Acted(c) ==
    \/ c \in carried \/ Result.call = c \/ ResultTmp.call = c
    \/ \E w \in Windows : Job(w, c) # "none"
Sending == {"unsent", "number"} \cup Saving
TrueAnswer(r) == r.call \in Calls => (r.ok <=> r.call \in carried)
TrueJob(w, c) ==
    /\ Job(w, c) = "running" => c \notin carried /\ Result.call # c /\ ResultTmp.call # c
    /\ Job(w, c) \in Saving => (window[w].ok[c] <=> c \in carried)
    /\ ~window[w].up => Job(w, c) = "none"
Awaits(w, c) == window[w].up /\ window[w].last_acted < Command.seq /\ Command.call = c
RightlyRefused(w, c) ==
    At(c) = "refused" => c \notin carried /\ Job(w, c) # "running" /\ ~Awaits(w, c)
Truth ==
    /\ TrueAnswer(Result) /\ TrueAnswer(ResultTmp)
    /\ \A w \in Windows, c \in Calls :
          TrueJob(w, c) /\ RightlyRefused(w, c) /\ (Awaits(w, c) => ~Acted(c))
    /\ \A c \in Calls : At(c) \in Sending => ~Acted(c)
    /\ \A c \in Calls : At(c) = "refused" => c \notin carried

OneWindow == \A v, w \in Windows : v = w

LEMMA SameTrace ==
    ASSUME NEW c \in Calls, SameFile(Result', Result), SameFile(ResultTmp', ResultTmp),
           UNCHANGED <<window, carried>>
    PROVE  /\ Acted(c)' <=> Acted(c)
           /\ \A w \in Windows : TrueJob(w, c) => TrueJob(w, c)'
  BY DEF Acted, TrueJob, Job, SameFile

\* Steps of callers that write no command and take no answer.
LEMMA CallersKeepTruth ==
    ASSUME Truth, SameFile(Command', Command), SameFile(Result', Result),
           SameFile(ResultTmp', ResultTmp), UNCHANGED <<window, carried>>,
           \A c \in Calls : At(c)' \in Sending => At(c) \in Sending,
           \A c \in Calls : At(c)' = "refused" =>
              \/ At(c) = "refused"
              \/ /\ c \notin carried
                 /\ \A w \in Windows : Job(w, c) # "running" /\ ~Awaits(w, c)
    PROVE  Truth'
  <1>1. TrueAnswer(Result)' /\ TrueAnswer(ResultTmp)'
    BY DEF Truth, TrueAnswer, SameFile
  <1>2. \A w \in Windows, c \in Calls : Awaits(w, c)' <=> Awaits(w, c)
    BY DEF Awaits, SameFile
  <1>3. \A w \in Windows, c \in Calls : Job(w, c)' = Job(w, c)
    BY DEF Job
  <1>4. ASSUME NEW w \in Windows, NEW c \in Calls
        PROVE  /\ TrueJob(w, c)' /\ RightlyRefused(w, c)'
               /\ Awaits(w, c)' => ~Acted(c)'
    <2>1. TrueJob(w, c)'
      BY SameTrace DEF Truth
    <2>2. RightlyRefused(w, c)'
      BY <1>2, <1>3 DEF Truth, RightlyRefused
    <2>3. Awaits(w, c)' => ~Acted(c)'
      BY <1>2, SameTrace DEF Truth
    <2> QED  BY <2>1, <2>2, <2>3
  <1>5. \A c \in Calls : At(c)' \in Sending => ~Acted(c)'
    BY SameTrace DEF Truth
  <1>6. \A c \in Calls : At(c)' = "refused" => c \notin carried'
    BY DEF Truth
  <1> QED  BY <1>1, <1>4, <1>5, <1>6 DEF Truth

LEMMA CallsKeepTruth ==
    ASSUME "read" \notin Faults, TypeOK, Mine, Truth, NEW c \in Calls,
           Calling(c) \/ kill(c)
    PROVE  Truth'
  <1>1. CASE read_command(c) \/ number(c) \/ give_up(c)
    <2>1. UNCHANGED <<window, path, tmp, carried>>
      BY <1>1 DEF read_command, number, give_up
    <2>2. At(c) \in Sending \/ At(c)' = "no_response"
      BY <1>1, ReadingTheNumber, Numbering, GivingUp DEF Sending, At, OnlyMoves
    <2>3. At(c)' # "refused"
      BY <1>1, ReadingTheNumber, Numbering, GivingUp DEF At, OnlyMoves
    <2>4. \A d \in Calls \ {c} : At(d)' = At(d)
      BY <1>1, CallsGoForward DEF Calling
    <2>5. "no_response" \notin Sending
      BY DEF Sending, Saving
    <2> QED  BY <2>1, <2>2, <2>3, <2>4, <2>5, FilesStay, CallersKeepTruth
  <1>2. CASE poll(c)
    <2>1. UNCHANGED <<window, path, tmp, carried>>
      BY <1>2 DEF poll
    <2>2. PICK file \in load_or_default(Result) :
            /\ file.seq = caller[c].seq
            /\ OnlyMoves(c, IF file.ok THEN "ok" ELSE "refused")
      BY <1>2, Polling
    <2>3. At(c) = "waiting"
      BY <1>2, Polling
    <2>4. Command.call = c /\ file.seq = Command.seq /\ file.seq > 0
      BY <2>2, <2>3 DEF Mine, Told, Sends
    <2>5. file = Result
      BY <2>4, Loaded, FileTypes DEF NoFile, Files, Seqs
    <2>6. Result.call = c
      BY <2>4, <2>5 DEF Mine, Told, Tells
    <2>7. At(c)' = (IF Result.ok THEN "ok" ELSE "refused") /\ \A d \in Calls \ {c} : At(d)' = At(d)
      BY <2>2, <2>5 DEF OnlyMoves, At
    <2>8. At(c)' = "refused" =>
            /\ c \notin carried
            /\ \A w \in Windows : Job(w, c) # "running" /\ ~Awaits(w, c)
      <3> SUFFICES ASSUME At(c)' = "refused", NEW w \in Windows
                   PROVE  c \notin carried /\ Job(w, c) # "running" /\ ~Awaits(w, c)
        BY <2>6, <2>7 DEF Truth, TrueAnswer
      <3>1. c \notin carried
        BY <2>6, <2>7 DEF Truth, TrueAnswer
      <3>2. Job(w, c) # "running"
        BY <2>6 DEF Truth, TrueJob
      <3>3. Acted(c)
        BY <2>6 DEF Acted
      <3> QED  BY <3>1, <3>2, <3>3 DEF Truth
    <2>9. "ok" \notin Sending /\ "refused" \notin Sending
      BY DEF Sending, Saving
    <2> QED  BY <2>1, <2>7, <2>8, <2>9, FilesStay, CallersKeepTruth
  <1>3. CASE kill(c)
    <2>1. orphan({c}) /\ UNCHANGED <<window, carried>>
      BY <1>3 DEF kill
    <2>2. At(c)' = "killed" /\ \A d \in Calls \ {c} : At(d)' = At(d)
      BY <1>3, Killing DEF OnlyMoves, At
    <2>3. "killed" \notin Sending
      BY DEF Sending, Saving
    <2> QED  BY <2>1, <2>2, <2>3, DeathKeepsFiles, CallersKeepTruth
  <1>4. CASE save_command(c)
    <2>1. PICK end \in Ends :
              /\ FileStep("command", At(c), OwnFile(c), end)
              /\ At(c) \in Saving /\ OnlyMoves(c, Landing(end))
              /\ Result' = Result /\ ResultTmp' = ResultTmp
              /\ UNCHANGED <<window, taken, carried>>
      BY <1>4, SavingACommand
    <2>2. /\ path'["command"] = Command' /\ tmp'["command"] = CommandTmp'
          /\ path["command"] = Command /\ tmp["command"] = CommandTmp
      BY DEF Command, CommandTmp
    <2>3. At(c)' = Landing(end) /\ \A d \in Calls \ {c} : At(d)' = At(d)
      BY <2>1 DEF OnlyMoves, At
    <2>4. Landing(end) # "refused" /\ At(c) \in Sending
      BY <2>1 DEF Ends, Landing, Sending
    <2>5. CASE end # "saved"
      <3>1. Command' \in {Command, closed(Command, c)}
        BY <2>1, <2>2, <2>5 DEF FileStep, OwnFile, Written
      <3>2. SameFile(Command', Command)
        BY <3>1, ClosedKeeps, SameIsSame, FileTypes
      <3> QED  BY <2>1, <2>3, <2>4, <3>2, SameIsSame, CallersKeepTruth
    <2>6. CASE end = "saved"
      <3>1. At(c) = "rename" /\ At(c)' = "waiting" /\ Command' = CommandTmp
        BY <2>1, <2>2, <2>3, <2>6 DEF FileStep, Landing
      <3>2. Command'.call = c
        BY <3>1 DEF Mine, Told, Sends
      <3>3. \A d \in Calls : Acted(d)' <=> Acted(d)
        BY <2>1, SameIsSame, SameTrace
      <3>4. ~Acted(c)
        BY <2>4 DEF Truth
      <3>5. ASSUME NEW w \in Windows, NEW d \in Calls
            PROVE  /\ TrueJob(w, d)' /\ RightlyRefused(w, d)'
                   /\ Awaits(w, d)' => ~Acted(d)'
        <4>1. TrueJob(w, d)'
          BY <2>1, SameIsSame, SameTrace DEF Truth
        <4>2. d # c => ~Awaits(w, d)'
          BY <3>2 DEF Awaits
        <4>3. Job(w, d)' = Job(w, d) /\ carried' = carried
          BY <2>1 DEF Job
        <4>4. RightlyRefused(w, d)'
          BY <2>3, <3>1, <4>2, <4>3 DEF Truth, RightlyRefused
        <4> QED  BY <3>3, <3>4, <4>1, <4>2, <4>4
      <3>6. TrueAnswer(Result)' /\ TrueAnswer(ResultTmp)'
        BY <2>1 DEF Truth, TrueAnswer
      <3>7. \A d \in Calls : At(d)' \in Sending => ~Acted(d)'
        BY <2>3, <2>4, <3>1, <3>3 DEF Truth
      <3>8. \A d \in Calls : At(d)' = "refused" => d \notin carried'
        BY <2>1, <2>3, <3>1 DEF Truth
      <3> QED  BY <3>5, <3>6, <3>7, <3>8 DEF Truth
    <2> QED  BY <2>5, <2>6
  <1> QED  BY <1>1, <1>2, <1>3, <1>4 DEF Calling

LEMMA StartsKeepTruth ==
    ASSUME "read" \notin Faults, OneWindow, TypeOK, Mine, Truth, NEW w \in Windows,
           start(w) \/ stop(w)
    PROVE  Truth'
  <1>1. UNCHANGED <<caller, carried>>
    BY DEF start, stop
  <1>2. /\ SameFile(Command', Command) /\ SameFile(Result', Result)
        /\ SameFile(ResultTmp', ResultTmp)
    <2>1. UNCHANGED <<path, tmp>> \/ orphan({w} \X Calls)
      BY DEF start, stop
    <2> QED  BY <2>1, FilesStay, DeathKeepsFiles
  <1>3. \A v \in Windows, c \in Calls : Job(v, c)' = "none"
    BY Starting, Stopping DEF OneWindow, Job
  <1>4. \A v \in Windows, c \in Calls : ~Awaits(v, c)'
    <2>1. CASE start(w)
      <3>1. window'[w].last_acted = Command.seq
        BY <2>1, Starting, Loaded DEF Mine, Told
      <3>2. Command.seq \in Nat /\ Command'.seq = Command.seq
        BY <1>2, FileTypes DEF SameFile, Files, Seqs
      <3> QED  BY <3>1, <3>2 DEF OneWindow, Awaits
    <2>2. CASE stop(w)
      BY <2>2, Stopping DEF OneWindow, Awaits
    <2> QED  BY <2>1, <2>2
  <1>5. \A c \in Calls : Acted(c)' => Acted(c)
    BY <1>1, <1>2, <1>3 DEF Acted, SameFile
  <1>6. TrueAnswer(Result)' /\ TrueAnswer(ResultTmp)'
    BY <1>1, <1>2 DEF Truth, TrueAnswer, SameFile
  <1>7. \A v \in Windows, c \in Calls : TrueJob(v, c)'
    BY <1>3 DEF TrueJob, Saving
  <1>8. \A v \in Windows, c \in Calls : RightlyRefused(v, c)'
    BY <1>1, <1>3, <1>4 DEF Truth, RightlyRefused, At
  <1>9. \A c \in Calls : At(c)' \in Sending => ~Acted(c)'
    BY <1>1, <1>5 DEF Truth, At
  <1> QED  BY <1>1, <1>4, <1>6, <1>7, <1>8, <1>9 DEF Truth, At

LEMMA AttachKeepsTruth ==
    ASSUME TypeOK, Truth, NEW w \in Windows, attach(w)
    PROVE  Truth'
  <1>1. UNCHANGED <<caller, path, tmp, carried>>
    BY DEF attach
  <1>2. /\ Command' = Command /\ Result' = Result /\ ResultTmp' = ResultTmp
        /\ \A c \in Calls : At(c)' = At(c)
    BY <1>1 DEF Command, Result, ResultTmp, At
  <1>3. \A v \in Windows, c \in Calls :
           /\ Job(v, c)' = Job(v, c) /\ window'[v].ok[c] = window[v].ok[c]
           /\ window'[v].up = window[v].up /\ window'[v].last_acted = window[v].last_acted
    BY Attaching DEF Job
  <1>4. \A c \in Calls : Acted(c)' <=> Acted(c)
    BY <1>1, <1>2, <1>3 DEF Acted
  <1>5. \A v \in Windows, c \in Calls : Awaits(v, c)' <=> Awaits(v, c)
    BY <1>2, <1>3 DEF Awaits
  <1>6. \A v \in Windows, c \in Calls : TrueJob(v, c)' /\ RightlyRefused(v, c)'
    BY <1>1, <1>2, <1>3, <1>5 DEF Truth, TrueJob, RightlyRefused
  <1> QED  BY <1>1, <1>2, <1>4, <1>5, <1>6 DEF Truth, TrueAnswer

\* What the watcher hands over had left no trace: it was neither being sent
\* nor refused.
LEMMA WatchKeepsTruth ==
    ASSUME OneWindow, TypeOK, Once, Mine, Truth, NEW w \in Windows, watch_ui_command(w)
    PROVE  Truth'
  <1>0. PICK x \in Calls : x = Command.call
    BY Watching
  <1>1. UNCHANGED <<caller, path, tmp, carried>>
    BY DEF watch_ui_command
  <1>2. /\ Command' = Command /\ Result' = Result /\ ResultTmp' = ResultTmp
        /\ \A c \in Calls : At(c)' = At(c)
    BY <1>1 DEF Command, Result, ResultTmp, At
  <1>3. /\ window[w].up /\ Command.seq > window[w].last_acted
        /\ \E at \in {"running", "none", "remove"} : Hands(w, x, at)
    BY <1>0, Watching
  <1>4. PICK at \in {"running", "none", "remove"} : Hands(w, x, at)
    BY <1>3
  <1>5. Command.seq \in Nat /\ window[w].last_acted \in Nat
    BY FileTypes DEF Files, Seqs, TypeOK, Desktops
  <1>6. Awaits(w, x)
    BY <1>0, <1>3, <1>5 DEF Awaits
  <1>7. ~Acted(x) /\ At(x) # "refused"
    BY <1>6 DEF Truth, RightlyRefused
  <1>8. At(x) \notin Sending
    <2>1. At(x) \notin Early
      BY <1>0 DEF Once, Unwritten
    <2>2. At(x) \notin {"write", "rename"}
      BY <1>0 DEF Once, Unsent, Mine, Told, Sends
    <2> QED  BY <2>1, <2>2 DEF Early, Sending, Saving
  <1>9. \A v \in Windows : v = w
    BY DEF OneWindow
  <1>10. /\ window'[w].up /\ window'[w].last_acted = Command.seq
         /\ Job(w, x)' = at /\ ~window'[w].ok[x]
         /\ \A d \in Calls \ {x} : Job(w, d)' = Job(w, d) /\ window'[w].ok[d] = window[w].ok[d]
    BY <1>4 DEF Hands, Job
  <1>11. \A d \in Calls \ {x} : Acted(d)' <=> Acted(d)
    BY <1>1, <1>2, <1>9, <1>10 DEF Acted
  <1>12. \A v \in Windows, d \in Calls : ~Awaits(v, d)'
    BY <1>2, <1>5, <1>9, <1>10 DEF Awaits
  <1>13. TrueJob(w, x)'
    BY <1>1, <1>2, <1>7, <1>10 DEF TrueJob, Acted
  <1>14. \A d \in Calls \ {x} : TrueJob(w, d)'
    BY <1>1, <1>2, <1>3, <1>10 DEF Truth, TrueJob
  <1>15. \A d \in Calls : RightlyRefused(w, d)'
    BY <1>1, <1>2, <1>7, <1>9, <1>10, <1>12 DEF Truth, RightlyRefused
  <1>16. \A v \in Windows, d \in Calls : TrueJob(v, d)' /\ RightlyRefused(v, d)'
    BY <1>9, <1>13, <1>14, <1>15
  <1>17. \A d \in Calls : At(d)' \in Sending => ~Acted(d)'
    BY <1>2, <1>8, <1>11 DEF Truth
  <1> QED  BY <1>1, <1>2, <1>12, <1>16, <1>17 DEF Truth, TrueAnswer

LEMMA DispatchKeepsTruth ==
    ASSUME OneWindow, TypeOK, Mine, Truth, NEW w \in Windows, NEW c \in Calls, dispatch(w, c)
    PROVE  Truth'
  <1>1. UNCHANGED <<caller, path, tmp>>
    BY DEF dispatch
  <1>2. /\ Command' = Command /\ Result' = Result /\ ResultTmp' = ResultTmp
        /\ \A d \in Calls : At(d)' = At(d)
    BY <1>1 DEF Command, Result, ResultTmp, At
  <1>3. \A v \in Windows : v = w
    BY DEF OneWindow
  <1>4. /\ Job(w, c) = "running" /\ Job(w, c)' = "remove"
        /\ \/ window'[w].ok[c] /\ carried' = carried \cup {c}
           \/ window'[w].ok[c] = window[w].ok[c] /\ carried' = carried
        /\ \A d \in Calls \ {c} : Job(w, d)' = Job(w, d) /\ window'[w].ok[d] = window[w].ok[d]
        /\ window'[w].up = window[w].up /\ window'[w].last_acted = window[w].last_acted
    BY Dispatching DEF Job
  <1>5. c \notin carried /\ Result.call # c /\ ResultTmp.call # c /\ window[w].up
    BY <1>4 DEF Truth, TrueJob
  <1>6. ~window[w].ok[c]
    BY <1>4 DEF Mine, Told, Works
  <1>7. Acted(c) /\ At(c) \notin Sending /\ At(c) # "refused"
    BY <1>4 DEF Truth, Acted, RightlyRefused
  <1>8. \A d \in Calls \ {c} : (d \in carried' <=> d \in carried) /\ (Acted(d)' <=> Acted(d))
    BY <1>2, <1>3, <1>4 DEF Acted
  <1>9. \A d \in Calls : Awaits(w, d)' <=> Awaits(w, d)
    BY <1>2, <1>4 DEF Awaits
  <1>10. TrueAnswer(Result)' /\ TrueAnswer(ResultTmp)'
    BY <1>2, <1>5, <1>8 DEF Truth, TrueAnswer
  <1>11. TrueJob(w, c)'
    BY <1>4, <1>5, <1>6 DEF TrueJob, Saving
  <1>12. \A d \in Calls \ {c} : TrueJob(w, d)'
    BY <1>2, <1>4, <1>8 DEF Truth, TrueJob
  <1>13. \A d \in Calls : RightlyRefused(w, d)'
    BY <1>2, <1>4, <1>7, <1>8, <1>9 DEF Truth, RightlyRefused
  <1>14. \A d \in Calls : Awaits(w, d)' => ~Acted(d)'
    BY <1>7, <1>8, <1>9 DEF Truth
  <1>15. \A d \in Calls : At(d)' \in Sending => ~Acted(d)'
    BY <1>2, <1>7, <1>8 DEF Truth
  <1>16. \A d \in Calls : At(d)' = "refused" => d \notin carried'
    BY <1>2, <1>7, <1>8 DEF Truth
  <1> QED  BY <1>3, <1>10, <1>11, <1>12, <1>13, <1>14, <1>15, <1>16 DEF Truth

\* An answer being saved is a trace of its call already.
LEMMA ReportKeepsTruth ==
    ASSUME OneWindow, TypeOK, Mine, Truth, NEW w \in Windows, NEW c \in Calls, report(w, c)
    PROVE  Truth'
  <1>1. PICK end \in Ends :
            /\ FileStep("result", Job(w, c), Answer(w, c), end)
            /\ Job(w, c) \in Saving /\ OnlyReports(w, c, Reported(end))
            /\ Command' = Command /\ CommandTmp' = CommandTmp
            /\ UNCHANGED <<caller, taken, carried>>
    BY Reporting
  <1>2. /\ path'["result"] = Result' /\ tmp'["result"] = ResultTmp'
        /\ path["result"] = Result /\ tmp["result"] = ResultTmp
    BY DEF Result, ResultTmp
  <1>3. \A v \in Windows : v = w
    BY DEF OneWindow
  <1>4. \A d \in Calls : At(d)' = At(d)
    BY <1>1 DEF At
  <1>5. /\ Job(w, c)' = Reported(end) /\ window'[w].up = window[w].up
        /\ window'[w].last_acted = window[w].last_acted
        /\ \A d \in Calls : window'[w].ok[d] = window[w].ok[d]
        /\ \A d \in Calls \ {c} : Job(w, d)' = Job(w, d)
    BY <1>1 DEF OnlyReports, Job
  <1>6. Job(w, c) # "none" /\ Job(w, c) # "running" /\ window[w].up
        /\ (window[w].ok[c] <=> c \in carried)
    BY <1>1 DEF Truth, TrueJob, Saving
  <1>7. Acted(c)
    BY <1>6 DEF Acted
  <1>8. /\ SameFile(closed(Result, <<w, c>>), Result)
        /\ SameFile(closed(ResultTmp, <<w, c>>), ResultTmp)
    BY ClosedKeeps, FileTypes
  <1>9. Answer(w, c).call = c /\ (Answer(w, c).ok <=> c \in carried)
    BY <1>6 DEF Answer, Written
  <1>10. /\ Result' \in {Result, ResultTmp, closed(Result, <<w, c>>)}
         /\ ResultTmp' \in {ResultTmp, NoFile, Answer(w, c), closed(ResultTmp, <<w, c>>)}
    BY <1>1, <1>2 DEF FileStep, Answer, Written
  <1>11. Result'.call \in {Result.call, ResultTmp.call}
    BY <1>8, <1>10 DEF SameFile
  <1>12. ResultTmp'.call \in {ResultTmp.call, Nobody, c}
    BY <1>8, <1>9, <1>10, NoFileType DEF SameFile
  <1>13. \A d \in Calls : d # Nobody
    BY WriterAssumption
  <1>14. \A d \in Calls : Acted(d)' => Acted(d)
    <2>1. ASSUME NEW d \in Calls, d # c, Acted(d)' PROVE Acted(d)
      BY <1>1, <1>3, <1>5, <1>11, <1>12, <1>13, <2>1 DEF Acted
    <2> QED  BY <1>7, <2>1
  <1>15. TrueAnswer(Result)' /\ TrueAnswer(ResultTmp)'
    <2>1. TrueAnswer(Result) /\ TrueAnswer(ResultTmp) /\ TrueAnswer(Answer(w, c))
      BY <1>9 DEF Truth, TrueAnswer
    <2>2. TrueAnswer(NoFile)
      BY NoFileType, WriterAssumption DEF TrueAnswer
    <2>3. TrueAnswer(closed(Result, <<w, c>>)) /\ TrueAnswer(closed(ResultTmp, <<w, c>>))
      BY <1>8, <2>1 DEF TrueAnswer, SameFile
    <2>4. TrueAnswer(Result') /\ TrueAnswer(ResultTmp')
      BY <1>10, <2>1, <2>2, <2>3
    <2> QED  BY <1>1, <2>4 DEF TrueAnswer
  <1>16. \A d \in Calls : Awaits(w, d)' <=> Awaits(w, d)
    BY <1>1, <1>5 DEF Awaits
  <1>17. ASSUME NEW d \in Calls PROVE TrueJob(w, d)'
    <2>1. TrueJob(w, d)
      BY DEF Truth
    <2>2. CASE d = c
      <3>1. Job(w, c)' # "running"
        BY <1>1, <1>5, Landings
      <3> QED  BY <1>1, <1>5, <1>6, <2>2, <3>1 DEF TrueJob
    <2>3. CASE d # c
      BY <1>1, <1>5, <1>11, <1>12, <1>13, <2>1, <2>3 DEF TrueJob
    <2> QED  BY <2>2, <2>3
  <1>18. ASSUME NEW d \in Calls PROVE RightlyRefused(w, d)'
    <2>1. Job(w, d)' = "running" => Job(w, d) = "running"
      BY <1>1, <1>5, Landings
    <2> QED  BY <1>1, <1>4, <1>16, <2>1 DEF Truth, RightlyRefused
  <1>19. \A d \in Calls : Awaits(w, d)' => ~Acted(d)'
    BY <1>14, <1>16 DEF Truth
  <1>20. \A d \in Calls : At(d)' \in Sending => ~Acted(d)'
    BY <1>4, <1>14 DEF Truth
  <1>21. \A d \in Calls : At(d)' = "refused" => d \notin carried'
    BY <1>1, <1>4 DEF Truth
  <1> QED  BY <1>3, <1>15, <1>17, <1>18, <1>19, <1>20, <1>21 DEF Truth

(***************************************************************************)
(* With one window an agent that was told its command was refused knows    *)
(* that it was not carried out and never will be, and one that was told it *)
(* succeeded was obeyed.  The page answers only when the work is over, and *)
(* a window that comes up takes what is on disk for handled.  With two     *)
(* windows on one profile the second may still obey what the first         *)
(* refused.                                                                *)
(***************************************************************************)
THEOREM AnswersAreTrue ==
    ASSUME InTurn, OneWindow, "read" \notin Faults
    PROVE  Spec => []AnswerIsTrue
  <1>1. Init => Truth
    <2> SUFFICES ASSUME Init PROVE Truth
      OBVIOUS
    <2>1. /\ Result = NoFile /\ ResultTmp = NoFile /\ carried = {}
          /\ \A c \in Calls : At(c) = "unsent"
          /\ \A w \in Windows, c \in Calls : Job(w, c) = "none" /\ ~window[w].up
      BY OffType DEF Init, Result, ResultTmp, FileNames, At, Job
    <2>2. NoFile.call \notin Calls
      BY NoFileType, WriterAssumption
    <2>3. \A c \in Calls : ~Acted(c)
      BY <2>1, <2>2 DEF Acted
    <2> QED  BY <2>1, <2>2, <2>3
             DEF Truth, TrueAnswer, TrueJob, RightlyRefused, Awaits, Saving
  <1>2. TypeOK /\ Once /\ Mine /\ Truth /\ [Next]_vars => Truth'
    <2> SUFFICES ASSUME TypeOK, Once, Mine, Truth, [Next]_vars PROVE Truth'
      OBVIOUS
    <2>1. UNCHANGED vars => Truth'
      BY DEF vars, Truth, TrueAnswer, TrueJob, RightlyRefused, Awaits, Acted, At, Job,
             Command, Result, ResultTmp
    <2>2. ASSUME NEW c \in Calls, Calling(c) \/ kill(c) PROVE Truth'
      BY <2>2, CallsKeepTruth
    <2>3. ASSUME NEW w \in Windows,
                 start(w) \/ attach(w) \/ watch_ui_command(w) \/ Answering(w) \/ stop(w)
          PROVE  Truth'
      BY <2>3, StartsKeepTruth, AttachKeepsTruth, WatchKeepsTruth, DispatchKeepsTruth,
         ReportKeepsTruth DEF Answering
    <2> QED  BY <2>1, <2>2, <2>3 DEF Next
  <1>3. Mine /\ Truth => AnswerIsTrue
    BY DEF Mine, Told, Sends, Truth, AnswerIsTrue, SuccessIsMine, At
  <1> QED  BY <1>1, <1>2, <1>3, OnceHolds, MineHolds, PTL DEF Spec
===============================================================================
