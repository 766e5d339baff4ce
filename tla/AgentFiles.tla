------------------------------ MODULE AgentFiles ------------------------------
(***************************************************************************)
(* What dbboard-mcp hands an agent besides answers: sealed bundles         *)
(* (export.rs) and pictures of the window (capture.rs).                    *)
(*                                                                         *)
(* The exporters are processes of their own that meet in one directory     *)
(* within one second.  Each seals under a passphrase of its own, here the  *)
(* exporter's name.  Any of them may die between two of its steps.         *)
(***************************************************************************)
EXTENDS Integers, FiniteSets, Sequences

CONSTANTS Exporters,
          MaxNameAttempts,
          Edges,      \* how long the edges of a window may be
          MaxEdges    \* the sizes an agent may ask a picture to have at most

VARIABLES bundles,   \* what is in the directory under each name
          slots,     \* the passphrase stored under each name
          exporter,
          shot       \* the picture taken last, and what was on screen

FileVars == <<bundles, slots, exporter, shot>>

Names == 1 .. MaxNameAttempts
Nobody == "nobody"
Nothing == [sealed |-> Nobody, whole |-> FALSE, there |-> FALSE]
Empty == [Nothing EXCEPT !.there = TRUE]

---------------------------------------------------------------------------
(* export_named. *)

\* Mutant: the passphrase is stored once the bundle is written.
written_first == <<"seal", "reserve", "write", "sync", "store", "done">>
order_of_operations == <<"seal", "reserve", "store", "write", "sync", "done">>
then(step) ==
    order_of_operations[1 + CHOOSE i \in 1 .. Len(order_of_operations) :
                                order_of_operations[i] = step]

\* An existing file is not written over.
create_new(name) == ~bundles[name].there

at(a, step) == exporter[a].at = step
goes_on(a, step) == exporter' = [exporter EXCEPT ![a].at = then(step)]
ends(a) == exporter' = [exporter EXCEPT ![a].at = "ended"]

\* The permission, the directory, the selection and the secrets are read, and
\* the ciphertext is built; any of them may refuse.
seal(a) ==
    /\ at(a, "seal")
    /\ goes_on(a, "seal") \/ ends(a)
    /\ UNCHANGED <<bundles, slots>> /\ UNCHANGED shot

\* reserve: the next name, until one is free.
reserve(a) ==
    /\ at(a, "reserve")
    /\ LET name == exporter[a].name
       IN  IF create_new(name)
           THEN bundles' = [bundles EXCEPT ![name] = Empty] /\ goes_on(a, "reserve")
           ELSE /\ UNCHANGED bundles
                /\ IF name = MaxNameAttempts THEN ends(a)
                   ELSE exporter' = [exporter EXCEPT ![a].name = @ + 1]
    /\ UNCHANGED slots /\ UNCHANGED shot

\* remove_file, whose own failure is passed over.
gives_up(a) ==
    /\ ends(a)
    /\ \/ bundles' = [bundles EXCEPT ![exporter[a].name] = Nothing]
       \/ UNCHANGED bundles

store(a) ==
    /\ at(a, "store")
    /\ \/ slots' = [slots EXCEPT ![exporter[a].name] = a] /\ goes_on(a, "store") /\ UNCHANGED bundles
       \/ gives_up(a) /\ UNCHANGED slots
    /\ UNCHANGED shot

write(a) ==
    /\ at(a, "write")
    /\ \/ /\ bundles' = [bundles EXCEPT ![exporter[a].name] = [Empty EXCEPT !.sealed = a]]
          /\ goes_on(a, "write")
       \/ gives_up(a)
    /\ UNCHANGED slots /\ UNCHANGED shot

sync(a) ==
    /\ at(a, "sync")
    /\ \/ bundles' = [bundles EXCEPT ![exporter[a].name].whole = TRUE] /\ goes_on(a, "sync")
       \/ gives_up(a)
    /\ UNCHANGED slots /\ UNCHANGED shot

dies(a) ==
    /\ exporter[a].at \notin {"ended", "done"} /\ ends(a)
    /\ UNCHANGED <<bundles, slots>> /\ UNCHANGED shot

export_named(a) == seal(a) \/ reserve(a) \/ store(a) \/ write(a) \/ sync(a) \/ dies(a)

---------------------------------------------------------------------------
(* capture_window. *)

\* A window that went away between two questions answers as one that is
\* minimised and nobody's.
Windows == {w \in [app : {"dbboard", "dbboard-desktop", "terminal", ""},
                   width : Edges, height : Edges, minimized : BOOLEAN] :
               w.app = "" => w.minimized}

AppNames == {"dbboard", "dbboard-desktop"}
candidates(windows) == {w \in windows : w.app \in AppNames}
visible(windows) == {w \in candidates(windows) : ~w.minimized}
area(w) == w.width * w.height

\* The largest that can be seen.
select_window(windows) ==
    {w \in visible(windows) : \A o \in visible(windows) : area(o) <= area(w)}

longest(w) == IF w.width < w.height THEN w.height ELSE w.width

\* Half up, and at least one.
scaled(v, long, max_edge) ==
    LET r == (v * max_edge + long \div 2) \div long IN IF r < 1 THEN 1 ELSE r

scale_to_fit(w, max_edge) ==
    IF max_edge = 0 \/ longest(w) <= max_edge THEN [width |-> w.width, height |-> w.height]
    ELSE [width |-> scaled(w.width, longest(w), max_edge),
          height |-> scaled(w.height, longest(w), max_edge)]

NoShot == [of |-> {}, error |-> "none", on_screen |-> {}, max_edge |-> 0, size |-> <<>>]

capture_window ==
    /\ \E w \in Windows : \E other \in Windows : \E max_edge \in MaxEdges :
         LET windows == {w, other}
             taken == [NoShot EXCEPT !.on_screen = windows, !.max_edge = max_edge]
         IN  IF candidates(windows) = {}
             THEN shot' = [taken EXCEPT !.error = "absent"]
             ELSE IF select_window(windows) = {}
             THEN shot' = [taken EXCEPT !.error = "minimised"]
             ELSE \E chosen \in select_window(windows) :
                    shot' = [taken EXCEPT !.of = {chosen}, !.size = scale_to_fit(chosen, max_edge)]
    /\ UNCHANGED <<bundles, slots, exporter>>

---------------------------------------------------------------------------
FileInit ==
    /\ bundles = [n \in Names |-> Nothing] /\ slots = [n \in Names |-> Nobody]
    /\ exporter = [a \in Exporters |-> [at |-> "seal", name |-> 1]]
    /\ shot = NoShot

FileNext ==
    \/ \E a \in Exporters : export_named(a)
    \/ capture_window

FileSpec == FileInit /\ [][FileNext]_FileVars

---------------------------------------------------------------------------
(* What the operator and the agent rely on. *)

\* A sealed bundle in the directory can be opened: the slot of its name holds
\* the passphrase it was sealed under, whichever exporters met in that second
\* and wherever one of them stopped (export.rs: "no unopenable file survives
\* a failure").
BundleOpens ==
    \A n \in Names : bundles[n].whole => slots[n] = bundles[n].sealed

\* A picture is of a window of the app that can be seen, whenever there is
\* one, its edges are there and within what was asked for, and its shape is
\* the window's to half a pixel (capture.rs select_window, scale_to_fit).
PictureIsOfTheApp ==
    LET w == CHOOSE w \in shot.of : TRUE
        keeps(side, edge) == 2 * side * longest(w) <= 2 * edge * shot.max_edge + longest(w)
                             \/ side = 1
    IN  shot # NoShot =>
           IF shot.of = {} THEN visible(shot.on_screen) = {}
           ELSE /\ w \in visible(shot.on_screen)
                /\ shot.size.width >= 1 /\ shot.size.height >= 1
                /\ shot.size.width <= w.width /\ shot.size.height <= w.height
                /\ shot.max_edge # 0 =>
                      /\ longest(shot.size) <= shot.max_edge
                      /\ longest(w) > shot.max_edge =>
                            keeps(shot.size.width, w.width) /\ keeps(shot.size.height, w.height)
=============================================================================
