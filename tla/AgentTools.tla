------------------------------ MODULE AgentTools ------------------------------
(***************************************************************************)
(* dbboard-mcp's tools on the connection list (server.rs, service.rs).     *)
(*                                                                         *)
(* An agent names a connection by its handle: the alias its operator gave  *)
(* it, or its id where there is none.  Every tool turns the handles it was *)
(* sent into ids, one read of the file for each, then acts, and the tools  *)
(* that change the list answer with the list read anew.  The operator      *)
(* edits the file between any two of those reads.  Import and editing the  *)
(* file by hand are left out: neither checks that a handle is free.        *)
(***************************************************************************)
EXTENDS Integers, FiniteSets, SequencesExt

CONSTANTS Ids, Aliases, NoAlias, MaxEdits

VARIABLES list,    \* connections.toml: a row is an id, its alias, whether writes are open
          call,    \* the tool call under way
          told,    \* what the last call was answered
          edits,   \* how often the operator has edited the file
          sorting  \* the order the agent wants, how far it is, and edits as it began

ToolVars == <<list, call, told, edits, sorting>>

Handles == Ids \union Aliases
Row(id) == [id |-> id, alias |-> NoAlias, open |-> FALSE, marked |-> FALSE]
ids_of(rows) == {rows[i].id : i \in DOMAIN rows}

NoTool == [tool |-> "none", at |-> "idle", handles |-> <<>>, ids |-> <<>>, position |-> 0]
Answer(tool, error, ids) == [tool |-> tool, error |-> error, ids |-> ids]

handle_is_free(rows, handle, owner) ==
    \A i \in DOMAIN rows : rows[i].id # owner => handle \notin {rows[i].id, rows[i].alias}

---------------------------------------------------------------------------
(* Handles. *)

handle_of(row) == IF row.alias = NoAlias THEN row.id ELSE row.alias

answers_to(row, handle) == handle = handle_of(row)

\* resolve_agent_handle: the first row that answers.
rows_answering(rows, handle) == {i \in DOMAIN rows : answers_to(rows[i], handle)}
resolve_agent_handle(rows, handle) ==
    rows[CHOOSE i \in rows_answering(rows, handle) :
             \A j \in rows_answering(rows, handle) : i <= j].id

\* list_agent_connections: the handle of every row, at its position.
list_agent_connections(rows) == [i \in DOMAIN rows |-> handle_of(rows[i])]

list_of(handles) == {handles[i] : i \in DOMAIN handles}

---------------------------------------------------------------------------
ToolInit ==
    /\ \E order \in SetToAllKPermutations(Ids) : \E aliased \in Ids : \E alias \in Aliases \union {NoAlias} :
          list = [i \in DOMAIN order |-> [Row(order[i]) EXCEPT
                     !.alias = IF order[i] = aliased THEN alias ELSE NoAlias]]
    /\ call = NoTool /\ told = Answer("none", "none", {}) /\ edits = 0
    /\ sorting = [order |-> <<>>, next |-> 1, since |-> 0]

answered(error, ids) ==
    /\ told' = Answer(call.tool, error, ids)
    /\ call' = NoTool

\* A tool is called; the list tool needs no handle and answers at once.
Naming == {"search", "write", "mark", "move", "export"}
tool_called ==
    /\ call.at = "idle" /\ sorting.order = <<>>
    /\ \E tool \in Naming : \E handles \in SeqOf(Handles, IF tool = "export" THEN 2 ELSE 1) :
         \E position \in IF tool = "move" THEN 0 .. Cardinality(Ids) ELSE {0} :
            /\ handles # <<>>
            /\ call' = [tool |-> tool, at |-> "resolve", handles |-> handles, ids |-> <<>>,
                        position |-> position]
    /\ UNCHANGED <<list, told, edits, sorting>>

list_connections ==
    /\ call.at = "idle"
    /\ told' = Answer("list", "none", list_of(list_agent_connections(list)))
    /\ UNCHANGED <<list, call, edits, sorting>>

resolve_handle ==
    /\ call.at = "resolve"
    /\ LET handle == Head(call.handles)
           left == Tail(call.handles)
       IN  IF rows_answering(list, handle) = {}
           THEN answered("not found", {handle})
           ELSE /\ call' = [call EXCEPT !.handles = left,
                                !.ids = Append(@, resolve_agent_handle(list, handle)),
                                !.at = IF left = <<>> THEN "act" ELSE "resolve"]
                /\ UNCHANGED told
    /\ UNCHANGED <<list, edits, sorting>>

acts(tools) == call.at = "act" /\ call.tool \in tools
the_row == CHOOSE i \in DOMAIN list : list[i].id = call.ids[1]
there(id) == id \in ids_of(list)

\* An id that has left the file is told as it is in the file.
gone ==
    /\ acts({"search", "write", "mark", "move"}) /\ ~there(call.ids[1])
    /\ answered("not found", {call.ids[1]})
    /\ UNCHANGED <<list, edits, sorting>>

\* search_schema, list_relationships, get_annotations.
search_schema ==
    /\ acts({"search"}) /\ there(call.ids[1])
    /\ answered("none", {call.ids[1]})
    /\ UNCHANGED <<list, edits, sorting>>

\* run_write, as far as require_mcp_write; the file is read again for it.
run_write ==
    /\ acts({"write"}) /\ there(call.ids[1])
    /\ IF list[the_row].open THEN answered("none", {})
       ELSE answered("not enabled", {call.ids[1]})
    /\ UNCHANGED <<list, edits, sorting>>

set_connection_mark ==
    /\ acts({"mark"}) /\ there(call.ids[1])
    /\ list' = [list EXCEPT ![the_row].marked = ~@]
    /\ call' = [call EXCEPT !.at = "list"]
    /\ UNCHANGED <<told, edits, sorting>>

moved(rows, from, index) == InsertAt(RemoveAt(rows, from), index + 1, rows[from])

move_connection ==
    /\ acts({"move"}) /\ there(call.ids[1])
    /\ IF call.position >= Len(list)
       THEN answered("no such position", {}) /\ UNCHANGED list
       ELSE /\ list' = moved(list, the_row, call.position)
            /\ call' = [call EXCEPT !.at = "list"]
            /\ UNCHANGED told
    /\ UNCHANGED <<edits, sorting>>

\* export_connections: an id that left meanwhile is not named.
export_connections ==
    /\ acts({"export"})
    /\ IF \A i \in DOMAIN call.ids : there(call.ids[i])
       THEN answered("none", {})
       ELSE answered("list again", {})
    /\ UNCHANGED <<list, edits, sorting>>

\* connection_list, after the change.
connection_list ==
    /\ call.at = "list"
    /\ answered("none", list_of(list_agent_connections(list)))
    /\ sorting' = [sorting EXCEPT !.next = IF sorting.order = <<>> THEN 1 ELSE @ + 1]
    /\ UNCHANGED <<list, edits>>

\* add_connection: the id must be a handle nobody answers to.
add_connection ==
    /\ call.at = "idle" /\ sorting.order = <<>>
    /\ \E id \in Ids :
         IF ~there(id) /\ handle_is_free(list, id, id)
         THEN /\ list' = Append(list, Row(id))
              /\ told' = Answer("add", "none", {id})
         ELSE /\ told' = Answer("add", "taken", {id})
              /\ UNCHANGED list
    /\ UNCHANGED <<call, edits, sorting>>

---------------------------------------------------------------------------
(* An agent that sorts the list as the tool's description tells it to. *)

begin_sorting ==
    /\ call.at = "idle" /\ sorting.order = <<>>
    /\ \E order \in SetToAllKPermutations(list_of(list_agent_connections(list))) :
          /\ Len(order) = Len(list) /\ order # <<>>
          /\ sorting' = [order |-> order, next |-> 1, since |-> edits]
    /\ UNCHANGED <<list, call, told, edits>>

sort_on ==
    /\ call.at = "idle" /\ sorting.order # <<>> /\ sorting.next <= Len(sorting.order)
    /\ call' = [tool |-> "move", at |-> "resolve", handles |-> <<sorting.order[sorting.next]>>,
                ids |-> <<>>, position |-> sorting.next - 1]
    /\ UNCHANGED <<list, told, edits, sorting>>

\* The last move is answered, or one was refused: the agent is done.
stop_sorting ==
    /\ call.at = "idle" /\ sorting.order # <<>>
    /\ sorting.next > Len(sorting.order) \/ told.error # "none"
    /\ sorting' = [order |-> <<>>, next |-> 1, since |-> 0]
    /\ UNCHANGED <<list, call, told, edits>>

---------------------------------------------------------------------------
(* The operator, in the window. *)

edit(rows) == list' = rows /\ edits' = edits + 1 /\ UNCHANGED <<call, told, sorting>>

operator_aliases ==
    \E i \in DOMAIN list : \E alias \in Handles \union {NoAlias} :
        /\ alias # list[i].alias
        /\ alias # NoAlias => handle_is_free(list, alias, list[i].id)
        /\ edit([list EXCEPT ![i].alias = alias])
operator_opens == \E i \in DOMAIN list : edit([list EXCEPT ![i].open = ~@])
operator_moves == \E i, j \in DOMAIN list : i # j /\ edit(moved(list, i, j - 1))
operator_deletes == \E i \in DOMAIN list : edit(RemoveAt(list, i))

operator ==
    /\ edits < MaxEdits
    /\ operator_aliases \/ operator_opens \/ operator_moves \/ operator_deletes

ToolNext ==
    \/ tool_called \/ list_connections \/ resolve_handle \/ gone \/ search_schema \/ run_write
    \/ set_connection_mark \/ move_connection \/ export_connections \/ connection_list
    \/ add_connection \/ begin_sorting \/ sort_on \/ stop_sorting \/ operator

ToolSpec == ToolInit /\ [][ToolNext]_ToolVars

---------------------------------------------------------------------------
(* What the agent and its operator rely on. *)

\* Every handle the list hands out leads back to the row it was listed for,
\* whatever aliases the operator has given, taken away or reused: ids and
\* aliases are one name space (admin.rs handle_is_free; resolve_agent_handle).
HandlesFindTheirEntry ==
    \A i \in DOMAIN list :
        resolve_agent_handle(list, list_agent_connections(list)[i]) = list[i].id

\* "To sort the whole list, move one at a time from the front": done so, and
\* with nobody else at the list, the list has the order asked for, and every
\* row is still there once (move_connection, move_to).
SortByMoves ==
    (sorting.order # <<>> /\ sorting.since = edits /\ call.at = "idle"
        /\ sorting.next > Len(sorting.order)) =>
            list_agent_connections(list) = sorting.order

=============================================================================
