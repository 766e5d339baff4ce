---------------------------- MODULE ConnectionStore ----------------------------
(***************************************************************************)
(* What ConnectionAdmin promises its callers: one list of connections,     *)
(* each with its secrets, changed by one call at a time.  A call takes     *)
(* effect whole or not at all, and touches the connections it is about     *)
(* and no other.  There is no file here and no keychain.                   *)
(***************************************************************************)
EXTENDS Naturals, SequencesExt

CONSTANTS
    Secret,     \* what a connection's secret may be
    Bundled     \* the connections, with secrets, that a bundle may carry

VARIABLE list       \* each element [entry, secrets]

ids == {list[i].entry.id : i \in DOMAIN list}

\* No connection is without a secret it has a reference to.
complete(connection) == \A r \in connection.entry.refs : connection.secrets[r] \in Secret

Init == list = <<>>

\* add, duplicate: one connection under a new id, at the end.
Added ==
    /\ list' # <<>>
    /\ Front(list') = list
    /\ Last(list').entry.id \notin ids
    /\ complete(Last(list'))

\* update, set_mark, repair: one connection changes and keeps its id and row.
Changed ==
    \E i \in DOMAIN list :
        /\ DOMAIN list' = DOMAIN list
        /\ list'[i].entry.id = list[i].entry.id
        /\ complete(list'[i])
        /\ \A j \in DOMAIN list \ {i} : list'[j] = list[j]

\* delete
Removed == \E i \in DOMAIN list : list' = RemoveAt(list, i)

\* move_to
Moved ==
    \E i, j \in DOMAIN list : list' = InsertAt(RemoveAt(list, i), j, list[i])

\* import_bundle: rows are kept or replaced where they stand by what the bundle
\* carries under the same id, and new ids follow.
Merged ==
    /\ Len(list') >= Len(list)
    /\ \A i \in DOMAIN list :
         \/ list'[i] = list[i]
         \/ list'[i] \in Bundled /\ list'[i].entry.id = list[i].entry.id
    /\ \A i \in (Len(list) + 1) .. Len(list') :
         list'[i] \in Bundled /\ list'[i].entry.id \notin ids

Next == Added \/ Changed \/ Removed \/ Moved \/ Merged

Spec == Init /\ [][Next]_list
===============================================================================
