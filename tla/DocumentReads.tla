----------------------------- MODULE DocumentReads -----------------------------
(***************************************************************************)
(* dbboard-mongodb and dbboard-firestore: reading stores that declare no   *)
(* schema.                                                                 *)
(*                                                                         *)
(* A MongoDB command is classified from one parse of its text and sent     *)
(* from another; its cursor is pulled document by document.  A Firestore   *)
(* query answers in one body, and its collections come page by page.       *)
(* Either way the columns are what the documents happen to carry, and a    *)
(* table is described from a sample.  Other clients write in between.      *)
(***************************************************************************)
EXTENDS Integers, FiniteSets, SequencesExt, FiniteSetsExt, TLC

CONSTANTS Texts,           \* the MongoDB command texts that are tried
          Stores,          \* collections' documents to begin with
          Inserted,        \* the documents another client may add
          Ids,             \* the ids of collections, which are numbers
          COLLECTION_PAGE_SIZE, SCHEMA_SAMPLE_SIZE, MAX_RESULT_ROWS,
          MaxRows,         \* the rows a caller of query_read_only allows
          MaxChanges       \* bound: writes of other clients

VARIABLES docs,      \* the documents of the collection, in its order
          ids,       \* the collections of a Firestore database
          call,      \* the call being served
          answer,    \* what the last call answered
          changed    \* how often another client has written

DocVars == <<docs, ids, call, answer, changed>>

\* A value: its type, what a scalar is, and what an array or a map holds.
Scalar(t, s) == [t |-> t, s |-> s, names |-> <<>>, sub |-> <<>>]
ArrayOf(sub) == [t |-> "array", s |-> "", names |-> <<>>, sub |-> sub]
MapOf(names, sub) == [t |-> "map", s |-> "", names |-> names, sub |-> sub]

Fields(map) == ToSet(map.names)
At(map, name) == map.sub[CHOOSE i \in DOMAIN map.names : map.names[i] = name]

---------------------------------------------------------------------------
(* One text, parsed twice. *)

\* What is kept of a map with a name twice: the last, where the first was.
deduplicated(map) ==
    LET kept == SelectSeq([i \in DOMAIN map.names |-> i],
                          LAMBDA i : \A j \in 1 .. i - 1 : map.names[j] # map.names[i])
        last_of(n) == Max({i \in DOMAIN map.names : map.names[i] = n})
    IN  [map EXCEPT !.names = [k \in DOMAIN kept |-> map.names[kept[k]]],
                    !.sub = [k \in DOMAIN kept |-> map.sub[last_of(map.names[kept[k]])]]]

RECURSIVE nested(_)
nested(v) ==
    LET inner == [v EXCEPT !.sub = [i \in DOMAIN v.sub |-> nested(v.sub[i])]]
    IN  IF v.t = "map" THEN deduplicated(inner) ELSE inner

\* The fields as they were written, the command's name first.
parse(text) == [text EXCEPT !.sub = [i \in DOMAIN text.sub |-> nested(text.sub[i])]]

ReadCommands == {"aggregate", "count", "find", "listCollections"}
options(command) ==
    CASE command = "aggregate" -> {"pipeline", "cursor", "let"}
      [] command = "count" -> {"query", "limit"}
      [] command = "find" -> {"filter", "sort", "limit", "let"}
      [] OTHER -> {"filter", "cursor"}
FORBIDDEN_KEYS == {"$accumulator", "$function", "$merge", "$out", "$where"}

RECURSIVE forbidden_key_within(_)
forbidden_key_within(v) ==
    \/ v.t = "map" /\ Fields(v) \cap FORBIDDEN_KEYS # {}
    \/ \E i \in DOMAIN v.sub : forbidden_key_within(v.sub[i])

\* An option is one of those reviewed for the command.
reviewed(command, field) == field \in options(command)

classify_read_only(text) ==
    LET doc == parse(text)
    IN  IF \/ text.t # "map" \/ doc.names = <<>>
           \/ doc.names[1] \notin ReadCommands
           \/ \E i \in 2 .. Len(doc.names) : ~reviewed(doc.names[1], doc.names[i])
           \/ \E i \in DOMAIN doc.sub : forbidden_key_within(doc.sub[i])
        THEN "refused" ELSE doc.names[1]

returns_cursor(command) == command # "count"

\* What travels: the text once more, with the cursor a cursor command needs.
to_wire(text, command) ==
    LET document == nested(text)
    IN  IF returns_cursor(command) /\ "cursor" \in options(command)
           /\ "cursor" \notin Fields(document)
        THEN MapOf(Append(document.names, "cursor"), Append(document.sub, MapOf(<<>>, <<>>)))
        ELSE document

---------------------------------------------------------------------------
(* Documents as rows. *)

\* Ordinary JSON inside a document.
RECURSIVE plain_json(_)
plain_json(v) ==
    CASE v.t \in {"array", "map"} -> [v EXCEPT !.sub = [i \in DOMAIN v.sub |-> plain_json(v.sub[i])]]
      [] v.t \in {"timestamp", "reference", "objectId", "bytes"} -> Scalar("string", v.s)
      [] OTHER -> v

Cell(kind, v) == [kind |-> kind, v |-> v]
Null == Cell("null", Scalar("", ""))

mongo_cell(v) ==
    CASE v.t \in {"string", "timestamp", "objectId"} -> Cell("text", Scalar("string", v.s))
      [] v.t = "int" -> Cell("integer", v)
      [] v.t = "bytes" -> Cell("blob", v)
      [] OTHER -> Cell("json", plain_json(v))      \* null, bool, map, array, and the odd ones

\* A type Firestore has and this adapter has not heard of is refused, at any
\* depth, with the whole result.
RECURSIVE readable(_)
readable(v) == v.t # "odd" /\ \A i \in DOMAIN v.sub : readable(v.sub[i])

firestore_cell(v) ==
    CASE v.t \in {"string", "timestamp", "reference"} -> Cell("text", Scalar("string", v.s))
      [] v.t = "int" -> Cell("integer", v)
      [] v.t = "bytes" -> Cell("blob", v)
      [] OTHER -> Cell("json", plain_json(v))      \* null, bool, geo point, map, array

\* The columns are the fields the documents carry; a field a document does
\* not carry is Null.
columns(documents) == UNION {Fields(documents[i]) : i \in DOMAIN documents}

to_result(documents, cell(_)) ==
    [i \in DOMAIN documents |->
        [f \in columns(documents) |->
            IF f \in Fields(documents[i]) THEN cell(At(documents[i], f)) ELSE Null]]

firestore_result(documents) ==
    [i \in DOMAIN documents |->
        ("__name__" :> Cell("text", Scalar("string", "path"))) @@ to_result(documents, firestore_cell)[i]]
mongo_result(documents) == to_result(documents, mongo_cell)

\* A table is described from a sample: its id, then what was observed.
type_name(v) == v.t

nullable(field, documents) ==
    \E i \in DOMAIN documents :
        field \notin Fields(documents[i]) \/ type_name(At(documents[i], field)) = "null"

observed(documents) ==
    [f \in columns(documents) |->
        [types |-> {type_name(At(documents[i], f)) : i \in {j \in DOMAIN documents : f \in Fields(documents[j])}},
         nullable |-> nullable(f, documents)]]

Identity(types) == [types |-> types, nullable |-> FALSE]

\* The id is a field of the documents, if any of them shows it.
mongo_infer_schema(documents) ==
    LET seen == observed(documents)
    IN  ("_id" :> Identity(IF "_id" \in DOMAIN seen THEN seen["_id"].types ELSE {})) @@ seen

\* The name is the document's path, and no field of it.
firestore_infer_schema(documents) ==
    ("__name__" :> Identity({"name"})) @@ observed(documents)

---------------------------------------------------------------------------
(* Calls. *)

NoCall == [at |-> "idle", engine |-> "none", text |-> MapOf(<<>>, <<>>), limit |-> 0,
           got |-> <<>>, token |-> 0, listed |-> {}, there |-> {}]
NoAnswer == [is |-> "none", sent |-> MapOf(<<>>, <<>>), of |-> <<>>, rows |-> <<>>,
             schema |-> <<>>, listed |-> {}, there |-> {}]

DocInit ==
    /\ docs \in Stores /\ ids \in SUBSET Ids
    /\ call = NoCall /\ answer = [NoAnswer EXCEPT !.is = "start"] /\ changed = 0

idle == call.at = "idle"
ends(a) == call' = NoCall /\ answer' = a
fails == ends([NoAnswer EXCEPT !.is = "error"]) /\ UNCHANGED <<docs, ids, changed>>

\* MongoAdapter::run: classify, then send; a write never leaves.
mongo_run(limit) ==
    /\ idle
    /\ \E text \in Texts :
         LET command == classify_read_only(text)
         IN  IF command = "refused" THEN ends([NoAnswer EXCEPT !.is = "refused"])
             ELSE IF returns_cursor(command)
             THEN /\ call' = [NoCall EXCEPT !.at = "cursor", !.engine = "mongodb",
                                            !.text = to_wire(text, command), !.limit = limit]
                  /\ answer' = [NoAnswer EXCEPT !.is = "sent", !.sent = to_wire(text, command)]
             ELSE LET reply == MapOf(<<"n">>, <<Scalar("int", "n")>>)
                  IN  ends([NoAnswer EXCEPT !.is = "rows", !.sent = to_wire(text, command),
                              !.of = <<reply>>, !.rows = mongo_result(<<reply>>)])
    /\ UNCHANGED <<docs, ids, changed>>

mongo_query == mongo_run(MAX_RESULT_ROWS + 1)
mongo_query_read_only == mongo_run(MaxRows)

\* collect: pull documents until the limit, or until there are no more.
mongo_next ==
    /\ call.at = "cursor"
    /\ IF Len(call.got) < call.limit /\ Len(call.got) < Len(docs)
       THEN /\ call' = [call EXCEPT !.got = Append(@, docs[Len(@) + 1])]
            /\ UNCHANGED answer
       ELSE ends(IF Len(call.got) > MAX_RESULT_ROWS
                 THEN [NoAnswer EXCEPT !.is = "error", !.sent = call.text]
                 ELSE [NoAnswer EXCEPT !.is = "rows", !.sent = call.text,
                                       !.of = call.got, !.rows = mongo_result(call.got)])
    /\ UNCHANGED <<docs, ids, changed>>

sampled == SubSeq(docs, 1, Min({SCHEMA_SAMPLE_SIZE, Len(docs)}))

\* describe_table of either: a sample, in one request.
describe_table ==
    /\ idle
    /\ \E schema \in {mongo_infer_schema(sampled), firestore_infer_schema(sampled)} :
         ends([NoAnswer EXCEPT !.is = "schema", !.of = sampled, !.schema = schema])
    /\ UNCHANGED <<docs, ids, changed>>

\* FirestoreAdapter::query and query_read_only: the body holds documents and
\* entries that are none.
run_query(limit) ==
    /\ idle
    /\ LET cut == SubSeq(docs, 1, Min({limit, Len(docs)}))
           too_many == limit > MAX_RESULT_ROWS /\ Len(docs) > MAX_RESULT_ROWS
       IN  IF too_many \/ \E i \in DOMAIN cut : ~readable(cut[i])
           THEN ends([NoAnswer EXCEPT !.is = "error"])
           ELSE ends([NoAnswer EXCEPT !.is = "rows", !.of = cut, !.rows = firestore_result(cut)])
    /\ UNCHANGED <<docs, ids, changed>>

firestore_query == run_query(MAX_RESULT_ROWS + 1)
firestore_query_read_only == run_query(MaxRows)

\* list_tables: page after page, until the server names no next one.
list_tables ==
    /\ idle
    /\ call' = [NoCall EXCEPT !.at = "page", !.engine = "firestore", !.there = ids]
    /\ answer' = NoAnswer
    /\ UNCHANGED <<docs, ids, changed>>

page_of(token) ==
    LET after == {i \in ids : i > token}
    IN  {i \in after : Cardinality({j \in after : j < i}) < COLLECTION_PAGE_SIZE}

\* The server names a next page.
more_pages(page) == page # {} /\ \E i \in ids : i > Max(page)

list_page ==
    /\ call.at = "page"
    /\ LET page == page_of(call.token)
           listed == call.listed \union page
       IN  IF more_pages(page)
           THEN /\ call' = [call EXCEPT !.token = Max(page), !.listed = listed]
                /\ UNCHANGED answer
           ELSE ends([NoAnswer EXCEPT !.is = "tables", !.listed = listed, !.there = call.there])
    /\ UNCHANGED <<docs, ids, changed>>

\* The server, its link or the token fails.
call_fails == call.at # "idle" /\ fails

\* Another client adds a document, or creates or drops a collection.
changes ==
    /\ changed < MaxChanges /\ changed' = changed + 1
    /\ \/ \E d \in Inserted : docs' = Append(docs, d) /\ UNCHANGED <<ids, call>>
       \/ \E i \in Ids :
            /\ ids' = IF i \in ids THEN ids \ {i} ELSE ids \union {i}
            /\ call' = [call EXCEPT !.there = @ \ {i}]
            /\ UNCHANGED docs
    /\ UNCHANGED answer

DocNext ==
    \/ mongo_query \/ mongo_query_read_only \/ mongo_next \/ describe_table
    \/ firestore_query \/ firestore_query_read_only
    \/ list_tables \/ list_page \/ call_fails \/ changes
DocSpec == DocInit /\ [][DocNext]_DocVars

---------------------------------------------------------------------------
(* What a caller relies on. *)

\* A value and all it holds.
RECURSIVE within(_)
within(v) == {v} \union UNION {within(v.sub[i]) : i \in DOMAIN v.sub}

\* What travels to a MongoDB server is a read by the server's own rule (the
\* first field names the command), carries only reviewed options, and no key
\* that writes or runs code at any depth, although it is another parse of the
\* text than the one that was judged (read_only.rs and command.rs).
OnlyReadsTravel ==
    answer.sent.names # <<>> =>
        /\ answer.sent.names[1] \in ReadCommands
        /\ \A i \in 2 .. Len(answer.sent.names) : answer.sent.names[i] \in options(answer.sent.names[1])
        /\ \A part \in within(answer.sent) :
             part.t = "map" => Fields(part) \cap FORBIDDEN_KEYS = {}

\* A row tells what its document holds: every field of every document has a
\* column, a field the document does not carry is Null, and one that it
\* carries as null is not (document.rs of both adapters).
RowsTellTheDocuments ==
    answer.is = "rows" =>
        \A i \in DOMAIN answer.of :
            /\ Fields(answer.of[i]) \subseteq DOMAIN answer.rows[i]
            /\ \A f \in DOMAIN answer.rows[i] \ {"__name__"} :
                 answer.rows[i][f].kind = "null" <=> f \notin Fields(answer.of[i])

\* A column that is described as never empty is there, and not null, in every
\* document of the sample (sample.rs of both adapters).
NeverEmptyInTheSample ==
    answer.is = "schema" =>
        \A f \in DOMAIN answer.schema \ {"_id", "__name__"} : ~answer.schema[f].nullable =>
            \A i \in DOMAIN answer.of :
                f \in Fields(answer.of[i]) /\ At(answer.of[i], f).t # "null"

\* The list of a database's collections has every one that was there from the
\* call's start to its end: "A truncated list would hide collections with no
\* sign that anything was missing" (firestore adapter.rs, list_tables).
EveryCollectionIsListed == answer.is = "tables" => answer.there \subseteq answer.listed
=============================================================================
