------------------------------- MODULE Redact -------------------------------
(***************************************************************************)
(* internal/redact: what the strict mode removes from the objects the      *)
(* cluster returns.  The same stored objects reach a client in several     *)
(* views (a get, a list, a Table, watch frames), each an encoding of its   *)
(* own with its own path through the code.                                 *)
(*                                                                         *)
(* A kind is [base, list]: "PodList" is [base |-> "Pod", list |-> TRUE],   *)
(* which is all the code asks of a kind's spelling.  Of an object's fields *)
(* the code tells apart data, stringData and the last-applied annotation;  *)
(* "spec" stands for the others.                                           *)
(***************************************************************************)
EXTENDS Naturals, Sequences

CONSTANTS Names,    \* the kinds of the objects the cluster may hold
          Stores,   \* sequences of objects the cluster may hold, all of one kind
          Views     \* the encodings in which a client may ask for them

Kind(name) == [base |-> name, list |-> FALSE]
NoKind == Kind("")
ListOf(kind) == [kind EXCEPT !.list = TRUE]

Secrets == {"data", "stringData"}
Fields == Secrets \union {"lastApplied", "spec"}
Kinds == [base : Names \union {"", "Table", "PartialObjectMetadata"}, list : BOOLEAN]
Objects == [kind : Kinds, fields : SUBSET Fields]
Documents == [kind : Kinds, fields : SUBSET Fields, items : Seq(Objects), rows : Seq(Objects)]

\* Only a list's kind ends in "List": redact.Body takes a single object of a kind
\* that does (a custom resource "AllowList") for a list, and leaves it as it is.
ASSUME StoresAssumption ==
    /\ Stores \subseteq Seq([kind : [base : Names, list : {FALSE}], fields : SUBSET Fields])
    /\ \A store \in Stores : \A i, j \in DOMAIN store : store[i].kind = store[j].kind
    /\ \A store \in Stores : \A i \in DOMAIN store :
          store[i].kind # NoKind /\ store[i].kind # Kind("Table")
    /\ <<>> \notin Stores

Documented == {"get", "list", "table", "wholeTable",
               "watch", "brokenWatch", "bareWatch", "watchTable"}
ASSUME ViewsAssumption == Views \subseteq Documented

VARIABLES store,    \* what the cluster holds
          asked,    \* the frames or documents that left the cluster
          answer    \* what of them reaches the client: [ok, docs]

vars == <<store, asked, answer>>

-----------------------------------------------------------------------------
(* redact.go and stream.go.                                                *)

\* Object: the object's own kind counts before the hint.
Object(obj, kindHint) ==
    LET kind == IF obj.kind # NoKind THEN obj.kind ELSE kindHint
    IN  [obj EXCEPT !.fields = (@ \ {"lastApplied"}) \ IF kind = Kind("ConfigMap") THEN {}
                                                       ELSE Secrets]

\* Mutant: the items of a typed list are taken as of unknown kind.
redactList_noHint(doc, itemKind) ==
    [doc EXCEPT !.items = [i \in DOMAIN @ |-> Object(@[i], NoKind)]]

redactList(doc, itemKind) ==
    [doc EXCEPT !.items = [i \in DOMAIN @ |-> Object(@[i], itemKind)]]

\* Mutant: kubectl renders the cells, so the rows' objects are forgotten.
redactTable_cellsOnly(doc) == Object(doc, NoKind)

redactTable(doc) == [doc EXCEPT !.rows = [i \in DOMAIN @ |-> Object(@[i], NoKind)]]

Body(doc) ==
    CASE doc.kind = Kind("Table") -> redactTable(doc)
      [] doc.kind.list -> redactList(doc, [doc.kind EXCEPT !.list = FALSE])
      [] OTHER -> Object(doc, NoKind)

\* writeFrame: a line that is no JSON, or whose object is none, fails; one without an
\* object goes out as it came.
FrameOK(frame) == frame.shape # "undecodable"
writeFrame(frame) == IF frame.shape = "bare" THEN frame.doc ELSE Object(frame.doc, NoKind)

\* Mutant: an undecodable frame is forwarded as it came.
Stream_open(frames) ==
    [ok |-> TRUE,
     docs |-> [i \in DOMAIN frames |-> IF FrameOK(frames[i]) THEN writeFrame(frames[i])
                                       ELSE frames[i].doc]]

\* Mutant: an undecodable frame is skipped, the indices of the others kept.
Stream_skips(frames) ==
    [ok |-> TRUE,
     docs |-> [i \in {j \in DOMAIN frames : FrameOK(frames[j])} |-> writeFrame(frames[i])]]

\* Stream: the frames before the first one that fails.
Stream(frames) ==
    LET passes(n) == \A j \in 1..n : FrameOK(frames[j])
        sent == {i \in DOMAIN frames : passes(i)}
    IN  [ok |-> sent = DOMAIN frames,
         docs |-> [i \in sent |-> writeFrame(frames[i])]]

-----------------------------------------------------------------------------
(* The cluster's encodings.                                                *)

Document(kind, fields, items, rows) ==
    [kind |-> kind, fields |-> fields, items |-> items, rows |-> rows]

Single(obj) == Document(obj.kind, obj.fields, <<>>, <<>>)
\* A row carries the object's metadata by default, the object itself on request.
Rows(objs, whole) ==
    [i \in DOMAIN objs |-> IF whole THEN objs[i]
                           ELSE [kind |-> Kind("PartialObjectMetadata"),
                                 fields |-> objs[i].fields \intersect {"lastApplied"}]]
Table(objs, whole) == Document(Kind("Table"), {}, <<>>, Rows(objs, whole))

Frame(doc) == [shape |-> "object", doc |-> doc]
BadFrame(doc) == [shape |-> "undecodable", doc |-> doc]
\* A frame without an object: no object of the cluster's is in it.
BareFrame == [shape |-> "bare", doc |-> Document(NoKind, {"spec"}, <<>>, <<>>)]
FrameOf(obj) == Frame(Single(obj))

Encoded(view, objs) ==
    CASE view = "get" -> <<FrameOf(objs[1])>>
      [] view = "list" ->
           <<Frame(Document(ListOf(objs[1].kind), {},
                            [i \in DOMAIN objs |-> [objs[i] EXCEPT !.kind = NoKind]], <<>>))>>
      [] view = "table" -> <<Frame(Table(objs, FALSE))>>
      [] view = "wholeTable" -> <<Frame(Table(objs, TRUE))>>
      [] view = "watch" -> [i \in DOMAIN objs |-> FrameOf(objs[i])]
      [] view = "brokenWatch" ->
           <<FrameOf(objs[1]), BadFrame(Single(objs[1])), FrameOf(objs[1])>>
      [] view = "bareWatch" -> <<FrameOf(objs[1]), BareFrame, FrameOf(objs[1])>>
      [] view = "watchTable" ->
           [i \in DOMAIN objs |-> Frame(Table(<<objs[i]>>, FALSE))]

Watches == {"watch", "brokenWatch", "bareWatch", "watchTable"}

-----------------------------------------------------------------------------
Nothing == [ok |-> TRUE, docs |-> <<>>]

Init == /\ store \in Stores
        /\ asked = <<>>
        /\ answer = Nothing

\* A watch is streamed frame by frame, anything else is one body.
Read(view) ==
    /\ asked' = Encoded(view, store)
    /\ answer' = IF view \in Watches THEN Stream(asked')
                 ELSE [ok |-> TRUE, docs |-> <<Body(asked'[1].doc)>>]
    /\ UNCHANGED store

Next == \E view \in Views : Read(view)

Spec == Init /\ [][Next]_vars

-----------------------------------------------------------------------------
\* The objects a document carries: its rows', its items, or itself.
Carried(doc) == CASE doc.kind = Kind("Table") -> doc.rows
                  [] doc.kind.list -> doc.items
                  [] OTHER -> <<doc>>

TypeOK == /\ store \in Stores
          /\ \A i \in DOMAIN asked : asked[i].doc \in Documents
          /\ answer.ok \in BOOLEAN
          /\ \E n \in 0..Len(asked) : answer.docs \in [1..n -> Documents]

\* What the strict mode hides of an object of the kind the cluster holds.
Hidden(kind) == {"lastApplied"} \union IF kind = Kind("ConfigMap") THEN {} ELSE Secrets

\* Design spec 7.1 and 7.2: whichever way an object is read, by a get, in a list
\* whose items have no kind, in a Table's rows, in the frames of a watch, what is
\* delivered of it holds none of the fields the strict mode hides.
Stripped ==
    \A d \in DOMAIN answer.docs : LET objs == Carried(answer.docs[d]) IN
       \A i \in DOMAIN objs : objs[i].fields \intersect Hidden(store[1].kind) = {}

\* And nothing else is lost, a ConfigMap's data least of all: every object of
\* every delivered document keeps what the cluster sent of the other fields.
NothingElseLost ==
    \A d \in DOMAIN answer.docs :
       LET objs == Carried(answer.docs[d])  sent == Carried(asked[d].doc) IN
       /\ DOMAIN objs = DOMAIN sent
       /\ \A i \in DOMAIN objs : sent[i].fields \ Hidden(store[1].kind) \subseteq objs[i].fields

\* A frame that cannot be inspected ends the watch with an error: neither it nor
\* anything behind it is delivered, and everything before it is.
WatchFailsClosed ==
    /\ answer.ok <=> \A i \in DOMAIN asked : asked[i].shape # "undecodable"
    /\ \A d \in DOMAIN answer.docs : asked[d].shape # "undecodable"
    /\ ~answer.ok => asked[Len(answer.docs) + 1].shape = "undecodable"
=============================================================================
