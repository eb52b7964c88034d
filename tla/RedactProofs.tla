---------------------------- MODULE RedactProofs ----------------------------
(***************************************************************************)
(* What is delivered of an object, for every store, every set of views and *)
(* objects with any fields: in each view the object the cluster sent, less *)
(* the fields the strict mode hides and no other.                          *)
(***************************************************************************)
EXTENDS Redact, TLAPS

Stored == [kind : [base : Names, list : {FALSE}], fields : SUBSET Fields]

LEMMA StoreFacts ==
  ASSUME NEW objs \in Stores
  PROVE  /\ objs \in Seq(Stored) /\ Len(objs) \in Nat /\ 1 \in DOMAIN objs
         /\ \A i \in DOMAIN objs : /\ objs[i] \in Stored /\ objs[i] \in Objects
                                   /\ objs[i].kind = objs[1].kind
         /\ objs[1].kind \in Kinds /\ objs[1].kind.list = FALSE
         /\ objs[1].kind # NoKind /\ objs[1].kind # Kind("Table")
<1>1. objs \in Seq(Stored) /\ objs # <<>>
  BY StoresAssumption DEF Stored
<1>2. Len(objs) \in Nat /\ 1 \in DOMAIN objs
  BY <1>1
<1>3. \A i \in DOMAIN objs : objs[i] \in Stored
  BY <1>1
<1>4. Stored \subseteq Objects
  BY DEF Stored, Objects, Kinds
<1>5. \A i \in DOMAIN objs : objs[i].kind = objs[1].kind
  BY <1>2, StoresAssumption
<1>6. objs[1].kind # NoKind /\ objs[1].kind # Kind("Table")
  BY <1>2, StoresAssumption
<1>7. objs[1].kind \in Kinds /\ objs[1].kind.list = FALSE
  BY <1>2, <1>3 DEF Stored, Kinds
<1> QED
  BY <1>1, <1>2, <1>3, <1>4, <1>5, <1>6, <1>7

LEMMA KindNames ==
  /\ NoKind \in Kinds /\ Kind("Table") \in Kinds /\ Kind("PartialObjectMetadata") \in Kinds
  /\ Kind("Table").list = FALSE
  BY DEF Kinds, Kind, NoKind

LEMMA StoredObjects == ASSUME NEW objs \in Stores PROVE objs \in Seq(Objects)
<1>1. \A i \in DOMAIN objs : objs[i] \in Objects
  BY StoreFacts
<1>2. objs \in Seq(Stored)
  BY StoreFacts
<1> QED
  BY <1>1, <1>2

\* The kind an object is treated as.
Taken(obj, kindHint) == IF obj.kind # NoKind THEN obj.kind ELSE kindHint

LEMMA ObjectRedacts ==
  ASSUME NEW obj, obj \in Objects \/ obj \in Documents, NEW kindHint
  PROVE  /\ Object(obj, kindHint).kind = obj.kind
         /\ Object(obj, kindHint).fields = obj.fields \ Hidden(Taken(obj, kindHint))
         /\ obj \in Objects => Object(obj, kindHint) \in Objects
         /\ obj \in Documents => /\ Object(obj, kindHint) \in Documents
                                 /\ Object(obj, kindHint).items = obj.items
                                 /\ Object(obj, kindHint).rows = obj.rows
<1>1. CASE obj \in Objects
  BY <1>1 DEF Object, Hidden, Taken, Objects, Documents, Secrets
<1>2. CASE obj \in Documents
  BY <1>2 DEF Object, Hidden, Taken, Objects, Documents, Secrets
<1>3. obj \in Objects => obj \notin Documents
  BY DEF Objects, Documents
<1> QED
  BY <1>1, <1>2, <1>3

-----------------------------------------------------------------------------
(* Of each document, what is delivered is what was sent less what is       *)
(* hidden.                                                                 *)

Exact(kind, sent, out) ==
    /\ DOMAIN out = DOMAIN sent
    /\ \A i \in DOMAIN out : out[i].fields = sent[i].fields \ Hidden(kind)

LEMMA SingleExact ==
  ASSUME NEW objs \in Stores, NEW i \in DOMAIN objs
  PROVE  LET doc == Single(objs[i]) IN
         /\ doc \in Documents /\ Object(doc, NoKind) \in Documents
         /\ Body(doc) = Object(doc, NoKind)
         /\ Exact(objs[1].kind, Carried(doc), Carried(Object(doc, NoKind)))
<1> DEFINE doc == Single(objs[i])
<1>1. /\ doc.kind = objs[1].kind /\ doc.kind.list = FALSE /\ doc.kind # NoKind
      /\ doc.kind # Kind("Table")
  BY StoreFacts DEF Single, Document
<1>2. doc \in Documents
  <2>1. objs[i] \in Objects
    BY StoreFacts
  <2> QED
    BY <2>1 DEF Single, Document, Documents, Objects
<1>3. Object(doc, NoKind).kind = doc.kind /\ Object(doc, NoKind) \in Documents
      /\ Object(doc, NoKind).fields = doc.fields \ Hidden(doc.kind)
  BY <1>1, <1>2, ObjectRedacts DEF Taken
<1>4. Carried(doc) = <<doc>> /\ Carried(Object(doc, NoKind)) = <<Object(doc, NoKind)>>
  BY <1>1, <1>3 DEF Carried
<1>5. Body(doc) = Object(doc, NoKind)
  BY <1>1 DEF Body
<1>6. Exact(objs[1].kind, Carried(doc), Carried(Object(doc, NoKind)))
  BY <1>1, <1>3, <1>4 DEF Exact
<1> QED
  BY <1>2, <1>3, <1>5, <1>6

Nameless(objs) == [i \in DOMAIN objs |-> [objs[i] EXCEPT !.kind = NoKind]]
TypedList(objs) == Document(ListOf(objs[1].kind), {}, Nameless(objs), <<>>)

LEMMA ListExact ==
  ASSUME NEW objs \in Stores
  PROVE  /\ TypedList(objs) \in Documents /\ Body(TypedList(objs)) \in Documents
         /\ Exact(objs[1].kind, Carried(TypedList(objs)), Carried(Body(TypedList(objs))))
<1> DEFINE doc == TypedList(objs)
           kind == objs[1].kind
<1>1. ASSUME NEW i \in DOMAIN objs
      PROVE  /\ Nameless(objs)[i] \in Objects /\ Nameless(objs)[i].kind = NoKind
             /\ Nameless(objs)[i].fields = objs[i].fields
  <2>1. objs[i] \in Objects
    BY StoreFacts
  <2> QED
    BY <2>1, KindNames DEF Nameless, Objects
<1>2. DOMAIN objs = 1..Len(objs) /\ Len(objs) \in Nat
  BY StoreFacts
<1>3. Nameless(objs) \in Seq(Objects)
  BY <1>1, <1>2 DEF Nameless
<1>4. kind \in Kinds /\ ListOf(kind) \in Kinds /\ ListOf(kind).list = TRUE
      /\ [ListOf(kind) EXCEPT !.list = FALSE] = kind
  BY StoreFacts DEF ListOf, Kinds
<1>5. ListOf(kind) # Kind("Table")
  BY <1>4 DEF Kind
<1>6. /\ doc.kind = ListOf(kind) /\ doc.items = Nameless(objs) /\ doc \in Documents
  BY <1>3, <1>4 DEF TypedList, Document, Documents
<1> HIDE DEF doc
<1>7. Body(doc) = redactList(doc, kind)
  BY <1>4, <1>5, <1>6 DEF Body
<1> DEFINE out == [i \in DOMAIN objs |-> Object(Nameless(objs)[i], kind)]
<1>8. redactList(doc, kind) = [doc EXCEPT !.items = out]
  <2>1. DOMAIN doc.items = DOMAIN objs
    BY <1>6 DEF Nameless
  <2> QED
    BY <1>6, <2>1 DEF redactList, Documents
<1>9. ASSUME NEW i \in DOMAIN objs
      PROVE  out[i] \in Objects /\ out[i].fields = Nameless(objs)[i].fields \ Hidden(kind)
  <2>1. Taken(Nameless(objs)[i], kind) = kind
    BY <1>1 DEF Taken
  <2> QED
    BY <1>1, <2>1, ObjectRedacts
<1>10. out \in Seq(Objects) /\ DOMAIN out = DOMAIN objs
  BY <1>2, <1>9
<1> HIDE DEF out
<1>11. Body(doc) \in Documents /\ Body(doc).items = out /\ Body(doc).kind = doc.kind
  BY <1>6, <1>7, <1>8, <1>10 DEF Documents
<1>12. Carried(doc) = Nameless(objs) /\ Carried(Body(doc)) = out
  BY <1>4, <1>5, <1>6, <1>11 DEF Carried
<1>13. DOMAIN Nameless(objs) = DOMAIN objs
  BY DEF Nameless
<1>14. Exact(kind, Carried(doc), Carried(Body(doc)))
  BY <1>9, <1>10, <1>12, <1>13 DEF Exact
<1> QED
  BY <1>6, <1>11, <1>14 DEF doc

LEMMA RowsType ==
  ASSUME NEW objs \in Seq(Objects), NEW whole \in BOOLEAN
  PROVE  /\ Rows(objs, whole) \in Seq(Objects) /\ DOMAIN Rows(objs, whole) = DOMAIN objs
         /\ Table(objs, whole) \in Documents /\ Table(objs, whole).kind = Kind("Table")
         /\ Table(objs, whole).rows = Rows(objs, whole)
<1>1. ASSUME NEW i \in DOMAIN objs PROVE Rows(objs, whole)[i] \in Objects
  <2>1. objs[i] \in Objects
    BY <1>1
  <2>2. objs[i].fields \intersect {"lastApplied"} \in SUBSET Fields
    BY DEF Fields
  <2> QED
    BY <2>1, <2>2, KindNames DEF Rows, Objects
<1>2. Rows(objs, whole) \in Seq(Objects) /\ DOMAIN Rows(objs, whole) = DOMAIN objs
  BY <1>1 DEF Rows
<1> QED
  BY <1>2, KindNames DEF Table, Document, Documents

LEMMA TableExact ==
  ASSUME NEW objs \in Stores, NEW whole \in BOOLEAN
  PROVE  LET doc == Table(objs, whole) IN
         /\ doc \in Documents /\ Body(doc) \in Documents
         /\ Exact(objs[1].kind, Carried(doc), Carried(Body(doc)))
<1> DEFINE doc == Table(objs, whole)
           rows == Rows(objs, whole)
           out == [i \in DOMAIN rows |-> Object(rows[i], NoKind)]
<1>1. objs \in Seq(Objects)
  BY StoredObjects
<1>2. /\ doc \in Documents /\ doc.kind = Kind("Table") /\ doc.rows = rows
      /\ rows \in Seq(Objects) /\ DOMAIN rows = DOMAIN objs
  BY <1>1, RowsType
<1>3. ASSUME NEW i \in DOMAIN rows
      PROVE  out[i] \in Objects /\ out[i].fields = rows[i].fields \ Hidden(objs[1].kind)
  <2>1. rows[i] \in Objects /\ i \in DOMAIN objs
    BY <1>2
  <2>2. out[i] \in Objects /\ out[i].fields = rows[i].fields \ Hidden(Taken(rows[i], NoKind))
    BY <2>1, ObjectRedacts
  <2>3. CASE whole
    <3>1. rows[i] = objs[i] /\ Taken(rows[i], NoKind) = objs[1].kind
      BY <2>1, <2>3, StoreFacts DEF Rows, Taken
    <3> QED
      BY <2>2, <3>1
  <2>4. CASE ~whole
    <3>1. rows[i].fields \subseteq {"lastApplied"}
      BY <2>1, <2>4 DEF Rows
    <3> QED
      BY <2>2, <3>1 DEF Hidden
  <2> QED
    BY <2>2, <2>3, <2>4
<1> HIDE DEF doc, rows
<1>4. Body(doc) = [doc EXCEPT !.rows = out]
  BY <1>2, KindNames DEF Body, redactTable, Documents
<1>5. out \in Seq(Objects) /\ DOMAIN out = DOMAIN rows
  BY <1>2, <1>3
<1> HIDE DEF out
<1>6. Body(doc) \in Documents /\ Body(doc).kind = Kind("Table") /\ Body(doc).rows = out
  BY <1>2, <1>4, <1>5 DEF Documents
<1>7. Carried(doc) = rows /\ Carried(Body(doc)) = out
  BY <1>2, <1>6, KindNames DEF Carried
<1>8. Exact(objs[1].kind, Carried(doc), Carried(Body(doc)))
  BY <1>3, <1>5, <1>7 DEF Exact
<1> QED
  BY <1>2, <1>6, <1>8 DEF doc

-----------------------------------------------------------------------------
(* Frames and documents.                                                   *)

\* Of which the types and WatchFailsClosed follow.
Sound(frames, ans) ==
    /\ \A i \in DOMAIN frames : frames[i].doc \in Documents
    /\ ans.ok \in BOOLEAN
    /\ \E n \in 0..Len(frames) : ans.docs \in [1..n -> Documents]
    /\ ans.ok <=> \A i \in DOMAIN frames : frames[i].shape # "undecodable"
    /\ \A d \in DOMAIN ans.docs : frames[d].shape # "undecodable"
    /\ ~ans.ok => frames[Len(ans.docs) + 1].shape = "undecodable"

Redacted(kind, frames, ans) ==
    \A d \in DOMAIN ans.docs : Exact(kind, Carried(frames[d].doc), Carried(ans.docs[d]))
Unchanged(frames, ans) ==
    \A d \in DOMAIN ans.docs : Carried(ans.docs[d]) = Carried(frames[d].doc)

LEMMA OneBody ==
  ASSUME NEW doc \in Documents, Body(doc) \in Documents, NEW kind,
         Exact(kind, Carried(doc), Carried(Body(doc))),
         NEW ans, ans = [ok |-> TRUE, docs |-> <<Body(doc)>>]
  PROVE  Sound(<<Frame(doc)>>, ans) /\ Redacted(kind, <<Frame(doc)>>, ans)
<1> DEFINE frames == <<Frame(doc)>>
<1>1. /\ DOMAIN frames = {1} /\ Len(frames) = 1
      /\ frames[1].doc = doc /\ frames[1].shape = "object"
  BY DEF Frame
<1>2. DOMAIN ans.docs = {1} /\ ans.docs[1] = Body(doc) /\ ans.ok = TRUE
  OBVIOUS
<1>3. ans.docs \in [1..1 -> Documents] /\ 1 \in 0..Len(frames)
  BY <1>1, <1>2
<1> QED
  BY <1>1, <1>2, <1>3 DEF Sound, Redacted

LEMMA WholeStream ==
  ASSUME NEW n \in Nat, NEW frames, DOMAIN frames = 1..n, Len(frames) = n,
         \A i \in DOMAIN frames : /\ FrameOK(frames[i]) /\ frames[i].doc \in Documents
                                  /\ writeFrame(frames[i]) \in Documents
  PROVE  /\ Sound(frames, Stream(frames))
         /\ DOMAIN Stream(frames).docs = DOMAIN frames
         /\ \A d \in DOMAIN frames : Stream(frames).docs[d] = writeFrame(frames[d])
<1> DEFINE through == {i \in DOMAIN frames : \A j \in 1..i : FrameOK(frames[j])}
<1>1. through = DOMAIN frames
  OBVIOUS
<1>2. Stream(frames) = [ok |-> TRUE, docs |-> [i \in DOMAIN frames |-> writeFrame(frames[i])]]
  BY <1>1 DEF Stream
<1>3. Stream(frames).docs \in [1..n -> Documents] /\ n \in 0..Len(frames)
  BY <1>2
<1> QED
  BY <1>2, <1>3 DEF Sound, FrameOK

LEMMA BrokenStream ==
  ASSUME NEW doc \in Documents, Object(doc, NoKind) \in Documents, NEW frames,
         frames = <<Frame(doc), BadFrame(doc), Frame(doc)>>
  PROVE  /\ Sound(frames, Stream(frames))
         /\ DOMAIN Stream(frames).docs = {1} /\ frames[1].doc = doc
         /\ Stream(frames).docs[1] = Object(doc, NoKind)
<1>1. /\ DOMAIN frames = {1, 2, 3} /\ Len(frames) = 3
      /\ \A i \in {1, 2, 3} : frames[i].doc = doc
      /\ FrameOK(frames[1]) /\ ~FrameOK(frames[2])
      /\ frames[1].shape = "object" /\ frames[2].shape = "undecodable"
  BY DEF Frame, BadFrame, FrameOK
<1> DEFINE through == {i \in DOMAIN frames : \A j \in 1..i : FrameOK(frames[j])}
<1>2. through = {1}
  <2>1. 1 \in through
    <3>1. \A j \in 1..1 : FrameOK(frames[j])
      BY <1>1
    <3> QED
      BY <1>1, <3>1
  <2>2. 2 \notin through /\ 3 \notin through
    BY <1>1
  <2> QED
    BY <1>1, <2>1, <2>2
<1>3. Stream(frames) = [ok |-> FALSE, docs |-> [i \in {1} |-> writeFrame(frames[i])]]
  <2>1. through # DOMAIN frames
    BY <1>1, <1>2
  <2> QED
    BY <1>2, <2>1 DEF Stream
<1>4. {1} = 1..1
  OBVIOUS
<1>0. writeFrame(frames[1]) = Object(doc, NoKind)
  BY <1>1 DEF writeFrame
<1>5. Stream(frames).docs \in [1..1 -> Documents] /\ 1 \in 0..Len(frames)
      /\ Stream(frames).ok = FALSE
  BY <1>0, <1>1, <1>3, <1>4
<1>6. Len(Stream(frames).docs) = 1 /\ DOMAIN Stream(frames).docs = {1}
  BY <1>4, <1>5
<1>7. Stream(frames).docs[1] = Object(doc, NoKind)
  BY <1>0, <1>3
<1>8. frames[Len(Stream(frames).docs) + 1].shape = "undecodable"
  <2>1. Len(Stream(frames).docs) + 1 = 2
    <3> DEFINE n == Len(Stream(frames).docs)
    <3>1. n = 1
      BY <1>6
    <3> HIDE DEF n
    <3>2. n + 1 = 2
      BY <3>1
    <3> QED
      BY <3>2 DEF n
  <2>2. frames[2].shape = "undecodable"
    BY <1>1
  <2> QED
    BY <2>1, <2>2
<1> HIDE DEF through
<1>9. Sound(frames, Stream(frames))
  BY <1>1, <1>5, <1>6, <1>8 DEF Sound
<1> QED
  BY <1>1, <1>6, <1>7, <1>9

-----------------------------------------------------------------------------
(* One read, in every view.                                                *)

Answered(view, objs) ==
    IF view \in Watches THEN Stream(Encoded(view, objs))
    ELSE [ok |-> TRUE, docs |-> <<Body(Encoded(view, objs)[1].doc)>>]

LEMMA ReadRedacts ==
  ASSUME NEW objs \in Stores, NEW view \in Documented
  PROVE  LET frames == Encoded(view, objs)
             ans == Answered(view, objs)
         IN  /\ Sound(frames, ans)
             /\ view # "watchTable" => Redacted(objs[1].kind, frames, ans)
             /\ view = "watchTable" => Unchanged(frames, ans)
<1> DEFINE frames == Encoded(view, objs)
           ans == Answered(view, objs)
           kind == objs[1].kind
<1>0. 1 \in DOMAIN objs /\ Len(objs) \in Nat /\ DOMAIN objs = 1..Len(objs)
  <2>1. objs \in Seq(Stored) /\ Len(objs) \in Nat /\ 1 \in DOMAIN objs
    BY StoreFacts
  <2> QED
    BY <2>1
<1>1. ASSUME view \notin Watches, NEW doc \in Documents, Body(doc) \in Documents,
             Exact(kind, Carried(doc), Carried(Body(doc))), frames = <<Frame(doc)>>
      PROVE  Sound(frames, ans) /\ Redacted(kind, frames, ans)
  <2>1. ans = [ok |-> TRUE, docs |-> <<Body(frames[1].doc)>>]
    BY <1>1 DEF Answered
  <2>2. frames[1].doc = doc
    BY <1>1 DEF Frame
  <2> HIDE DEF frames, ans
  <2> QED
    BY <1>1, <2>1, <2>2, OneBody
<1>2. CASE view = "get"
  <2>1. frames = <<Frame(Single(objs[1]))>>
    BY <1>2 DEF Encoded, FrameOf
  <2>2. Single(objs[1]) \in Documents /\ Body(Single(objs[1])) \in Documents
        /\ Exact(kind, Carried(Single(objs[1])), Carried(Body(Single(objs[1]))))
    BY <1>0, SingleExact
  <2> QED
    BY <1>1, <1>2, <2>1, <2>2 DEF Watches
<1>3. CASE view = "list"
  <2>1. frames = <<Frame(TypedList(objs))>>
    BY <1>3 DEF Encoded, TypedList, Nameless
  <2> QED
    BY <1>1, <1>3, <2>1, ListExact DEF Watches
<1>4. CASE view \in {"table", "wholeTable"}
  <2>1. PICK whole \in BOOLEAN : frames = <<Frame(Table(objs, whole))>>
    BY <1>4 DEF Encoded
  <2>2. Table(objs, whole) \in Documents /\ Body(Table(objs, whole)) \in Documents
        /\ Exact(kind, Carried(Table(objs, whole)), Carried(Body(Table(objs, whole))))
    BY TableExact
  <2> QED
    BY <1>1, <1>4, <2>1, <2>2 DEF Watches
<1>5. CASE view = "watch"
  <2>1. /\ frames = [i \in DOMAIN objs |-> Frame(Single(objs[i]))]
        /\ ans = Stream(frames)
    BY <1>5 DEF Encoded, Answered, FrameOf, Watches
  <2>2. DOMAIN frames = 1..Len(objs) /\ Len(frames) = Len(objs)
    BY <1>0, <2>1
  <2>3. ASSUME NEW i \in DOMAIN frames
        PROVE  /\ frames[i].doc = Single(objs[i]) /\ FrameOK(frames[i])
               /\ frames[i].doc \in Documents /\ writeFrame(frames[i]) \in Documents
               /\ Exact(kind, Carried(frames[i].doc), Carried(writeFrame(frames[i])))
    <3>1. i \in DOMAIN objs /\ frames[i] = Frame(Single(objs[i]))
      BY <2>1
    <3>2. /\ frames[i].doc = Single(objs[i]) /\ FrameOK(frames[i])
          /\ writeFrame(frames[i]) = Object(Single(objs[i]), NoKind)
      BY <3>1 DEF Frame, FrameOK, writeFrame
    <3> QED
      BY <3>1, <3>2, SingleExact
  <2> HIDE DEF frames, ans
  <2>4. /\ Sound(frames, Stream(frames)) /\ DOMAIN Stream(frames).docs = DOMAIN frames
        /\ \A d \in DOMAIN frames : Stream(frames).docs[d] = writeFrame(frames[d])
    BY <1>0, <2>2, <2>3, WholeStream
  <2>5. Redacted(kind, frames, Stream(frames))
    BY <2>3, <2>4 DEF Redacted
  <2>6. Sound(frames, ans) /\ Redacted(kind, frames, ans)
    BY <2>1, <2>4, <2>5
  <2> QED
    BY <1>5, <2>6 DEF frames, ans
<1>6. CASE view = "brokenWatch"
  <2> DEFINE doc == Single(objs[1])
  <2>1. /\ frames = <<Frame(doc), BadFrame(doc), Frame(doc)>>
        /\ ans = Stream(frames)
    BY <1>6 DEF Encoded, Answered, FrameOf, Watches
  <2>2. doc \in Documents /\ Object(doc, NoKind) \in Documents
        /\ Exact(kind, Carried(doc), Carried(Object(doc, NoKind)))
    BY <1>0, SingleExact
  <2> HIDE DEF frames, ans, doc
  <2>3. /\ Sound(frames, ans) /\ DOMAIN ans.docs = {1} /\ frames[1].doc = doc
        /\ ans.docs[1] = Object(doc, NoKind)
    BY <2>1, <2>2, BrokenStream
  <2>4. Redacted(kind, frames, ans)
    BY <2>2, <2>3 DEF Redacted
  <2> QED
    BY <1>6, <2>3, <2>4 DEF frames, ans
<1>7. CASE view = "watchTable"
  <2> DEFINE doc(i) == Table(<<objs[i]>>, FALSE)
  <2>1. frames = [i \in DOMAIN objs |-> Frame(doc(i))] /\ ans = Stream(frames)
    BY <1>7 DEF Encoded, Answered, Watches
  <2>2. DOMAIN frames = 1..Len(objs) /\ Len(frames) = Len(objs)
    BY <1>0, <2>1
  <2>3. ASSUME NEW i \in DOMAIN objs
        PROVE  /\ doc(i) \in Documents /\ Object(doc(i), NoKind) \in Documents
               /\ Carried(Object(doc(i), NoKind)) = Carried(doc(i))
    <3>1. <<objs[i]>> \in Seq(Objects)
      <4>1. objs[i] \in Objects
        BY <2>3, StoreFacts
      <4> QED
        BY <4>1
    <3>2. doc(i) \in Documents /\ doc(i).kind = Kind("Table")
      BY <3>1, RowsType
    <3> HIDE DEF doc
    <3>3. Object(doc(i), NoKind) \in Documents /\ Object(doc(i), NoKind).kind = doc(i).kind
          /\ Object(doc(i), NoKind).rows = doc(i).rows
      BY <3>2, ObjectRedacts
    <3>4. Carried(Object(doc(i), NoKind)) = Carried(doc(i))
      BY <3>2, <3>3, KindNames DEF Carried
    <3> QED
      BY <3>2, <3>3, <3>4
  <2>4. ASSUME NEW i \in DOMAIN frames
        PROVE  /\ i \in DOMAIN objs /\ frames[i].doc = doc(i) /\ FrameOK(frames[i])
               /\ writeFrame(frames[i]) = Object(doc(i), NoKind)
    <3>1. i \in DOMAIN objs /\ frames[i] = Frame(doc(i))
      BY <2>1, <2>4
    <3> HIDE DEF doc, frames
    <3> QED
      BY <3>1 DEF Frame, FrameOK, writeFrame
  <2> HIDE DEF frames, ans, doc
  <2>5. /\ Sound(frames, Stream(frames)) /\ DOMAIN Stream(frames).docs = DOMAIN frames
        /\ \A d \in DOMAIN frames : Stream(frames).docs[d] = writeFrame(frames[d])
    BY <1>0, <2>2, <2>3, <2>4, WholeStream
  <2>6. Unchanged(frames, Stream(frames))
    BY <2>3, <2>4, <2>5 DEF Unchanged
  <2>7. Sound(frames, ans) /\ Unchanged(frames, ans)
    BY <2>1, <2>5, <2>6
  <2> QED
    BY <1>7, <2>7 DEF frames, ans
<1>8. CASE view = "bareWatch"
  <2> DEFINE doc == Single(objs[1])
             bare == BareFrame.doc
  <2>1. frames = <<Frame(doc), BareFrame, Frame(doc)>> /\ ans = Stream(frames)
    BY <1>8 DEF Encoded, Answered, FrameOf, Watches
  <2>2. doc \in Documents /\ Object(doc, NoKind) \in Documents
        /\ Exact(kind, Carried(doc), Carried(Object(doc, NoKind)))
    BY <1>0, SingleExact
  <2>3. bare \in Documents /\ Exact(kind, Carried(bare), Carried(bare))
    <3>1. bare \in Documents /\ bare.kind = NoKind /\ bare.fields = {"spec"}
      BY KindNames DEF BareFrame, Document, Documents, Fields
    <3>2. "spec" \notin Hidden(kind)
      BY DEF Hidden, Secrets
    <3> HIDE DEF bare
    <3>3. bare.kind # Kind("Table") /\ bare.kind.list = FALSE
      <4>1. NoKind.base = "" /\ Kind("Table").base = "Table" /\ NoKind.list = FALSE
        BY DEF NoKind, Kind
      <4> QED
        BY <3>1, <4>1
    <3>4. Carried(bare) = <<bare>>
      BY <3>3 DEF Carried
    <3> QED
      BY <3>1, <3>2, <3>4 DEF Exact
  <2>4. DOMAIN frames = 1..3 /\ Len(frames) = 3
    BY <2>1
  <2>5. ASSUME NEW i \in DOMAIN frames
        PROVE  /\ FrameOK(frames[i])
               /\ \/ frames[i].doc = doc /\ writeFrame(frames[i]) = Object(doc, NoKind)
                  \/ frames[i].doc = bare /\ writeFrame(frames[i]) = bare
    <3>1. frames[i] = Frame(doc) \/ frames[i] = BareFrame
      BY <2>1, <2>4
    <3> HIDE DEF frames, doc
    <3> QED
      BY <3>1 DEF Frame, BareFrame, FrameOK, writeFrame
  <2> HIDE DEF frames, ans, doc, bare
  <2>6. /\ Sound(frames, Stream(frames)) /\ DOMAIN Stream(frames).docs = DOMAIN frames
        /\ \A d \in DOMAIN frames : Stream(frames).docs[d] = writeFrame(frames[d])
    <3>1. \A i \in DOMAIN frames : /\ FrameOK(frames[i]) /\ frames[i].doc \in Documents
                                   /\ writeFrame(frames[i]) \in Documents
      BY <2>2, <2>3, <2>5
    <3>2. 3 \in Nat
      OBVIOUS
    <3> QED
      BY <2>4, <3>1, <3>2, WholeStream
  <2>7. Redacted(kind, frames, Stream(frames))
    BY <2>2, <2>3, <2>5, <2>6 DEF Redacted
  <2>8. Sound(frames, ans) /\ Redacted(kind, frames, ans)
    BY <2>1, <2>6, <2>7
  <2> QED
    BY <1>8, <2>8 DEF frames, ans
<1> QED
  BY <1>2, <1>3, <1>4, <1>5, <1>6, <1>7, <1>8 DEF Documented

-----------------------------------------------------------------------------
(* The specification.                                                      *)

\* Every answer is that of one read of what the cluster holds.
IInv == /\ store \in Stores
        /\ \/ asked = <<>> /\ answer = Nothing
           \/ \E view \in Views : asked = Encoded(view, store) /\ answer = Answered(view, store)

LEMMA Invariant == Spec => []IInv
<1>1. Init => IInv
  BY DEF Init, IInv
<1>2. IInv /\ [Next]_vars => IInv'
  <2> SUFFICES ASSUME IInv, [Next]_vars PROVE IInv'
    OBVIOUS
  <2>1. ASSUME NEW view \in Views, Read(view) PROVE IInv'
    BY <2>1 DEF IInv, Read, Answered
  <2>2. CASE UNCHANGED vars
    BY <2>2 DEF IInv, vars
  <2> QED
    BY <2>1, <2>2 DEF Next
<1> QED
  BY <1>1, <1>2, PTL DEF Spec

LEMMA AnswersSound ==
  ASSUME IInv
  PROVE  /\ Sound(asked, answer)
         /\ \/ Redacted(store[1].kind, asked, answer)
            \/ "watchTable" \in Views /\ Unchanged(asked, answer)
<1>1. CASE asked = <<>> /\ answer = Nothing
  <2>1. DOMAIN answer.docs = {} /\ DOMAIN asked = {} /\ answer.ok = TRUE /\ Len(asked) = 0
    BY <1>1 DEF Nothing
  <2>2. answer.docs \in [1..0 -> Documents] /\ 0 \in 0..Len(asked)
    BY <1>1, <2>1 DEF Nothing
  <2> QED
    BY <2>1, <2>2 DEF Sound, Redacted
<1>2. CASE \E view \in Views : asked = Encoded(view, store) /\ answer = Answered(view, store)
  BY <1>2, ViewsAssumption, ReadRedacts DEF IInv
<1> QED
  BY <1>1, <1>2 DEF IInv

\* Every variable keeps its type, and no answer has more documents than the cluster's.
THEOREM RedactTypes == Spec => []TypeOK
<1>1. IInv => TypeOK
  BY AnswersSound DEF IInv, TypeOK, Sound
<1> QED
  BY <1>1, Invariant, PTL

\* Whichever way an object is read, but in a watch of Tables, what is delivered of it
\* holds none of the fields the strict mode hides.
THEOREM StrippedHolds == ASSUME "watchTable" \notin Views PROVE Spec => []Stripped
<1>1. IInv => Stripped
  BY AnswersSound DEF Redacted, Exact, Stripped
<1> QED
  BY <1>1, Invariant, PTL

\* And nothing else is lost of it, in any view.
THEOREM NothingElseLostHolds == Spec => []NothingElseLost
<1>1. ASSUME IInv PROVE NothingElseLost
  <2>1. CASE Redacted(store[1].kind, asked, answer)
    BY <2>1 DEF Redacted, Exact, NothingElseLost
  <2>2. CASE Unchanged(asked, answer)
    BY <2>2 DEF Unchanged, NothingElseLost
  <2> QED
    BY <1>1, <2>1, <2>2, AnswersSound
<1> QED
  BY <1>1, Invariant, PTL

\* A frame that cannot be inspected ends the watch with an error: neither it nor
\* anything behind it is delivered, and everything before it is.
THEOREM WatchFailsClosedHolds == Spec => []WatchFailsClosed
<1>1. IInv => WatchFailsClosed
  BY AnswersSound DEF Sound, WatchFailsClosed
<1> QED
  BY <1>1, Invariant, PTL
=============================================================================
