---------------------------- MODULE HandlerProofs ----------------------------
(***************************************************************************)
(* Proofs about the handler, for every number of slots, every              *)
(* configuration, request and response, and every cap.                     *)
(***************************************************************************)
EXTENDS Handler, PolicyProofs, SequenceTheorems, TLAPS

USE DEF Goto, Answer, Fail, Relay, CopyOut

-----------------------------------------------------------------------------
(* What the handler writes has the type of what it writes to.              *)

LEMMA OutboundType ==
  ASSUME NEW i \in Input PROVE Outbound(i) \in Outbounds
<1>1. negotiateJSON(i.accept) \in SUBSET MediaTypes
  BY DEF negotiateJSON, Input, MediaTypes
<1>2. Scrub(i.headers) \in SUBSET STRING
  BY DEF Scrub, Input
<1> QED
  BY <1>1, <1>2, CapAssumption DEF Outbound, Outbounds, Input

LEMMA ReadUnitsType ==
  ASSUME NEW body \in Seq(Units) PROVE ReadUnits(body) \in Seq(Units)
  BY CapAssumption DEF ReadUnits

LEMMA CleanType ==
  ASSUME NEW body \in Seq(Units)
  PROVE  Clean(body) \in Seq(Units) /\ Len(Clean(body)) = Len(body)
  BY DEF Clean, Units

LEMMA TransformedType ==
  ASSUME NEW s \in Slots, reply[s] \in Response
  PROVE  /\ Transformed(s) \in Seq(Units)
         /\ Len(Transformed(s)) = Len(ReadUnits(reply[s].body))
<1>1. reply[s].body \in Seq(Units)
  BY DEF Response
<1> QED
  BY <1>1, ReadUnitsType, CleanType DEF Transformed

LEMMA StatusTypes ==
  /\ \A i : Refusal(i) \in Nat
  /\ \A e : writeProxyError(e) \in Nat
  BY DEF Refusal, writeProxyError

-----------------------------------------------------------------------------
(* Type correctness.  A step of the handler is a step of one slot.         *)

Step(s) == \/ Refuse(s) \/ Forward(s)
           \/ \E e \in TransportErrors(s) : RoundTripFails(s, e)
           \/ Reply(s)
           \/ PassThrough(s) \/ StartStream(s) \/ FailClosed(s)
           \/ ReadFails(s) \/ RejectBody(s) \/ TransformBody(s)
           \/ CopyUnit(s) \/ StreamFrame(s) \/ CopyFails(s) \/ CopyEnds(s)
           \/ BeginLog(s) \/ EndLog(s)
           \/ HangUp(s)

LEMMA NextIsStep == Next => \E s \in Slots : Step(s)
  BY DEF Next, Step

LEMMA InitType == Init => TypeOK
<1> SUFFICES ASSUME Init PROVE TypeOK
  OBVIOUS
<1>1. in \in [Slots -> Input]
  BY InputsAssumption DEF Init
<1>2. NoReply \in Response
  BY DEF NoReply, Response, Units
<1> QED
  BY <1>1, <1>2 DEF Init, TypeOK, Locations, Errors

LEMMA TypeStep == TypeOK /\ [Next]_vars => TypeOK'
<1> SUFFICES ASSUME TypeOK, [Next]_vars PROVE TypeOK'
  OBVIOUS
<1> USE DEF TypeOK, Locations
<1>0. CASE UNCHANGED vars
  BY <1>0 DEF vars, slotVars
<1> SUFFICES ASSUME NEW s \in Slots, Step(s) PROVE TypeOK'
  BY <1>0, NextIsStep
<1> DEFINE own == <<"clean">>
<1>own. own \in Seq(Units)
  BY DEF Units
<1>1. CASE Refuse(s)
  BY <1>1, <1>own, StatusTypes DEF Refuse
<1>2. CASE Forward(s)
  BY <1>2, OutboundType DEF Forward
<1>3. ASSUME NEW e \in TransportErrors(s), RoundTripFails(s, e) PROVE TypeOK'
  <2>1. e \in Errors
    BY DEF TransportErrors, Errors
  <2> QED
    BY <1>3, <2>1, <1>own, StatusTypes DEF RoundTripFails
<1>4. CASE Reply(s)
  <2>1. PICK r \in MayReply(s) : reply' = [reply EXCEPT ![s] = r]
    BY <1>4 DEF Reply
  <2>2. r \in Response
    BY RepliesAssumption DEF MayReply
  <2> QED
    BY <1>4, <2>1, <2>2 DEF Reply
<1>5. reply[s].code \in Nat /\ reply[s].body \in Seq(Units)
  BY DEF Response
<1>6. CASE PassThrough(s) \/ StartStream(s)
  BY <1>5, <1>6 DEF PassThrough, StartStream
<1>7. CASE FailClosed(s) \/ ReadFails(s) \/ RejectBody(s)
  <2>1. \E e \in Errors : /\ err' = [err EXCEPT ![s] = e]
                          /\ status' = [status EXCEPT ![s] = writeProxyError(e)]
    BY <1>7 DEF FailClosed, ReadFails, RejectBody, Errors
  <2>2. err' \in [Slots -> Errors] /\ status' \in [Slots -> Nat]
    BY <2>1, StatusTypes
  <2>3. /\ pc' = [pc EXCEPT ![s] = "audit"] /\ got' = [got EXCEPT ![s] = own]
        /\ UNCHANGED <<cfg, in, gone, sent, reply, rest, changed, audited, lock, log>>
    BY <1>7 DEF FailClosed, ReadFails, RejectBody
  <2> QED
    BY <1>own, <2>2, <2>3
<1>8. CASE TransformBody(s)
  <2>1. Transformed(s) \in Seq(Units) /\ reply[s] \in Response
    BY TransformedType
  <2>2. (Transformed(s) # ReadUnits(reply[s].body)) \in BOOLEAN
    OBVIOUS
  <2>3. changed' \in [Slots -> BOOLEAN]
    BY <1>8, <2>2 DEF TransformBody
  <2> QED
    BY <1>5, <1>8, <2>1, <2>3 DEF TransformBody
<1>9. CASE CopyUnit(s) \/ StreamFrame(s)
  <2>1. rest[s] \in Seq(Units) /\ rest[s] # <<>> /\ got[s] \in Seq(Units)
    BY <1>9 DEF CopyUnit, StreamFrame
  <2>2. Head(rest[s]) \in Units /\ Tail(rest[s]) \in Seq(Units) /\ StreamUnit(s) \in Units
    BY <2>1 DEF StreamUnit, Units
  <2>3. \A unit \in Units : Append(got[s], unit) \in Seq(Units)
    BY <2>1
  <2>4. \E unit \in Units : /\ got' = [got EXCEPT ![s] = Append(got[s], unit)]
                            /\ rest' = [rest EXCEPT ![s] = Tail(rest[s])]
    BY <1>9, <2>2 DEF CopyUnit, StreamFrame
  <2>5. got' \in [Slots -> Seq(Units)] /\ rest' \in [Slots -> Seq(Units)]
    BY <2>2, <2>3, <2>4
  <2>6. UNCHANGED <<cfg, pc, in, gone, sent, reply, status, err, changed, audited, lock, log>>
    BY <1>9 DEF CopyUnit, StreamFrame
  <2> QED
    BY <2>5, <2>6
<1>10. CASE CopyFails(s) \/ CopyEnds(s)
  BY <1>10 DEF CopyFails, CopyEnds
<1>11. CASE BeginLog(s)
  <2>1. Entry(s) \in Entries
    BY DEF Entry, Entries, PastLength, PastAccept, PastPolicy
  <2> QED
    BY <1>11, <2>1 DEF BeginLog
<1>12. CASE EndLog(s)
  BY <1>12 DEF EndLog
<1>13. CASE HangUp(s)
  BY <1>13 DEF HangUp
<1> QED
  BY <1>1, <1>2, <1>3, <1>4, <1>6, <1>7, <1>8, <1>9, <1>10, <1>11, <1>12, <1>13 DEF Step

\* Every variable of the handler keeps its type.
THEOREM HandlerTypes == Spec => []TypeOK
  BY InitType, TypeStep, PTL DEF Spec

-----------------------------------------------------------------------------
(* What the other slots see of a step of one slot.                         *)

\* Nothing that a slot's invariant is about changes.
Untouched(t) ==
    /\ cfg' = cfg /\ pc'[t] = pc[t] /\ in'[t] = in[t] /\ sent'[t] = sent[t]
    /\ reply'[t] = reply[t] /\ rest'[t] = rest[t] /\ got'[t] = got[t]
    /\ status'[t] = status[t] /\ err'[t] = err[t]
    /\ changed'[t] = changed[t] /\ audited'[t] = audited[t]

LEMMA OthersUntouched ==
  ASSUME TypeOK, NEW s \in Slots, Step(s), NEW t \in Slots, t # s
  PROVE  Untouched(t)
<1> USE DEF TypeOK, Untouched
<1>1. CASE Refuse(s) \/ Forward(s) \/ Reply(s) \/ HangUp(s)
  BY <1>1 DEF Refuse, Forward, Reply, HangUp
<1>2. CASE \E e \in TransportErrors(s) : RoundTripFails(s, e)
  BY <1>2 DEF RoundTripFails
<1>3. CASE FailClosed(s) \/ ReadFails(s) \/ RejectBody(s)
  BY <1>3 DEF FailClosed, ReadFails, RejectBody
<1>4. CASE PassThrough(s) \/ StartStream(s) \/ TransformBody(s)
  BY <1>4 DEF PassThrough, StartStream, TransformBody
<1>5. CASE CopyUnit(s) \/ StreamFrame(s) \/ CopyFails(s) \/ CopyEnds(s)
  BY <1>5 DEF CopyUnit, StreamFrame, CopyFails, CopyEnds
<1>6. CASE BeginLog(s) \/ EndLog(s)
  BY <1>6 DEF BeginLog, EndLog
<1> QED
  BY <1>1, <1>2, <1>3, <1>4, <1>5, <1>6 DEF Step

-----------------------------------------------------------------------------
(* What leaves with the host's credential.                                 *)

LEMMA OutboundVetted ==
  ASSUME NEW i \in Input, PastLength(i)
  PROVE  /\ i.token /\ ~i.upgrade /\ i.parsed
         /\ Outbound(i).req = i.req /\ Authorize(cfg, i.req)
         /\ Outbound(i).headers \intersect (scrubExact \union scrubFamilies) = {}
         /\ RedactionEnabled(cfg) =>
               /\ Outbound(i).accept # {}
               /\ Outbound(i).accept \subseteq {"json", "json;as=Table"}
         /\ Outbound(i).size <= BodyCap
<1>1. PastAccept(i)
  BY DEF PastLength
<1>2. i.token /\ ~i.upgrade /\ i.parsed /\ Authorize(cfg, i.req)
  BY <1>1 DEF PastAccept, PastPolicy, PastParse, PastToken, PastUpgrade
<1>3. negotiateJSON(i.accept) \subseteq {"json", "json;as=Table"}
  BY DEF negotiateJSON
<1>4. RedactionEnabled(cfg) => Outbound(i).accept = negotiateJSON(i.accept)
  BY DEF Outbound
<1>5. Outbound(i).headers \intersect (scrubExact \union scrubFamilies) = {}
  BY DEF Outbound, Scrub
<1>6. Outbound(i).size <= BodyCap /\ Outbound(i).req = i.req
  BY CapAssumption DEF Outbound, Input
<1> QED
  BY <1>1, <1>2, <1>3, <1>4, <1>5, <1>6 DEF PastAccept

Vetted(s) ==
    sent[s] # NotSent =>
        /\ in[s].token /\ ~in[s].upgrade /\ in[s].parsed
        /\ sent[s].req = in[s].req /\ Authorize(cfg, sent[s].req)
        /\ sent[s].headers \intersect (scrubExact \union scrubFamilies) = {}
        /\ RedactionEnabled(cfg) =>
              sent[s].accept # {} /\ sent[s].accept \subseteq {"json", "json;as=Table"}
        /\ sent[s].size <= BodyCap

LEMMA VettedStep ==
  ASSUME TypeOK, NEW s \in Slots, Step(s), Vetted(s)
  PROVE  Vetted(s)'
<1> USE DEF TypeOK
<1>1. CASE Forward(s)
  <2>1. in[s] \in Input /\ PastLength(in[s])
    BY <1>1 DEF Forward
  <2>2. cfg' = cfg /\ in' = in /\ sent'[s] = Outbound(in[s])
    BY <1>1 DEF Forward
  <2> QED
    BY <2>1, <2>2, OutboundVetted DEF Vetted
<1>2. CASE ~Forward(s)
  <2>1. cfg' = cfg /\ in' = in /\ sent' = sent
    BY <1>2 DEF Step, Refuse, RoundTripFails, Reply, PassThrough, StartStream, FailClosed,
           ReadFails, RejectBody, TransformBody, CopyUnit, StreamFrame, CopyFails, CopyEnds,
           BeginLog, EndLog, HangUp
  <2> QED
    BY <2>1 DEF Vetted
<1> QED
  BY <1>1, <1>2

VettedInv == TypeOK /\ \A s \in Slots : Vetted(s)

LEMMA VettedInvariant == Spec => []VettedInv
<1>1. Init => VettedInv
  BY InitType DEF Init, VettedInv, Vetted
<1>2. VettedInv /\ [Next]_vars => VettedInv'
  <2> SUFFICES ASSUME VettedInv, [Next]_vars PROVE VettedInv'
    OBVIOUS
  <2>1. TypeOK'
    BY TypeStep DEF VettedInv
  <2>2. ASSUME NEW t \in Slots PROVE Vetted(t)'
    <3>1. CASE UNCHANGED vars
      BY <3>1 DEF VettedInv, Vetted, vars, slotVars
    <3>2. ASSUME NEW s \in Slots, Step(s) PROVE Vetted(t)'
      <4>1. CASE t = s
        BY <3>2, <4>1, VettedStep DEF VettedInv
      <4>2. CASE t # s
        <5>1. Untouched(t) /\ Vetted(t)
          BY <3>2, <4>2, OthersUntouched DEF VettedInv
        <5> QED
          BY <5>1 DEF Vetted, Untouched
      <4> QED
        BY <4>1, <4>2
    <3> QED
      BY <3>1, <3>2, NextIsStep
  <2> QED
    BY <2>1, <2>2 DEF VettedInv
<1> QED
  BY <1>1, <1>2, PTL DEF Spec

\* Whatever uses the host's credential was authenticated, parsed and permitted,
\* scrubbed, asks for JSON alone in the strict mode, and keeps to the body cap.
THEOREM OnlyVettedHolds == Spec => []OnlyVetted
<1>1. VettedInv => OnlyVetted
  BY DEF VettedInv, Vetted, OnlyVetted
<1> QED
  BY <1>1, VettedInvariant, PTL

\* However the requests of a client interleave, the host's credential is never
\* used to open a session, mint a credential, or cross the strict mode's boundary.
THEOREM NothingDeniedLeavesHolds == Spec => []NothingDeniedLeaves
<1>1. VettedInv => NothingDeniedLeaves
  <2> SUFFICES ASSUME VettedInv, NEW s \in Slots, sent[s] # NotSent, sent[s].req.isResource
               PROVE  /\ ~Escalates(sent[s].req)
                      /\ cfg.mode = Strict => WithinBoundary(sent[s].req)
    BY DEF NothingDeniedLeaves
  <2>1. AuthorizesResourceKind(cfg, sent[s].req)
    BY DEF VettedInv, Vetted, Authorize
  <2>2. ~Escalates(sent[s].req)
    BY <2>1, NothingEscalates
  <2>3. cfg.extra = {} \/ ValidateExtension(cfg.extra)
    BY ConfigsAssumption DEF VettedInv, TypeOK
  <2> QED
    BY <2>1, <2>2, <2>3, StrictWithin
<1> QED
  BY <1>1, VettedInvariant, PTL

-----------------------------------------------------------------------------
(* What a client is given: of the promised responses nothing unfiltered,   *)
(* and a part never for the whole.                                         *)

Harmless(units) == ~Has(units, "dirty") /\ ~Has(units, "bad")
Rowless(units) == ~Has(units, "rows")

LEMMA ReadWhole ==
  ASSUME NEW body \in Seq(Units), ~(Len(ReadUnits(body)) > RespCap)
  PROVE  Len(ReadUnits(body)) = Len(body)
  BY CapAssumption DEF ReadUnits

LEMMA ReadAll ==
  ASSUME NEW body \in Seq(Units), ~(Len(ReadUnits(body)) > RespCap)
  PROVE  ReadUnits(body) = body
<1>1. Len(body) \in Nat
  OBVIOUS
<1>2. CASE Len(body) <= RespCap
  BY <1>1, <1>2, CapAssumption DEF ReadUnits
<1>3. CASE ~(Len(body) <= RespCap)
  BY <1>1, <1>3, CapAssumption DEF ReadUnits
<1> QED
  BY <1>2, <1>3

LEMMA TailAt ==
  ASSUME NEW left \in Seq(Units), left # <<>>, NEW j \in DOMAIN Tail(left)
  PROVE  j \in Nat /\ Tail(left)[j] = left[j + 1] /\ j + 1 \in DOMAIN left
<1>1. Tail(left) \in Seq(Units) /\ Len(Tail(left)) = Len(left) - 1 /\ Len(left) \in Nat
  OBVIOUS
<1>2. j \in 1..(Len(left) - 1)
  BY <1>1
<1> QED
  BY <1>1, <1>2

LEMMA CleanHarmless ==
  ASSUME NEW body \in Seq(Units), ~Has(body, "bad") PROVE Harmless(Clean(body))
  BY DEF Harmless, Has, Clean

LEMMA CleanRowless == ASSUME NEW body \in Seq(Units) PROVE Rowless(Clean(body))
  BY DEF Rowless, Has, Clean

LEMMA AppendHarmless ==
  ASSUME NEW units \in Seq(Units), Harmless(units), NEW unit \in {"clean", "rows", "cut"}
  PROVE  Harmless(Append(units, unit))
  BY DEF Harmless, Has, Units

\* A unit that is appended is the only one by which a sequence may come to hold rows.
LEMMA AppendRowless ==
  ASSUME NEW units \in Seq(Units), NEW unit \in Units, Has(Append(units, unit), "rows")
  PROVE  Has(units, "rows") \/ unit = "rows"
  BY DEF Has

LEMMA TakeRows ==
  ASSUME NEW units \in Seq(Units), units # <<>>, Has(Tail(units), "rows") \/ Head(units) = "rows"
  PROVE  Has(units, "rows")
<1>1. CASE Head(units) = "rows"
  <2>1. 1 \in DOMAIN units /\ units[1] = "rows"
    BY <1>1
  <2> QED
    BY <2>1 DEF Has
<1>2. CASE Has(Tail(units), "rows")
  <2>1. PICK j \in DOMAIN Tail(units) : Tail(units)[j] = "rows"
    BY <1>2 DEF Has
  <2> QED
    BY <2>1, TailAt DEF Has
<1> QED
  BY <1>1, <1>2

LEMMA TakeHarmless ==
  ASSUME NEW units \in Seq(Units), Harmless(units), units # <<>>
  PROVE  Harmless(Tail(units)) /\ Head(units) \in {"clean", "rows", "cut"}
  BY DEF Harmless, Has, Units

LEMMA MoveUnit ==
  ASSUME NEW out \in Seq(Units), NEW left \in Seq(Units), left # <<>>, NEW unit \in Units
  PROVE  Len(Append(out, unit)) + Len(Tail(left)) = Len(out) + Len(left)
<1>1. Len(Append(out, unit)) = Len(out) + 1 /\ Len(out) \in Nat
  OBVIOUS
<1>2. Len(Tail(left)) = Len(left) - 1 /\ Len(left) \in Nat
  OBVIOUS
<1> QED
  BY <1>1, <1>2

LEMMA SameRoute ==
  ASSUME NEW s \in Slots, cfg' = cfg, in'[s] = in[s], reply'[s] = reply[s]
  PROVE  /\ Route(s)' = Route(s) /\ PastLength(in[s])' = PastLength(in[s])
         /\ (Discovers(s)' <=> Discovers(s)) /\ (Promised(s)' <=> Promised(s))
<1>1. Discovers(s)' <=> Discovers(s)
  BY DEF Discovers
<1>2. (Eligible(s)' <=> Eligible(s)) /\ (Promised(s)' <=> Promised(s))
  BY <1>1 DEF Eligible, Promised
<1>3. Route(s)' = Route(s)
  BY <1>1, <1>2 DEF Route
<1>4. PastLength(in[s])' = PastLength(in[s])
  BY DEF PastLength, PastAccept, PastPolicy, PastParse, PastToken, PastUpgrade
<1> QED
  BY <1>1, <1>2, <1>3, <1>4

\* By where its goroutine is: what a slot has sent and received so far.  Rows come
\* only to who asked for Tables, and are let through only in a stream.
TablesAsked(s) == "json;as=Table" \in sent[s].accept
Asked(s) == pc[s] = "modify" /\ Has(reply[s].body, "rows") => TablesAsked(s)
Fresh(s) == pc[s] = "received" => sent[s] = NotSent
Unanswered(s) ==
    pc[s] \in {"received", "roundtrip", "modify"} => got[s] = <<>> /\ err[s] = "none"
Copying(s) ==
    pc[s] \in {"copy", "stream"} =>
        /\ err[s] = "none"
        /\ Len(got[s]) + Len(rest[s]) = Len(reply[s].body)
        /\ pc[s] = "stream" => /\ ~Discovers(s) /\ Route(s) = "stream"
                               /\ Has(rest[s], "rows") => TablesAsked(s)
        /\ pc[s] = "copy" /\ Promised(s) => Harmless(rest[s]) /\ Rowless(rest[s])
Whole(s) ==
    sent[s] # NotSent /\ err[s] = "none" /\ pc[s] \in {"audit", "writing", "done"}
        => Len(got[s]) = Len(reply[s].body)
Kept(s) ==
    Promised(s) => /\ Harmless(got[s])
                   /\ Has(got[s], "rows") => Route(s) = "stream" /\ TablesAsked(s)

Delivery(s) ==
    Fresh(s) /\ Unanswered(s) /\ Asked(s) /\ Copying(s) /\ Whole(s) /\ Kept(s)

LEMMA UntouchedDelivery ==
  ASSUME NEW t \in Slots, Untouched(t), Delivery(t) PROVE Delivery(t)'
<1>1. /\ Route(t)' = Route(t)
      /\ (Discovers(t)' <=> Discovers(t)) /\ (Promised(t)' <=> Promised(t))
  BY SameRoute DEF Untouched
<1>2. Fresh(t)' /\ Unanswered(t)' /\ Asked(t)' /\ Whole(t)'
  BY DEF Untouched, Delivery, Fresh, Unanswered, Asked, TablesAsked, Whole
<1>3. Copying(t)'
  BY <1>1 DEF Untouched, Delivery, Copying, Harmless, Rowless, TablesAsked
<1>4. Kept(t)'
  BY <1>1 DEF Untouched, Delivery, Kept, Harmless, TablesAsked
<1> QED
  BY <1>2, <1>3, <1>4 DEF Delivery

\* An answer of kubegate's own, which ends the request.
LEMMA OwnAnswer ==
  ASSUME TypeOK, NEW s \in Slots, Delivery(s), got'[s] = <<"clean">>, pc'[s] = "audit",
         sent'[s] = NotSent \/ err'[s] # "none"
  PROVE  Delivery(s)'
<1>1. Harmless(got'[s]) /\ ~Has(got'[s], "rows")
  BY DEF Harmless, Has
<1>2. Fresh(s)' /\ Unanswered(s)' /\ Asked(s)' /\ Copying(s)' /\ Whole(s)'
  BY DEF Fresh, Unanswered, Asked, Copying, Whole
<1>3. Kept(s)'
  BY <1>1 DEF Kept, Harmless
<1> QED
  BY <1>2, <1>3 DEF Delivery

\* A response starts on its way to the client.
LEMMA RelayStarts ==
  ASSUME TypeOK, NEW s \in Slots, Delivery(s), pc[s] = "modify", pc'[s] \in {"copy", "stream"},
         UNCHANGED <<cfg, in, sent, reply, got, err>>, Len(rest'[s]) = Len(reply[s].body),
         pc'[s] = "stream" =>
             ~Discovers(s) /\ Route(s) = "stream" /\ rest'[s] = reply[s].body,
         pc'[s] = "copy" /\ Promised(s) => Harmless(rest'[s]) /\ Rowless(rest'[s])
  PROVE  Delivery(s)'
<1>1. /\ Route(s)' = Route(s)
      /\ (Discovers(s)' <=> Discovers(s)) /\ (Promised(s)' <=> Promised(s))
  BY SameRoute
<1>2. got[s] = <<>> /\ err[s] = "none"
  BY DEF Delivery, Unanswered
<1>3. Harmless(got'[s]) /\ ~Has(got'[s], "rows")
  BY <1>2 DEF Harmless, Has
<1>4. Fresh(s)' /\ Unanswered(s)' /\ Asked(s)' /\ Whole(s)'
  BY DEF Fresh, Unanswered, Asked, Whole
<1>5. Len(got'[s]) + Len(rest'[s]) = Len(reply'[s].body)
  <2>1. reply[s].body \in Seq(Units)
    BY DEF TypeOK, Response
  <2> QED
    BY <1>2, <2>1
<1>6. pc'[s] = "stream" /\ Has(rest'[s], "rows") => TablesAsked(s)'
  BY DEF Delivery, Asked, TablesAsked
<1>7. (Harmless(rest[s])' <=> Harmless(rest'[s])) /\ (Rowless(rest[s])' <=> Rowless(rest'[s]))
  BY DEF Harmless, Rowless
<1>8. Copying(s)'
  BY <1>1, <1>2, <1>5, <1>6, <1>7 DEF Copying
<1>9. Kept(s)'
  BY <1>3 DEF Kept, Harmless
<1> QED
  BY <1>4, <1>8, <1>9 DEF Delivery

\* What was sent, answered and delivered stands, and the goroutine moves on.
LEMMA MovesOn ==
  ASSUME TypeOK, NEW s \in Slots, Delivery(s), pc'[s] \in {"audit", "writing", "done", "aborted"},
         UNCHANGED <<cfg, in, sent, reply, got, err>>,
         pc'[s] = "aborted" \/ pc[s] \in {"audit", "writing"}
            \/ Len(got[s]) = Len(reply[s].body)
  PROVE  Delivery(s)'
<1>1. Route(s)' = Route(s) /\ (Promised(s)' <=> Promised(s))
  BY SameRoute
<1>2. Fresh(s)' /\ Unanswered(s)' /\ Asked(s)' /\ Copying(s)'
  BY DEF Fresh, Unanswered, Asked, Copying
<1>3. Whole(s)'
  BY DEF Delivery, Whole
<1>4. Kept(s)'
  BY <1>1 DEF Delivery, Kept, Harmless, TablesAsked
<1> QED
  BY <1>2, <1>3, <1>4 DEF Delivery

\* One more unit goes out to the client.
LEMMA UnitDelivery ==
  ASSUME TypeOK, NEW s \in Slots, Delivery(s), CopyUnit(s) \/ StreamFrame(s)
  PROVE  Delivery(s)'
<1> USE DEF TypeOK
<1>b. rest[s] \in Seq(Units) /\ got[s] \in Seq(Units) /\ rest[s] # <<>>
  BY DEF CopyUnit, StreamFrame
<1>same. /\ Route(s)' = Route(s)
         /\ (Discovers(s)' <=> Discovers(s)) /\ (Promised(s)' <=> Promised(s))
  BY SameRoute DEF CopyUnit, StreamFrame
<1> DEFINE unit == IF pc[s] = "stream" THEN StreamUnit(s) ELSE Head(rest[s])
<1>1. unit \in Units
  BY <1>b DEF StreamUnit, Units
<1>2. /\ got'[s] = Append(got[s], unit) /\ rest'[s] = Tail(rest[s])
      /\ pc[s] \in {"copy", "stream"}
      /\ UNCHANGED <<cfg, pc, in, sent, reply, err>>
  BY DEF CopyUnit, StreamFrame
<1>3. Len(got'[s]) + Len(rest'[s]) = Len(reply[s].body)
  <2>1. Len(got[s]) + Len(rest[s]) = Len(reply[s].body)
    BY <1>2 DEF Delivery, Copying
  <2>2. Len(Append(got[s], unit)) + Len(Tail(rest[s])) = Len(got[s]) + Len(rest[s])
    BY <1>b, <1>1, MoveUnit
  <2> QED
    BY <1>2, <2>1, <2>2
<1>4. Promised(s) => /\ unit \in {"clean", "rows", "cut"}
                     /\ unit = "rows" => Route(s) = "stream" /\ TablesAsked(s)
  <2>1. CASE pc[s] = "copy"
    BY <1>b, <1>2, <2>1, TakeHarmless, TakeRows DEF Delivery, Copying, Rowless
  <2>2. CASE pc[s] = "stream"
    <3>1. Head(rest[s]) = "rows" => TablesAsked(s)
      BY <1>b, <1>2, <2>2, TakeRows DEF Delivery, Copying
    <3> QED
      BY <1>2, <2>2, <3>1 DEF Delivery, Copying, StreamUnit
  <2> QED
    BY <1>2, <2>1, <2>2
<1>5. Promised(s) => /\ Harmless(got'[s])
                     /\ Has(got'[s], "rows") => Route(s) = "stream" /\ TablesAsked(s)
  <2> HIDE DEF unit
  <2> QED
    BY <1>b, <1>1, <1>2, <1>4, AppendHarmless, AppendRowless DEF Delivery, Kept
<1>6. pc[s] = "copy" /\ Promised(s) => Harmless(rest'[s]) /\ Rowless(rest'[s])
  BY <1>b, <1>2, TakeHarmless, TakeRows DEF Delivery, Copying, Rowless
<1>7. Has(rest'[s], "rows") => Has(rest[s], "rows")
  BY <1>b, <1>2, TakeRows
<1> HIDE DEF unit
<1>8. Fresh(s)' /\ Unanswered(s)' /\ Asked(s)' /\ Whole(s)'
  BY <1>2 DEF Fresh, Unanswered, Asked, Whole
<1>9. Copying(s)'
  <2>1. /\ Harmless(rest[s])' <=> Harmless(rest'[s])
        /\ Rowless(rest[s])' <=> Rowless(rest'[s])
    BY DEF Harmless, Rowless
  <2> QED
    BY <1>2, <1>3, <1>6, <1>7, <1>same, <2>1 DEF Delivery, Copying, TablesAsked
<1>10. Kept(s)'
  BY <1>2, <1>5, <1>same DEF Kept, Harmless, TablesAsked
<1> QED
  BY <1>8, <1>9, <1>10 DEF Delivery

LEMMA DeliveryStep ==
  ASSUME TypeOK, NEW s \in Slots, Step(s), Delivery(s)
  PROVE  Delivery(s)'
<1> USE DEF TypeOK
<1>b. reply[s].body \in Seq(Units) /\ rest[s] \in Seq(Units) /\ got[s] \in Seq(Units)
  BY DEF Response
<1>1. CASE Refuse(s)
  <2>1. sent'[s] = NotSent /\ got'[s] = <<"clean">> /\ pc'[s] = "audit"
    BY <1>1 DEF Refuse, Delivery, Fresh
  <2> QED
    BY <2>1, OwnAnswer
<1>2. CASE Forward(s)
  <2>1. /\ got[s] = <<>> /\ err[s] = "none" /\ pc'[s] = "roundtrip"
        /\ UNCHANGED <<cfg, in, reply, got, err>>
    BY <1>2 DEF Forward, Delivery, Unanswered
  <2>2. Fresh(s)' /\ Unanswered(s)' /\ Asked(s)' /\ Copying(s)' /\ Whole(s)'
    BY <2>1 DEF Fresh, Unanswered, Asked, Copying, Whole
  <2>3. Kept(s)'
    BY <2>1 DEF Kept, Harmless, Has
  <2> QED
    BY <2>2, <2>3 DEF Delivery
<1>3. ASSUME \E e \in Errors \ {"none"}, from \in {"roundtrip", "modify"} : Fail(s, from, e)
      PROVE  Delivery(s)'
  <2>1. err'[s] # "none" /\ got'[s] = <<"clean">> /\ pc'[s] = "audit"
    BY <1>3
  <2> QED
    BY <2>1, OwnAnswer
<1>4. CASE \E e \in TransportErrors(s) : RoundTripFails(s, e)
  BY <1>3, <1>4 DEF RoundTripFails, TransportErrors, Errors
<1>5. CASE FailClosed(s) \/ ReadFails(s) \/ RejectBody(s)
  BY <1>3, <1>5 DEF FailClosed, ReadFails, RejectBody, Errors
<1>6. CASE Reply(s)
  <2>1. /\ got[s] = <<>> /\ err[s] = "none" /\ pc'[s] = "modify"
        /\ UNCHANGED <<cfg, in, sent, got, err>>
    BY <1>6 DEF Reply, Delivery, Unanswered
  <2>2. Has(reply'[s].body, "rows") => TablesAsked(s)
    BY <1>6 DEF Reply, MayReply, TablesAsked
  <2>3. Fresh(s)' /\ Unanswered(s)' /\ Asked(s)' /\ Copying(s)' /\ Whole(s)'
    BY <2>1, <2>2 DEF Fresh, Unanswered, Asked, TablesAsked, Copying, Whole
  <2>4. Kept(s)'
    BY <2>1 DEF Kept, Harmless, Has
  <2> QED
    BY <2>3, <2>4 DEF Delivery
<1>7. CASE PassThrough(s)
  <2>1. ~Promised(s)
    BY <1>7 DEF PassThrough, Route, Promised, Eligible
  <2>2. /\ pc[s] = "modify" /\ pc'[s] = "copy" /\ rest'[s] = reply[s].body
        /\ UNCHANGED <<cfg, in, sent, reply, got, err>>
    BY <1>7 DEF PassThrough
  <2> QED
    BY <2>1, <2>2, RelayStarts
<1>8. CASE StartStream(s)
  <2>1. ~Discovers(s) /\ Route(s) = "stream"
    BY <1>8 DEF StartStream, Route
  <2>2. /\ pc[s] = "modify" /\ pc'[s] = "stream" /\ rest'[s] = reply[s].body
        /\ UNCHANGED <<cfg, in, sent, reply, got, err>>
    BY <1>8 DEF StartStream
  <2> QED
    BY <2>1, <2>2, RelayStarts
<1>9. CASE TransformBody(s)
  <2> DEFINE body == ReadUnits(reply[s].body)
  <2>1. body \in Seq(Units) /\ Transformed(s) \in Seq(Units)
    BY <1>b, ReadUnitsType, TransformedType
  <2>2. Len(Transformed(s)) = Len(reply[s].body)
    BY <1>9, <1>b, TransformedType, ReadWhole DEF TransformBody, Uninspectable
  <2>3. Promised(s) => Harmless(Transformed(s)) /\ Rowless(Transformed(s))
    BY <1>9, <2>1, CleanHarmless, CleanRowless
       DEF TransformBody, Uninspectable, Transformed, Transforms, Promised
  <2>4. /\ pc[s] = "modify" /\ pc'[s] = "copy" /\ rest'[s] = Transformed(s)
        /\ UNCHANGED <<cfg, in, sent, reply, got, err>>
    BY <1>9 DEF TransformBody
  <2> QED
    BY <2>2, <2>3, <2>4, RelayStarts
<1>10. CASE CopyUnit(s) \/ StreamFrame(s)
  BY <1>10, UnitDelivery
<1>11. CASE CopyFails(s)
  <2>1. pc'[s] = "aborted" /\ UNCHANGED <<cfg, in, sent, reply, got, err>>
    BY <1>11 DEF CopyFails
  <2> QED
    BY <2>1, MovesOn
<1>12. CASE CopyEnds(s)
  <2>1. Len(got[s]) = Len(reply[s].body)
    <3>1. Len(rest[s]) = 0 /\ Len(got[s]) \in Nat
      BY <1>12, <1>b DEF CopyEnds
    <3>2. Len(got[s]) + Len(rest[s]) = Len(reply[s].body)
      BY <1>12 DEF CopyEnds, Delivery, Copying
    <3> QED
      BY <3>1, <3>2
  <2>2. pc'[s] = "audit" /\ UNCHANGED <<cfg, in, sent, reply, got, err>>
    BY <1>12 DEF CopyEnds
  <2> QED
    BY <2>1, <2>2, MovesOn
<1>13. CASE BeginLog(s) \/ EndLog(s)
  <2>1. /\ pc[s] \in {"audit", "writing"} /\ pc'[s] \in {"writing", "done"}
        /\ UNCHANGED <<cfg, in, sent, reply, got, err>>
    BY <1>13 DEF BeginLog, EndLog
  <2> QED
    BY <2>1, MovesOn
<1>14. CASE HangUp(s)
  <2>1. Untouched(s)
    BY <1>14 DEF HangUp, Untouched
  <2> QED
    BY <2>1, UntouchedDelivery
<1> QED
  BY <1>1, <1>2, <1>4, <1>5, <1>6, <1>7, <1>8, <1>9, <1>10, <1>11, <1>12, <1>13, <1>14
     DEF Step

DeliveryInv == TypeOK /\ \A s \in Slots : Delivery(s)

LEMMA DeliveryInvariant == Spec => []DeliveryInv
<1>1. Init => DeliveryInv
  BY InitType DEF Init, DeliveryInv, Delivery, Fresh, Unanswered, Asked, Copying, Whole, Kept,
                  Harmless, Has
<1>2. DeliveryInv /\ [Next]_vars => DeliveryInv'
  <2> SUFFICES ASSUME DeliveryInv, [Next]_vars PROVE DeliveryInv'
    OBVIOUS
  <2>1. TypeOK'
    BY TypeStep DEF DeliveryInv
  <2>2. ASSUME NEW t \in Slots PROVE Delivery(t)'
    <3>1. CASE UNCHANGED vars
      <4>1. Untouched(t)
        BY <3>1 DEF vars, slotVars, Untouched
      <4> QED
        BY <4>1, UntouchedDelivery DEF DeliveryInv
    <3>2. ASSUME NEW s \in Slots, Step(s) PROVE Delivery(t)'
      <4>1. CASE t = s
        BY <3>2, <4>1, DeliveryStep DEF DeliveryInv
      <4>2. CASE t # s
        BY <3>2, <4>2, OthersUntouched, UntouchedDelivery DEF DeliveryInv
      <4> QED
        BY <4>1, <4>2
    <3> QED
      BY <3>1, <3>2, NextIsStep
  <2> QED
    BY <2>1, <2>2 DEF DeliveryInv
<1> QED
  BY <1>1, <1>2, PTL DEF Spec

\* On every route, of a response the strict mode promises to filter, nothing
\* uninspectable reaches the client, and nothing unfiltered but the rows of the
\* Tables of a watch that asks for them.
THEOREM StrictContentHolds == Spec => []StrictContent
<1>1. DeliveryInv => StrictContent
  BY DEF DeliveryInv, Delivery, Kept, Harmless, TablesAsked, StrictContent
<1> QED
  BY <1>1, DeliveryInvariant, PTL

\* A response that ends normally is as long as the cluster's, whatever the caps.
THEOREM NoTruncationHolds == Spec => []NoTruncation
<1>1. DeliveryInv => NoTruncation
  BY DEF DeliveryInv, Delivery, Whole, NoTruncation
<1> QED
  BY <1>1, DeliveryInvariant, PTL

-----------------------------------------------------------------------------
(* What is out is out.                                                     *)

Appends(s) ==
    got[s] # <<>> =>
        /\ status'[s] = status[s]
        /\ Len(got'[s]) >= Len(got[s])
        /\ \A i \in DOMAIN got[s] : got'[s][i] = got[s][i]

LEMMA SameAppends ==
  ASSUME TypeOK, NEW s \in Slots, got'[s] = got[s], status'[s] = status[s]
  PROVE  Appends(s)
  BY DEF Appends, TypeOK

LEMMA StepAppends ==
  ASSUME DeliveryInv, NEW s \in Slots, Step(s) PROVE Appends(s)
<1> USE DEF DeliveryInv
<1>1. CASE pc[s] \in {"received", "roundtrip", "modify"}
  BY <1>1 DEF Appends, Delivery, Unanswered
<1>2. CASE CopyUnit(s) \/ StreamFrame(s)
  <2>1. got[s] \in Seq(Units) /\ status' = status
    BY <1>2 DEF CopyUnit, StreamFrame, TypeOK
  <2>2. PICK unit : got'[s] = Append(got[s], unit)
    BY <1>2 DEF CopyUnit, StreamFrame, TypeOK
  <2> QED
    BY <2>1, <2>2 DEF Appends
<1>3. CASE CopyFails(s) \/ CopyEnds(s) \/ BeginLog(s) \/ EndLog(s) \/ HangUp(s)
  <2>1. got' = got /\ status' = status
    BY <1>3 DEF CopyFails, CopyEnds, BeginLog, EndLog, HangUp
  <2> QED
    BY <2>1, SameAppends
<1> QED
  BY <1>1, <1>2, <1>3
     DEF Step, Refuse, Forward, RoundTripFails, Reply, PassThrough, StartStream, FailClosed,
         ReadFails, RejectBody, TransformBody

\* No step, of the slot itself or of another, takes back what a client has been
\* sent: neither the status nor a unit of the body.
THEOREM NeverRewrittenHolds == Spec => NeverRewritten
<1>1. DeliveryInv /\ [Next]_vars =>
         [\A s \in Slots : got[s] # <<>> =>
             /\ status'[s] = status[s]
             /\ Len(got'[s]) >= Len(got[s])
             /\ \A i \in DOMAIN got[s] : got'[s][i] = got[s][i]]_vars
  <2> SUFFICES ASSUME DeliveryInv, NEW s \in Slots, Step(s), NEW t \in Slots
               PROVE  Appends(t)
    BY NextIsStep DEF Appends
  <2>1. CASE t = s
    BY <2>1, StepAppends
  <2>2. CASE t # s
    BY <2>2, OthersUntouched, SameAppends DEF DeliveryInv, Untouched
  <2> QED
    BY <2>1, <2>2
<1> QED
  BY <1>1, DeliveryInvariant, PTL DEF Spec, NeverRewritten

-----------------------------------------------------------------------------
(* The audit log.                                                          *)

Holder == \A s \in Slots : pc[s] = "writing" => lock = s
Free == lock = Nobody => Len(log) % 2 = 0
Held == lock # Nobody => Len(log) % 2 = 1 /\ log[Len(log)] = lock
PassedOn == lock # Nobody => pc[lock] = "writing"
LogInv == TypeOK /\ Holder /\ PassedOn /\ Free /\ Held /\ LogWhole

LEMMA LogStep ==
  ASSUME LogInv, NEW s \in Slots, Step(s)
  PROVE  Holder' /\ PassedOn' /\ Free' /\ Held' /\ LogWhole'
<1> USE DEF LogInv
<1>0. log \in Seq(Slots) /\ Len(log) \in Nat /\ pc \in [Slots -> Locations] /\ s # Nobody
  BY NobodyAssumption DEF TypeOK
<1>1. CASE BeginLog(s)
  <2>1. /\ lock = Nobody /\ lock' = s /\ log' = Append(log, s)
        /\ pc[s] = "audit" /\ pc' = [pc EXCEPT ![s] = "writing"]
    BY <1>1 DEF BeginLog
  <2>2. Len(log') = Len(log) + 1 /\ log'[Len(log')] = s /\ Len(log') % 2 = 1
    <3>1. Len(log) % 2 = 0
      BY <2>1 DEF Free
    <3>2. Len(log') = Len(log) + 1 /\ log'[Len(log')] = s
      BY <1>0, <2>1
    <3> QED
      BY <1>0, <3>1, <3>2
  <2>3. /\ DOMAIN log' = DOMAIN log \union {Len(log')} /\ Len(log') \notin DOMAIN log
        /\ \A i \in DOMAIN log : log'[i] = log[i] /\ i # Len(log') /\ log[i] # s
    <3>1. \A i \in DOMAIN log : log[i] # s
      BY <2>1 DEF LogWhole, Accounted
    <3> QED
      BY <1>0, <2>1, <2>2, <3>1
  <2>4. Adjacent'
    BY <1>0, <2>1, <2>2 DEF LogWhole, Adjacent
  <2>5. OnceEach'
    BY <2>2, <2>3 DEF LogWhole, OnceEach
  <2>6. Accounted'
    <3> SUFFICES ASSUME NEW t \in Slots
                 PROVE  (\E i \in DOMAIN log' : log'[i] = t) <=> pc'[t] \in {"writing", "done"}
      BY DEF Accounted
    <3>1. CASE t = s
      BY <1>0, <2>1, <2>2, <2>3, <3>1
    <3>2. CASE t # s
      <4>1. (\E i \in DOMAIN log' : log'[i] = t) <=> \E i \in DOMAIN log : log[i] = t
        BY <2>2, <2>3, <3>2
      <4>2. pc'[t] = pc[t]
        BY <1>0, <2>1, <3>2
      <4> QED
        BY <4>1, <4>2 DEF LogWhole, Accounted
    <3> QED
      BY <3>1, <3>2
  <2>7. Holder' /\ PassedOn'
    BY <1>0, <2>1, NobodyAssumption DEF Holder, PassedOn
  <2> QED
    BY <1>0, <2>1, <2>2, <2>4, <2>5, <2>6, <2>7 DEF Free, Held, LogWhole
<1>2. CASE EndLog(s)
  <2>1. /\ lock = s /\ lock' = Nobody /\ log' = Append(log, s)
        /\ pc[s] = "writing" /\ pc' = [pc EXCEPT ![s] = "done"]
    BY <1>2 DEF EndLog, Holder
  <2>2. /\ Len(log) % 2 = 1 /\ log[Len(log)] = s
        /\ Len(log') = Len(log) + 1 /\ log'[Len(log')] = s /\ Len(log') % 2 = 0
    <3>1. Len(log) % 2 = 1 /\ log[Len(log)] = s
      BY <1>0, <2>1 DEF Held
    <3>2. Len(log') = Len(log) + 1 /\ log'[Len(log')] = s
      BY <1>0, <2>1
    <3> QED
      BY <1>0, <3>1, <3>2
  <2>3. /\ DOMAIN log' = DOMAIN log \union {Len(log')} /\ Len(log') \notin DOMAIN log
        /\ \A i \in DOMAIN log : log'[i] = log[i] /\ i # Len(log')
    BY <1>0, <2>1, <2>2
  <2>4. Len(log) \in DOMAIN log
    BY <1>0, <2>2
  <2>5. Adjacent'
    <3> SUFFICES ASSUME NEW i \in DOMAIN log', i % 2 = 0 PROVE log'[i] = log'[i - 1]
      BY DEF Adjacent
    <3>1. CASE i = Len(log')
      BY <1>0, <2>1, <2>2, <3>1
    <3>2. CASE i # Len(log')
      <4>1. i \in 1..Len(log) /\ i - 1 \in 1..Len(log)
        <5>1. i \in DOMAIN log
          BY <2>3, <3>2
        <5>2. i # 1
          BY <3>2
        <5> QED
          BY <1>0, <5>1, <5>2
      <4>2. log[i] = log[i - 1]
        BY <1>0, <4>1 DEF LogWhole, Adjacent
      <4> QED
        BY <1>0, <2>1, <4>1, <4>2
    <3> QED
      BY <3>1, <3>2
  <2>6. \A i \in DOMAIN log : i % 2 = 0 => log[i] # s
    <3> SUFFICES ASSUME NEW i \in DOMAIN log, i % 2 = 0, log[i] = s PROVE FALSE
      OBVIOUS
    <3>1. i - 1 \in DOMAIN log /\ log[i - 1] = s /\ (i - 1) % 2 = 1
      BY <1>0 DEF LogWhole, Adjacent
    <3>2. i - 1 = Len(log)
      BY <2>2, <2>4, <3>1 DEF LogWhole, OnceEach
    <3> QED
      BY <1>0, <3>2
  <2>7. OnceEach'
    <3> SUFFICES ASSUME NEW i \in DOMAIN log', NEW j \in DOMAIN log', log'[i] = log'[j],
                        i % 2 = j % 2
                 PROVE  i = j
      BY DEF OnceEach
    <3>1. CASE i \in DOMAIN log /\ j \in DOMAIN log
      BY <2>3, <3>1 DEF LogWhole, OnceEach
    <3>2. CASE i = Len(log') /\ j \in DOMAIN log
      BY <2>2, <2>3, <2>6, <3>2
    <3>3. CASE i \in DOMAIN log /\ j = Len(log')
      BY <2>2, <2>3, <2>6, <3>3
    <3> QED
      BY <2>3, <3>1, <3>2, <3>3
  <2>8. Accounted'
    <3> SUFFICES ASSUME NEW t \in Slots
                 PROVE  (\E i \in DOMAIN log' : log'[i] = t) <=> pc'[t] \in {"writing", "done"}
      BY DEF Accounted
    <3>1. CASE t = s
      BY <1>0, <2>1, <2>2, <2>3, <3>1
    <3>2. CASE t # s
      <4>1. (\E i \in DOMAIN log' : log'[i] = t) <=> \E i \in DOMAIN log : log[i] = t
        BY <2>2, <2>3, <3>2
      <4>2. pc'[t] = pc[t]
        BY <1>0, <2>1, <3>2
      <4> QED
        BY <4>1, <4>2 DEF LogWhole, Accounted
    <3> QED
      BY <3>1, <3>2
  <2>9. Holder' /\ PassedOn'
    BY <1>0, <2>1 DEF Holder, PassedOn
  <2>10. Free' /\ Held'
    BY <2>1, <2>2 DEF Free, Held
  <2> QED
    BY <2>5, <2>7, <2>8, <2>9, <2>10 DEF LogWhole
<1>3. CASE ~BeginLog(s) /\ ~EndLog(s)
  <2>1. lock' = lock /\ log' = log
    BY <1>3 DEF Step, Refuse, Forward, RoundTripFails, Reply, PassThrough, StartStream,
           FailClosed, ReadFails, RejectBody, TransformBody, CopyUnit, StreamFrame, CopyFails,
           CopyEnds, HangUp
  <2>2. \/ pc' = pc
        \/ /\ pc[s] \notin {"writing", "done"}
           /\ \E to \in Locations \ {"writing", "done"} : pc' = [pc EXCEPT ![s] = to]
    BY <1>3 DEF Step, Refuse, Forward, RoundTripFails, Reply, PassThrough, StartStream,
           FailClosed, ReadFails, RejectBody, TransformBody, CopyUnit, StreamFrame, CopyFails,
           CopyEnds, HangUp, Locations
  <2>3. \A t \in Slots : /\ pc'[t] = "writing" <=> pc[t] = "writing"
                         /\ pc'[t] \in {"writing", "done"} <=> pc[t] \in {"writing", "done"}
    BY <1>0, <2>2
  <2>4. Holder' /\ PassedOn' /\ Accounted'
    BY <2>1, <2>3 DEF Holder, PassedOn, TypeOK, LogWhole, Accounted
  <2>5. Adjacent' /\ OnceEach'
    BY <2>1 DEF LogWhole, Adjacent, OnceEach
  <2> QED
    BY <2>1, <2>4, <2>5 DEF Free, Held, LogWhole
<1> QED
  BY <1>1, <1>2, <1>3

LEMMA LogInvariant == Spec => []LogInv
<1>1. Init => LogInv
  BY InitType DEF Init, LogInv, Holder, PassedOn, Free, Held, LogWhole, Adjacent, OnceEach, Accounted
<1>2. LogInv /\ [Next]_vars => LogInv'
  <2> SUFFICES ASSUME LogInv, [Next]_vars PROVE LogInv'
    OBVIOUS
  <2>1. TypeOK'
    BY TypeStep DEF LogInv
  <2>2. CASE UNCHANGED vars
    BY <2>1, <2>2 DEF LogInv, Holder, PassedOn, Free, Held, LogWhole, Adjacent, OnceEach, Accounted,
                      vars, slotVars
  <2>3. CASE Next
    BY <2>1, <2>3, NextIsStep, LogStep DEF LogInv
  <2> QED
    BY <2>2, <2>3
<1> QED
  BY <1>1, <1>2, PTL DEF Spec

\* However requests interleave, the audit log holds one whole line of each that
\* got to its end, and nothing of any other.
THEOREM LogWholeHolds == Spec => []LogWhole
<1>1. LogInv => LogWhole
  BY DEF LogInv
<1> QED
  BY <1>1, LogInvariant, PTL

\* A request that waits for the audit logger can have it, or waits for one that is
\* in the middle of its line and needs nobody to end it: no cycle, and no mutex
\* left behind, by a request that broke off either.
THEOREM MutexPassedOn ==
  Spec => [](\A s \in Slots : pc[s] = "audit" =>
                lock = Nobody \/ (lock \in Slots \ {s} /\ pc[lock] = "writing"))
<1>1. LogInv => \A s \in Slots : pc[s] = "audit" =>
                   lock = Nobody \/ (lock \in Slots \ {s} /\ pc[lock] = "writing")
  BY DEF LogInv, PassedOn, TypeOK
<1> QED
  BY <1>1, LogInvariant, PTL

-----------------------------------------------------------------------------
(* Ending.  That requests end is for TLC; that they cannot go round in     *)
(* circles is proved.                                                      *)

\* How far a request is from its end, but for the units it has still to copy.
Stage == [received |-> 6, roundtrip |-> 5, modify |-> 4, copy |-> 3, stream |-> 3,
          audit |-> 2, writing |-> 1, done |-> 0, aborted |-> 0]

\* A later place, or the same place with one unit less to copy.
Nearer(s) == \/ Stage[pc'[s]] < Stage[pc[s]]
             \/ /\ pc[s] \in {"copy", "stream"} /\ pc'[s] = pc[s]
                /\ Len(rest[s]) = Len(rest'[s]) + 1

LEMMA StepNearer ==
  ASSUME TypeOK, NEW s \in Slots, Step(s), ~HangUp(s) PROVE Nearer(s)
<1> USE DEF TypeOK, Nearer, Stage
<1>1. CASE Refuse(s) \/ Forward(s) \/ Reply(s)
  BY <1>1 DEF Refuse, Forward, Reply
<1>2. CASE \E e \in TransportErrors(s) : RoundTripFails(s, e)
  BY <1>2 DEF RoundTripFails
<1>3. CASE FailClosed(s) \/ ReadFails(s) \/ RejectBody(s)
  BY <1>3 DEF FailClosed, ReadFails, RejectBody
<1>4. CASE PassThrough(s) \/ StartStream(s) \/ TransformBody(s)
  BY <1>4 DEF PassThrough, StartStream, TransformBody
<1>5. CASE CopyUnit(s) \/ StreamFrame(s)
  <2>1. /\ pc[s] \in {"copy", "stream"} /\ pc'[s] = pc[s]
        /\ rest[s] # <<>> /\ rest'[s] = Tail(rest[s])
    BY <1>5 DEF CopyUnit, StreamFrame
  <2>2. rest[s] \in Seq(Units)
    OBVIOUS
  <2> HIDE DEF TypeOK
  <2>3. Len(rest[s]) = Len(Tail(rest[s])) + 1
    BY <2>1, <2>2, HeadTailProperties
  <2> QED
    BY <2>1, <2>3
<1>6. CASE CopyFails(s) \/ CopyEnds(s) \/ BeginLog(s) \/ EndLog(s)
  BY <1>6 DEF CopyFails, CopyEnds, BeginLog, EndLog
<1> QED
  BY <1>1, <1>2, <1>3, <1>4, <1>5, <1>6 DEF Step

\* No request is retried or handled twice: each step that is taken for it, by the
\* handler, the transport or the cluster, brings it nearer its end, and no step
\* taken for another moves it.
THEOREM RequestsMoveOn ==
  Spec => [][\E s \in Slots : /\ Nearer(s) \/ HangUp(s)
                              /\ \A t \in Slots \ {s} : Untouched(t)]_vars
<1>1. TypeOK /\ [Next]_vars =>
         [\E s \in Slots : /\ Nearer(s) \/ HangUp(s)
                           /\ \A t \in Slots \ {s} : Untouched(t)]_vars
  <2> SUFFICES ASSUME TypeOK, NEW s \in Slots, Step(s)
               PROVE  /\ Nearer(s) \/ HangUp(s)
                      /\ \A t \in Slots \ {s} : Untouched(t)
    BY NextIsStep
  <2>1. \A t \in Slots \ {s} : Untouched(t)
    BY OthersUntouched
  <2>2. Nearer(s) \/ HangUp(s)
    BY StepNearer
  <2> QED
    BY <2>1, <2>2
<1> QED
  BY <1>1, HandlerTypes, PTL DEF Spec

-----------------------------------------------------------------------------
(* The audit line is true: it says allowed of the requests the cluster has *)
(* heard of and of no other, and redacted of the answers that were         *)
(* delivered in other words than the cluster's and of no other.            *)

Before == {"received", "roundtrip", "modify"}
After == {"audit", "writing", "done"}

\* What a slot's client is to be given of the cluster's answer.
Full(s) == IF changed[s] THEN Clean(reply[s].body) ELSE reply[s].body

\* The cluster has heard of a request that passed the checks, once it is past
\* them; one that did not has been answered with a refusal.
Judged(s) == /\ sent[s] # NotSent <=> PastLength(in[s]) /\ pc[s] # "received"
             /\ ~PastLength(in[s]) =>
                   /\ pc[s] \in {"received"} \union After
                   /\ pc[s] # "received" => status[s] \in {401, 403, 406, 413}

\* The redacted flag is set where a transformed body replaces the cluster's.
Marked(s) == changed[s] => /\ pc[s] \in {"copy", "aborted"} \union After
                           /\ err[s] = "none" /\ PastLength(in[s])
                           /\ Route(s) # "stream"
                           /\ Clean(reply[s].body) # reply[s].body

\* What is out and what is still to come make up what is to be given.
Passing(s) ==
    /\ pc[s] = "copy" => /\ \A i \in DOMAIN got[s] : got[s][i] = Full(s)[i]
                         /\ \A j \in DOMAIN rest[s] : rest[s][j] = Full(s)[Len(got[s]) + j]
    /\ pc[s] = "stream" => Route(s) = "stream"
    /\ pc[s] \in After /\ sent[s] # NotSent /\ err[s] = "none"
          => got[s] = Full(s) \/ Route(s) = "stream"

\* The line holds what the request's variables held when it was written.
Written(s) == audited[s] # NoEntry => pc[s] \in {"writing", "done"} /\ audited[s] = Entry(s)

Account(s) == Judged(s) /\ Marked(s) /\ Passing(s) /\ Written(s)

-----------------------------------------------------------------------------
LEMMA SameLength ==
  ASSUME NEW body \in Seq(Units)
  PROVE  Clean(body) \in Seq(Units) /\ Len(Clean(body)) = Len(body)
  BY CleanType

LEMMA SameSequence ==
  ASSUME NEW a \in Seq(Units), NEW b \in Seq(Units), Len(a) = Len(b),
         \A i \in DOMAIN a : a[i] = b[i]
  PROVE  a = b
  OBVIOUS

LEMMA RefusalStatus ==
  ASSUME NEW i, ~PastLength(i) PROVE Refusal(i) \in {401, 403, 406, 413}
  BY DEF Refusal, PastLength, PastAccept, PastPolicy, PastParse, PastToken

LEMMA UntouchedAccount ==
  ASSUME NEW t \in Slots, Untouched(t), Account(t) PROVE Account(t)'
<1>1. Route(t)' = Route(t) /\ PastLength(in[t])' = PastLength(in[t])
  BY SameRoute DEF Untouched
<1>2. Full(t)' = Full(t) /\ Entry(t)' = Entry(t)
  BY <1>1 DEF Untouched, Full, Entry
<1>3. Judged(t)' /\ Marked(t)'
  BY <1>1 DEF Untouched, Account, Judged, Marked
<1>4. Passing(t)' /\ Written(t)'
  BY <1>1, <1>2 DEF Untouched, Account, Passing, Written
<1> QED
  BY <1>3, <1>4 DEF Account

-----------------------------------------------------------------------------
LEMMA AccountStep ==
  ASSUME DeliveryInv, NEW s \in Slots, Step(s), Account(s) PROVE Account(s)'
<1> USE DEF DeliveryInv, TypeOK
<1>a. /\ reply[s].body \in Seq(Units) /\ rest[s] \in Seq(Units) /\ got[s] \in Seq(Units)
      /\ Full(s) \in Seq(Units) /\ Len(Full(s)) = Len(reply[s].body)
  <2>1. reply[s].body \in Seq(Units) /\ rest[s] \in Seq(Units) /\ got[s] \in Seq(Units)
    BY DEF Response
  <2> QED
    BY <2>1, SameLength DEF Full
<1>unwritten. ASSUME pc[s] \notin {"writing", "done"} PROVE audited[s] = NoEntry
  BY <1>unwritten DEF Account, Written
<1>unmarked. ASSUME pc[s] \in Before PROVE ~changed[s]
  BY <1>unmarked DEF Account, Marked, Before, After
<1>same. ASSUME cfg' = cfg, in' = in, reply' = reply
         PROVE  /\ Route(s)' = Route(s) /\ (PastLength(in[s])' <=> PastLength(in[s]))
                /\ (changed'[s] <=> changed[s]) => Full(s)' = Full(s)
  BY <1>same, SameRoute DEF Full
<1>1. CASE Refuse(s)
  <2>1. /\ pc[s] = "received" /\ pc'[s] = "audit" /\ ~PastLength(in[s])
        /\ status'[s] = Refusal(in[s]) /\ sent[s] = NotSent
        /\ UNCHANGED <<cfg, in, sent, reply, changed, audited>>
    BY <1>1 DEF Refuse, Account, Judged
  <2>2. status'[s] \in {401, 403, 406, 413} /\ ~changed[s] /\ audited[s] = NoEntry
    BY <1>unwritten, <1>unmarked, <2>1, RefusalStatus DEF Before
  <2> QED
    BY <1>same, <2>1, <2>2 DEF Account, Judged, Marked, Passing, Written, After
<1>2. CASE Forward(s)
  <2>1. /\ pc[s] = "received" /\ pc'[s] = "roundtrip" /\ PastLength(in[s])
        /\ sent'[s] = Outbound(in[s])
        /\ UNCHANGED <<cfg, in, reply, changed, audited>>
    BY <1>2 DEF Forward
  <2>2. sent'[s] # NotSent
    BY <2>1 DEF Outbound, NotSent
  <2> QED
    BY <1>same, <1>unwritten, <1>unmarked, <2>1, <2>2
    DEF Account, Judged, Marked, Passing, Written, After, Before
<1>3. ASSUME NEW e \in Errors \ {"none"}, NEW from \in {"roundtrip", "modify"}, Fail(s, from, e)
      PROVE  Account(s)'
  <2>1. /\ pc[s] \in Before /\ pc[s] # "received" /\ pc'[s] = "audit" /\ err'[s] # "none"
        /\ UNCHANGED <<cfg, in, sent, reply, changed, audited>>
    BY <1>3 DEF Before
  <2> QED
    BY <1>same, <1>unwritten, <1>unmarked, <2>1
    DEF Account, Judged, Marked, Passing, Written, After, Before
<1>4. CASE \E e \in TransportErrors(s) : RoundTripFails(s, e)
  BY <1>3, <1>4 DEF RoundTripFails, TransportErrors, Errors
<1>5. CASE FailClosed(s) \/ ReadFails(s) \/ RejectBody(s)
  BY <1>3, <1>5 DEF FailClosed, ReadFails, RejectBody, Errors
<1>6. CASE Reply(s)
  <2>1. /\ pc[s] = "roundtrip" /\ pc'[s] = "modify"
        /\ UNCHANGED <<cfg, in, sent, changed, audited>>
    BY <1>6 DEF Reply
  <2>2. PastLength(in[s])' <=> PastLength(in[s])
    BY <2>1 DEF PastLength, PastAccept, PastPolicy, PastParse, PastToken, PastUpgrade
  <2> QED
    BY <1>unwritten, <1>unmarked, <2>1, <2>2
    DEF Account, Judged, Marked, Passing, Written, After, Before
<1>7. ASSUME pc[s] = "modify" PROVE got[s] = <<>> /\ err[s] = "none" /\ PastLength(in[s])
  BY <1>7 DEF Delivery, Unanswered, Account, Judged, After
<1>8. CASE PassThrough(s) \/ StartStream(s)
  <2>1. /\ pc[s] = "modify" /\ rest'[s] = reply[s].body
        /\ UNCHANGED <<cfg, in, sent, reply, got, err, changed, audited>>
        /\ \/ pc'[s] = "copy"
           \/ pc'[s] = "stream" /\ Route(s) = "stream"
    BY <1>8 DEF PassThrough, StartStream
  <2>2. Full(s) = reply[s].body /\ Full(s)' = Full(s) /\ ~changed[s] /\ Len(got'[s]) = 0
    BY <1>same, <1>unmarked, <1>7, <2>1 DEF Full, Before
  <2>3. \A j \in DOMAIN rest'[s] : rest'[s][j] = Full(s)[0 + j]
    BY <1>a, <2>1, <2>2
  <2> QED
    BY <1>same, <1>unwritten, <1>7, <2>1, <2>2, <2>3
    DEF Account, Judged, Marked, Passing, Written, After
<1>9. CASE TransformBody(s)
  <2> DEFINE body == reply[s].body
  <2>1. /\ pc[s] = "modify" /\ pc'[s] = "copy" /\ rest'[s] = Transformed(s)
        /\ ~Uninspectable(s) /\ Route(s) = "buffer"
        /\ changed'[s] = (Transformed(s) # ReadUnits(body))
        /\ UNCHANGED <<cfg, in, sent, reply, got, err, audited>>
    BY <1>9 DEF TransformBody
  <2>2. ReadUnits(body) = body
    BY <1>a, <2>1, ReadAll DEF Uninspectable
  <2>3. Transformed(s) = Clean(body) \/ Transformed(s) = body
    BY <2>2 DEF Transformed
  <2>4. Full(s)' = Transformed(s)
    BY <2>1, <2>2, <2>3 DEF Full
  <2>5. changed'[s] => Clean(body) # body
    BY <2>1, <2>2, <2>3
  <2>6. Len(got'[s]) = 0 /\ \A j \in DOMAIN rest'[s] : rest'[s][j] = Transformed(s)[0 + j]
    <3>1. Transformed(s) \in Seq(Units)
      BY <1>a, <2>3, SameLength
    <3> QED
      BY <1>7, <2>1, <3>1
  <2> QED
    BY <1>same, <1>unwritten, <1>7, <2>1, <2>4, <2>5, <2>6
    DEF Account, Judged, Marked, Passing, Written, After
<1>10. CASE CopyUnit(s)
  <2>1. /\ pc[s] = "copy" /\ rest[s] # <<>> /\ rest'[s] = Tail(rest[s])
        /\ got'[s] = Append(got[s], Head(rest[s]))
        /\ UNCHANGED <<cfg, pc, in, sent, reply, err, status, changed, audited>>
    BY <1>10 DEF CopyUnit
  <2>2. Len(got'[s]) = Len(got[s]) + 1 /\ Len(got[s]) \in Nat /\ 1 \in DOMAIN rest[s]
        /\ Head(rest[s]) = rest[s][1]
    BY <1>a, <2>1
  <2>3. Head(rest[s]) = Full(s)[Len(got[s]) + 1]
    BY <2>1, <2>2 DEF Account, Passing
  <2>4. ASSUME NEW i \in DOMAIN got'[s] PROVE got'[s][i] = Full(s)[i]
    <3>1. i \in 1..(Len(got[s]) + 1)
      BY <1>a, <2>1, <2>2, <2>4
    <3>2. CASE i = Len(got[s]) + 1
      BY <1>a, <2>1, <2>3, <3>2
    <3>3. CASE i # Len(got[s]) + 1
      <4>1. i \in DOMAIN got[s] /\ got'[s][i] = got[s][i]
        BY <1>a, <2>1, <2>2, <3>1, <3>3
      <4> QED
        BY <2>1, <4>1 DEF Account, Passing
    <3> QED
      BY <3>2, <3>3
  <2>5. ASSUME NEW j \in DOMAIN rest'[s] PROVE rest'[s][j] = Full(s)[Len(got'[s]) + j]
    <3>1. j \in Nat /\ rest'[s][j] = rest[s][j + 1] /\ j + 1 \in DOMAIN rest[s]
      BY <1>a, <2>1, <2>5, TailAt
    <3>2. rest[s][j + 1] = Full(s)[Len(got[s]) + (j + 1)]
      BY <2>1, <3>1 DEF Account, Passing
    <3>3. Len(got[s]) + (j + 1) = Len(got'[s]) + j
      BY <2>2, <3>1
    <3> QED
      BY <3>1, <3>2, <3>3
  <2>6. audited[s] = NoEntry
    BY <1>unwritten, <2>1
  <2> QED
    BY <1>same, <2>1, <2>4, <2>5, <2>6 DEF Account, Judged, Marked, Passing, Written, After
<1>11. CASE StreamFrame(s)
  <2>1. /\ pc[s] = "stream"
        /\ UNCHANGED <<cfg, pc, in, sent, reply, err, status, changed, audited>>
    BY <1>11 DEF StreamFrame
  <2> QED
    BY <1>same, <1>unwritten, <2>1 DEF Account, Judged, Marked, Passing, Written, After
<1>12. CASE CopyFails(s)
  <2>1. /\ pc[s] \in {"copy", "stream"} /\ pc'[s] = "aborted"
        /\ UNCHANGED <<cfg, in, sent, reply, got, err, status, changed, audited>>
    BY <1>12 DEF CopyFails
  <2> QED
    BY <1>same, <1>unwritten, <2>1 DEF Account, Judged, Marked, Passing, Written, After
<1>13. CASE CopyEnds(s)
  <2>1. /\ pc[s] \in {"copy", "stream"} /\ pc'[s] = "audit" /\ rest[s] = <<>>
        /\ UNCHANGED <<cfg, in, sent, reply, got, err, status, changed, audited>>
    BY <1>13 DEF CopyEnds
  <2>2. ASSUME pc[s] = "copy" PROVE got[s] = Full(s)
    <3>1. Len(got[s]) + Len(rest[s]) = Len(reply[s].body) /\ Len(rest[s]) = 0
      BY <2>1, <2>2 DEF Delivery, Copying
    <3>2. Len(got[s]) \in Nat
      BY <1>a
    <3>3. Len(got[s]) = Len(Full(s))
      BY <1>a, <3>1, <3>2
    <3>4. \A i \in DOMAIN got[s] : got[s][i] = Full(s)[i]
      BY <2>2 DEF Account, Passing
    <3> QED
      BY <1>a, <3>3, <3>4, SameSequence
  <2> QED
    BY <1>same, <1>unwritten, <2>1, <2>2 DEF Account, Judged, Marked, Passing, Written, After
<1>14. CASE BeginLog(s)
  <2>1. /\ pc[s] = "audit" /\ pc'[s] = "writing" /\ audited'[s] = Entry(s)
        /\ UNCHANGED <<cfg, in, sent, reply, got, err, status, changed>>
    BY <1>14 DEF BeginLog
  <2>2. Entry(s)' = Entry(s)
    BY <1>same, <2>1 DEF Entry, PastLength
  <2> QED
    BY <1>same, <2>1, <2>2 DEF Account, Judged, Marked, Passing, Written, After
<1>15. CASE EndLog(s)
  <2>1. /\ pc[s] = "writing" /\ pc'[s] = "done"
        /\ UNCHANGED <<cfg, in, sent, reply, got, err, status, changed, audited>>
    BY <1>15 DEF EndLog
  <2>2. Entry(s)' = Entry(s)
    BY <1>same, <2>1 DEF Entry, PastLength
  <2> QED
    BY <1>same, <2>1, <2>2 DEF Account, Judged, Marked, Passing, Written, After
<1>16. CASE HangUp(s)
  <2>1. Untouched(s)
    BY <1>16 DEF HangUp, Untouched
  <2> QED
    BY <2>1, UntouchedAccount
<1> QED
  BY <1>1, <1>2, <1>4, <1>5, <1>6, <1>8, <1>9, <1>10, <1>11, <1>12, <1>13, <1>14, <1>15, <1>16
  DEF Step

-----------------------------------------------------------------------------
AuditInv == DeliveryInv /\ \A s \in Slots : Account(s)

LEMMA AuditInvariant == Spec => []AuditInv
<1>1. Init => \A s \in Slots : Account(s)
  BY DEF Init, Account, Judged, Marked, Passing, Written, After
<1>2. AuditInv /\ [Next]_vars => (\A s \in Slots : Account(s))'
  <2> SUFFICES ASSUME AuditInv, [Next]_vars, NEW t \in Slots PROVE Account(t)'
    OBVIOUS
  <2>1. CASE UNCHANGED vars
    <3>1. Untouched(t)
      BY <2>1 DEF vars, slotVars, Untouched
    <3> QED
      BY <3>1, UntouchedAccount DEF AuditInv
  <2>2. ASSUME NEW s \in Slots, Step(s) PROVE Account(t)'
    <3>1. CASE t = s
      BY <2>2, <3>1, AccountStep DEF AuditInv
    <3>2. CASE t # s
      BY <2>2, <3>2, OthersUntouched, UntouchedAccount DEF AuditInv, DeliveryInv
    <3> QED
      BY <3>1, <3>2
  <2> QED
    BY <2>1, <2>2, NextIsStep
<1> QED
  BY <1>1, <1>2, DeliveryInvariant, PTL DEF Spec, AuditInv

\* The audit line tells what happened: allowed exactly when the request left for the
\* cluster, redacted exactly when a buffered answer was delivered in other words
\* than the cluster's, and refused with a status of a refusal.
THEOREM AuditTruthfulHolds == Spec => []AuditTruthful
<1>1. AuditInv => AuditTruthful
  <2> SUFFICES ASSUME AuditInv, NEW s \in Slots, audited[s] # NoEntry
               PROVE  /\ audited[s].allow <=> sent[s] # NotSent
                      /\ audited[s].redacted => got[s] # reply[s].body
                      /\ got[s] # reply[s].body /\ sent[s] # NotSent /\ err[s] = "none"
                            => audited[s].redacted \/ Route(s) = "stream"
                      /\ ~audited[s].allow => audited[s].status \in {401, 403, 406, 413}
    BY DEF AuditTruthful
  <2>1. /\ pc[s] \in {"writing", "done"}
        /\ audited[s].allow <=> PastLength(in[s])
        /\ audited[s].redacted <=> changed[s]
        /\ audited[s].status = status[s]
    <3>1. pc[s] \in {"writing", "done"} /\ audited[s] = Entry(s)
      BY DEF AuditInv, Account, Written
    <3>2. Entry(s).allow = PastLength(in[s]) /\ Entry(s).status = status[s]
          /\ Entry(s).redacted = changed[s]
      BY DEF Entry
    <3> QED
      BY <3>1, <3>2
  <2>2. audited[s].allow <=> sent[s] # NotSent
    BY <2>1 DEF AuditInv, Account, Judged
  <2>3. ~audited[s].allow => audited[s].status \in {401, 403, 406, 413}
    BY <2>1 DEF AuditInv, Account, Judged
  <2>4. sent[s] # NotSent /\ err[s] = "none" => got[s] = Full(s) \/ Route(s) = "stream"
    BY <2>1 DEF AuditInv, Account, Passing, After
  <2>5. changed[s] => got[s] # reply[s].body
    BY <2>1, <2>2, <2>4 DEF AuditInv, Account, Marked, Full
  <2>6. ~changed[s] => Full(s) = reply[s].body
    BY DEF Full
  <2> QED
    BY <2>1, <2>2, <2>3, <2>4, <2>5, <2>6
<1> QED
  BY <1>1, AuditInvariant, PTL
=============================================================================
