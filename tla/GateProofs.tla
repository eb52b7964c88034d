----------------------------- MODULE GateProofs -----------------------------
(***************************************************************************)
(* The handler keeps the contract of Gate, for every number of slots,      *)
(* every configuration, request and response, and every cap.               *)
(***************************************************************************)
EXTENDS HandlerProofs

USE DEF Goto, Answer, Fail, Relay, CopyOut

Phases == [s \in Slots |-> Phase(s)]
Answers == [s \in Slots |-> [rule |-> Terms(s), body |-> reply[s].body]]
Admitted == [s \in Slots |-> PastLength(in[s])]

-----------------------------------------------------------------------------
(* The rules, and what is shown under them.                                *)

LEMMA TermsKnown ==
  ASSUME NEW s \in Slots
  PROVE  /\ Terms(s) \in {"verbatim", "filtered", "framewise", "either"}
         /\ ~Promised(s) => Terms(s) \in {"verbatim", "either"}
         /\ RedactionEnabled(cfg) => Terms(s) # "verbatim"
         /\ Terms(s) = "filtered" => Route(s) # "stream"
         /\ Terms(s) = "framewise" => Route(s) = "stream"
  BY DEF Terms, Promised

LEMMA ShownAsIs ==
  ASSUME NEW rule \in {"verbatim", "either"}, NEW unit, unit # "cut"
  PROVE  unit \in Contract!Shown(rule, unit)
  BY DEF Contract!Shown, Contract!Verbatim

LEMMA ShownClean ==
  ASSUME NEW rule \in {"filtered", "framewise", "either"}, NEW unit \in {"clean", "dirty", "rows"},
         rule = "framewise" => unit # "rows"
  PROVE  "clean" \in Contract!Shown(rule, unit)
  BY DEF Contract!Shown, Contract!Verbatim, Contract!Filtered, Contract!Framewise

LEMMA ShownRows ==
  ASSUME NEW rule \in {"framewise", "either"} PROVE "rows" \in Contract!Shown(rule, "rows")
  BY DEF Contract!Shown, Contract!Verbatim, Contract!Framewise

-----------------------------------------------------------------------------
(* A step of one slot is a step of its phase, its answer and its bytes.    *)

LEMMA SameTerms ==
  ASSUME NEW s \in Slots, cfg' = cfg, in'[s] = in[s], reply'[s] = reply[s]
  PROVE  /\ Terms(s)' = Terms(s) /\ Route(s)' = Route(s)
         /\ PastLength(in[s])' = PastLength(in[s])
<1>1. RedactionEnabled(cfg)' <=> RedactionEnabled(cfg)
  OBVIOUS
<1> QED
  BY <1>1, SameRoute DEF Terms

LEMMA FixedInputs == ASSUME NEW s \in Slots, Step(s) PROVE cfg' = cfg /\ in' = in
  BY DEF Step, Refuse, Forward, RoundTripFails, Reply, PassThrough, StartStream, FailClosed,
         ReadFails, RejectBody, TransformBody, CopyUnit, StreamFrame, CopyFails, CopyEnds,
         BeginLog, EndLog, HangUp

LEMMA MapStep ==
  ASSUME TypeOK, NEW s \in Slots, Step(s)
  PROVE  /\ Admitted' = Admitted
         /\ Phases' = [Phases EXCEPT ![s] = Phase(s)']
         /\ \A t \in Slots \ {s} : Answers'[t] = Answers[t]
         /\ reply'[s] = reply[s] => Answers' = Answers
         /\ got' = [got EXCEPT ![s] = got'[s]]
<1>1. cfg' = cfg /\ in' = in
  BY FixedInputs
<1>2. ASSUME NEW t \in Slots, t # s
      PROVE  /\ Phase(t)' = Phase(t) /\ Answers'[t] = Answers[t] /\ got'[t] = got[t]
  <2>1. Untouched(t)
    BY <1>2, OthersUntouched
  <2> QED
    BY <2>1, SameTerms DEF Untouched, Phase, Answers
<1>3. Admitted' = Admitted
  BY <1>1 DEF Admitted, PastLength, PastAccept, PastPolicy, PastParse, PastToken, PastUpgrade
<1>4. Phases' = [Phases EXCEPT ![s] = Phase(s)']
  BY <1>2 DEF Phases
<1>5. ASSUME reply'[s] = reply[s] PROVE Answers' = Answers
  <2>1. Terms(s)' = Terms(s)
    BY <1>1, <1>5, SameTerms
  <2> QED
    BY <1>2, <1>5, <2>1 DEF Answers
<1>6. got' = [got EXCEPT ![s] = got'[s]]
  <2>1. got \in [Slots -> Seq(Units)] /\ got' \in [Slots -> Seq(Units)]
    BY TypeStep DEF TypeOK, Next, Step
  <2> QED
    BY <1>2, <2>1
<1> QED
  BY <1>2, <1>3, <1>4, <1>5, <1>6

-----------------------------------------------------------------------------
(* What is still to be copied is what is to be shown of the rest of the    *)
(* cluster's answer.                                                       *)

Shows(s, unit, i) ==
    unit # "cut" => unit \in Contract!Shown(Terms(s), reply[s].body[i])

Showable(s) ==
    /\ pc[s] = "copy" => \A j \in DOMAIN rest[s] : Shows(s, rest[s][j], Len(got[s]) + j)
    /\ pc[s] = "stream" =>
          /\ RedactionEnabled(cfg) /\ Route(s) = "stream"
          /\ \A j \in DOMAIN rest[s] : rest[s][j] = reply[s].body[Len(got[s]) + j]

LEMMA UntouchedShowable ==
  ASSUME NEW t \in Slots, Untouched(t), Showable(t) PROVE Showable(t)'
<1>1. Terms(t)' = Terms(t) /\ Route(t)' = Route(t)
  BY SameTerms DEF Untouched
<1>2. \A unit, i : Shows(t, unit, i)' <=> Shows(t, unit, i)
  BY <1>1 DEF Untouched, Shows, Contract!Shown
<1>3. RedactionEnabled(cfg)' <=> RedactionEnabled(cfg)
  BY DEF Untouched
<1> QED
  BY <1>1, <1>2, <1>3 DEF Untouched, Showable

LEMMA ShowableStep ==
  ASSUME DeliveryInv, NEW s \in Slots, Step(s), Showable(s) PROVE Showable(s)'
<1> USE DEF DeliveryInv, TypeOK
<1>fixed. cfg' = cfg /\ in' = in
  BY FixedInputs
<1>a. reply[s].body \in Seq(Units) /\ rest[s] \in Seq(Units) /\ got[s] \in Seq(Units)
  BY DEF Response
<1>out. ASSUME pc'[s] \notin {"copy", "stream"} PROVE Showable(s)'
  BY <1>out DEF Showable
<1>terms. ASSUME reply' = reply
          PROVE  Route(s)' = Route(s) /\ \A unit, i : Shows(s, unit, i)' <=> Shows(s, unit, i)
  BY <1>fixed, <1>terms, SameTerms DEF Shows, Contract!Shown
<1>start. ASSUME pc[s] = "modify", got' = got PROVE Len(got[s]) = 0 /\ Len(got'[s]) = 0
  BY <1>start DEF Delivery, Unanswered
<1>1. CASE PassThrough(s)
  <2>1. ~Promised(s)
    BY <1>1 DEF PassThrough, Route, Promised, Eligible
  <2>2. \A unit : unit # "cut" => unit \in Contract!Shown(Terms(s), unit)
    BY <2>1, TermsKnown, ShownAsIs
  <2>3. /\ pc[s] = "modify" /\ pc'[s] = "copy" /\ got' = got /\ reply' = reply
        /\ rest'[s] = reply[s].body
    BY <1>1 DEF PassThrough
  <2>4. \A j \in DOMAIN rest'[s] : Shows(s, rest'[s][j], 0 + j)
    BY <1>a, <2>2, <2>3 DEF Shows
  <2> QED
    BY <1>terms, <1>start, <2>3, <2>4 DEF Showable
<1>2. CASE StartStream(s)
  <2>1. RedactionEnabled(cfg) /\ Route(s) = "stream"
    BY <1>2 DEF StartStream, Route, Eligible
  <2>2. /\ pc[s] = "modify" /\ pc'[s] = "stream" /\ got' = got /\ reply' = reply
        /\ rest'[s] = reply[s].body
    BY <1>2 DEF StartStream
  <2> QED
    BY <1>fixed, <1>terms, <1>a, <1>start, <2>1, <2>2 DEF Showable
<1>3. CASE TransformBody(s)
  <2> DEFINE body == reply[s].body
  <2>1. /\ pc[s] = "modify" /\ pc'[s] = "copy" /\ got' = got /\ reply' = reply
        /\ rest'[s] = Transformed(s) /\ ~Uninspectable(s)
        /\ ~Has(ReadUnits(body), "cut") /\ Route(s) = "buffer"
    BY <1>3 DEF TransformBody
  <2>2. ReadUnits(body) = body
    BY <1>a, <2>1, ReadAll DEF Uninspectable
  <2>3. ASSUME NEW j \in DOMAIN Transformed(s) PROVE Shows(s, Transformed(s)[j], 0 + j)
    <3>1. CASE Transforms(s)
      <4>1. Transformed(s) = Clean(body) /\ j \in DOMAIN body /\ 0 + j = j
        BY <1>a, <2>2, <2>3, <3>1 DEF Transformed, Clean
      <4>2. body[j] \in {"clean", "dirty", "rows"}
        BY <1>a, <2>1, <2>2, <3>1, <4>1 DEF Uninspectable, Has, Units
      <4>3. Transformed(s)[j] = "clean"
        BY <4>1, <4>2 DEF Clean
      <4>4. Terms(s) \in {"filtered", "either"}
        BY <2>1, <3>1, TermsKnown DEF Transforms
      <4>5. "clean" \in Contract!Shown(Terms(s), body[j])
        BY <4>2, <4>4, ShownClean
      <4> QED
        BY <4>1, <4>3, <4>5 DEF Shows
    <3>2. CASE ~Transforms(s)
      <4>1. Transformed(s) = body /\ ~Promised(s) /\ 0 + j = j
        BY <1>a, <2>2, <2>3, <3>2 DEF Transformed, Transforms, Promised
      <4> QED
        BY <4>1, TermsKnown, ShownAsIs DEF Shows
    <3> QED
      BY <3>1, <3>2
  <2> QED
    BY <1>terms, <1>start, <2>1, <2>3 DEF Showable
<1>4. CASE CopyUnit(s) \/ StreamFrame(s)
  <2>1. /\ rest[s] # <<>> /\ rest'[s] = Tail(rest[s]) /\ reply' = reply /\ pc' = pc
        /\ \E unit : got'[s] = Append(got[s], unit)
    BY <1>4 DEF CopyUnit, StreamFrame
  <2>2. Len(got'[s]) = Len(got[s]) + 1 /\ Len(got[s]) \in Nat
    BY <1>a, <2>1
  <2>3. ASSUME NEW j \in DOMAIN rest'[s]
        PROVE  /\ rest'[s][j] = rest[s][j + 1] /\ j + 1 \in DOMAIN rest[s]
               /\ Len(got'[s]) + j = Len(got[s]) + (j + 1)
    <3>1. j \in Nat /\ rest'[s][j] = rest[s][j + 1] /\ j + 1 \in DOMAIN rest[s]
      BY <1>a, <2>1, <2>3, TailAt
    <3> QED
      BY <2>2, <3>1
  <2> QED
    BY <1>fixed, <1>terms, <2>1, <2>3 DEF Showable
<1>5. CASE HangUp(s)
  <2>1. Untouched(s)
    BY <1>5 DEF HangUp, Untouched
  <2> QED
    BY <2>1, UntouchedShowable
<1>6. CASE Refuse(s) \/ Forward(s) \/ Reply(s) \/ FailClosed(s) \/ ReadFails(s)
           \/ RejectBody(s) \/ CopyFails(s) \/ CopyEnds(s) \/ BeginLog(s) \/ EndLog(s)
           \/ \E e \in TransportErrors(s) : RoundTripFails(s, e)
  <2>1. pc'[s] \notin {"copy", "stream"}
    BY <1>6 DEF Refuse, Forward, Reply, FailClosed, ReadFails, RejectBody, CopyFails, CopyEnds,
                BeginLog, EndLog, RoundTripFails
  <2> QED
    BY <1>out, <2>1
<1> QED
  BY <1>1, <1>2, <1>3, <1>4, <1>5, <1>6 DEF Step

ShowInv == DeliveryInv /\ \A s \in Slots : Showable(s)

LEMMA ShowInvariant == Spec => []ShowInv
<1>1. Init => \A s \in Slots : Showable(s)
  BY DEF Init, Showable
<1>2. ShowInv /\ [Next]_vars => (\A s \in Slots : Showable(s))'
  <2> SUFFICES ASSUME ShowInv, [Next]_vars, NEW t \in Slots PROVE Showable(t)'
    OBVIOUS
  <2>1. CASE UNCHANGED vars
    <3>1. Untouched(t)
      BY <2>1 DEF vars, slotVars, Untouched
    <3> QED
      BY <3>1, UntouchedShowable DEF ShowInv
  <2>2. ASSUME NEW s \in Slots, Step(s) PROVE Showable(t)'
    <3>1. CASE t = s
      BY <2>2, <3>1, ShowableStep DEF ShowInv
    <3>2. CASE t # s
      BY <2>2, <3>2, OthersUntouched, UntouchedShowable DEF ShowInv, DeliveryInv
    <3> QED
      BY <3>1, <3>2
  <2> QED
    BY <2>1, <2>2, NextIsStep
<1> QED
  BY <1>1, <1>2, DeliveryInvariant, PTL DEF Spec, ShowInv

-----------------------------------------------------------------------------
(* Every step of the handler is a step of the contract, or none.           *)

LEMMA InitContract == Init => Contract!Init
<1> SUFFICES ASSUME Init PROVE Contract!Init
  OBVIOUS
<1>1. Admitted \in [Slots -> BOOLEAN]
  BY DEF Admitted, PastLength
<1>2. ASSUME NEW s \in Slots PROVE Phase(s) = "asked" /\ Terms(s) = "either"
  BY <1>2 DEF Init, Phase, Terms, Promised, NoReply
<1>3. ASSUME NEW s \in Slots PROVE Answers[s] = Contract!NoAnswer
  BY <1>2, <1>3 DEF Init, Answers, Contract!NoAnswer, NoReply
<1> QED
  BY <1>1, <1>2, <1>3 DEF Init, Contract!Init, Admitted, Answers

LEMMA ContractStep ==
  ASSUME ShowInv, NEW s \in Slots, Step(s)
  PROVE  Contract!Next \/ UNCHANGED Contract!vars
<1> USE DEF Admitted, Phases, Answers
<1> DEFINE OneAction == \/ Contract!Refuse(s) \/ Contract!Forward(s) \/ Contract!Receive(s)
                        \/ Contract!Fail(s) \/ Contract!Deliver(s) \/ Contract!Finish(s)
                        \/ Contract!Abort(s)
<1>next. OneAction => Contract!Next
  BY DEF Contract!Next
<1>type. TypeOK /\ TypeOK' /\ Delivery(s) /\ Showable(s)
  BY TypeStep, NextIsStep DEF ShowInv, DeliveryInv, Next, Step
<1>map. /\ Admitted' = Admitted
        /\ Phases' = [Phases EXCEPT ![s] = Phase(s)']
        /\ \A t \in Slots \ {s} : Answers'[t] = Answers[t]
        /\ reply'[s] = reply[s] => Answers' = Answers
        /\ got' = [got EXCEPT ![s] = got'[s]]
  BY <1>type, MapStep
<1>at. Phases[s] = Phase(s) /\ Admitted[s] = PastLength(in[s])
       /\ Answers[s].body = reply[s].body /\ Answers[s].rule = Terms(s)
  OBVIOUS
<1>pass. ASSUME NEW from, NEW to, Phase(s) = from, Phase(s)' = to
         PROVE  Contract!Pass(s, from, to)
  BY <1>map, <1>at, <1>pass DEF Contract!Pass
<1>quiet. ASSUME Phase(s)' = Phase(s), reply' = reply, got' = got
          PROVE  UNCHANGED Contract!vars
  BY <1>map, <1>quiet DEF Contract!vars
<1> HIDE DEF Admitted, Phases, Answers
<1>1. CASE Refuse(s)
  <2>1. Phase(s) = "asked" /\ Phase(s)' = "closed" /\ ~PastLength(in[s])
        /\ got'[s] = Contract!Own /\ reply' = reply
    BY <1>1, <1>type DEF Refuse, Phase, TypeOK, Contract!Own
  <2>2. Contract!Pass(s, "asked", "closed")
    BY <1>pass, <2>1
  <2> QED
    BY <1>next, <1>map, <1>at, <2>1, <2>2 DEF Contract!Refuse, Admitted, Answers
<1>2. CASE Forward(s)
  <2>1. Phase(s) = "asked" /\ Phase(s)' = "forwarded" /\ PastLength(in[s])
        /\ UNCHANGED <<reply, got>>
    BY <1>2, <1>type DEF Forward, Phase, TypeOK
  <2>2. Contract!Pass(s, "asked", "forwarded")
    BY <1>pass, <2>1
  <2> QED
    BY <1>next, <1>map, <1>at, <2>1, <2>2 DEF Contract!Forward, Admitted, Answers
<1>3. ASSUME NEW from \in {"roundtrip", "modify"}, NEW e, Fail(s, from, e)
      PROVE  Contract!Next
  <2>1. /\ Phase(s) \in {"forwarded", "answered"} /\ Phase(s)' = "closed"
        /\ got[s] = <<>> /\ got'[s] = Contract!Own /\ reply' = reply
    BY <1>3, <1>type DEF Phase, TypeOK, Delivery, Unanswered, Contract!Own
  <2>2. Contract!Pass(s, "forwarded", "closed") \/ Contract!Pass(s, "answered", "closed")
    BY <1>pass, <2>1
  <2> QED
    BY <1>next, <1>map, <2>1, <2>2 DEF Contract!Fail, Admitted, Answers
<1>4. CASE Reply(s)
  <2>1. Phase(s) = "forwarded" /\ Phase(s)' = "answered" /\ got' = got
    BY <1>4, <1>type DEF Reply, Phase, TypeOK
  <2>2. Contract!Pass(s, "forwarded", "answered")
    BY <1>pass, <2>1
  <2>3. Answers' \in [Slots -> [rule : Contract!Rules, body : Seq(Contract!Units)]]
    <3>1. ASSUME NEW t \in Slots
          PROVE  Terms(t)' \in Contract!Rules /\ reply'[t].body \in Seq(Units)
      BY <1>type, <3>1 DEF Terms, Contract!Rules, TypeOK, Response
    <3> QED
      BY <3>1 DEF Answers, Units, Contract!Units
  <2> QED
    BY <1>next, <1>map, <2>1, <2>2, <2>3 DEF Contract!Receive, Admitted, Answers
<1>5. CASE PassThrough(s) \/ StartStream(s) \/ TransformBody(s)
  <2>1. Phase(s)' = Phase(s) /\ reply' = reply /\ got' = got
    BY <1>5, <1>type DEF PassThrough, StartStream, TransformBody, Phase, TypeOK
  <2> QED
    BY <1>quiet, <2>1
<1>6. CASE CopyUnit(s) \/ StreamFrame(s)
  <2>1. /\ rest[s] # <<>> /\ reply' = reply /\ pc' = pc /\ pc[s] \in {"copy", "stream"}
        /\ rest[s] \in Seq(Units) /\ got[s] \in Seq(Units)
    BY <1>6, <1>type DEF CopyUnit, StreamFrame, TypeOK
  <2>2. Phase(s) = "answered" /\ Phase(s)' = Phase(s)
    BY <2>1 DEF Phase
  <2>3. Len(got[s]) < Len(reply[s].body)
    <3>1. Len(got[s]) + Len(rest[s]) = Len(reply[s].body)
      BY <1>type, <2>1 DEF Delivery, Copying
    <3> DEFINE a == Len(got[s])
               b == Len(rest[s])
               c == Len(reply[s].body)
    <3>2. a \in Nat
      BY <2>1
    <3>3. b \in Nat
      BY <2>1
    <3>4. b # 0
      BY <2>1
    <3>5. a + b = c
      BY <3>1
    <3> HIDE DEF a, b, c
    <3>6. a < c
      BY <3>2, <3>3, <3>4, <3>5
    <3> QED
      BY <3>6 DEF a, c
  <2>4. 1 \in DOMAIN rest[s] /\ Head(rest[s]) = rest[s][1]
    BY <2>1
  <2>5. \E unit \in Contract!Shown(Terms(s), reply[s].body[Len(got[s]) + 1]) :
           got'[s] = Append(got[s], unit)
    <3>1. CASE CopyUnit(s)
      <4>1. got'[s] = Append(got[s], Head(rest[s])) /\ Head(rest[s]) # "cut" /\ pc[s] = "copy"
        BY <1>type, <3>1 DEF CopyUnit, TypeOK
      <4> QED
        BY <1>type, <2>4, <4>1 DEF Showable, Shows
    <3>2. CASE StreamFrame(s)
      <4>1. /\ got'[s] = Append(got[s], StreamUnit(s)) /\ pc[s] = "stream"
            /\ Head(rest[s]) \in {"clean", "dirty", "rows"}
        BY <1>type, <3>2 DEF StreamFrame, TypeOK
      <4>2. StreamUnit(s) = IF Head(rest[s]) = "rows" THEN "rows" ELSE "clean"
        BY <1>type, <4>1 DEF StreamUnit, Delivery, Copying
      <4>3. /\ Head(rest[s]) = reply[s].body[Len(got[s]) + 1]
            /\ RedactionEnabled(cfg) /\ Route(s) = "stream"
        BY <1>type, <2>4, <4>1 DEF Showable
      <4>4. Terms(s) \in {"framewise", "either"}
        BY <4>3, TermsKnown
      <4> QED
        BY <4>1, <4>2, <4>3, <4>4, ShownClean, ShownRows
    <3> QED
      BY <1>6, <3>1, <3>2
  <2>6. PICK unit \in Contract!Shown(Terms(s), reply[s].body[Len(got[s]) + 1]) :
           got'[s] = Append(got[s], unit)
    BY <2>5
  <2>7. got' = [got EXCEPT ![s] = Append(got[s], unit)]
    BY <1>map, <2>6
  <2>8. Phases' = Phases
    BY <1>map, <2>2 DEF Phases
  <2> QED
    BY <1>next, <1>map, <1>at, <2>1, <2>2, <2>3, <2>6, <2>7, <2>8
    DEF Contract!Deliver, Admitted, Answers, Phases
<1>7. CASE CopyFails(s)
  <2>1. Phase(s) = "answered" /\ Phase(s)' = "aborted" /\ reply' = reply /\ got' = got
    BY <1>7, <1>type DEF CopyFails, Phase, TypeOK
  <2>2. Contract!Pass(s, "answered", "aborted")
    BY <1>pass, <2>1
  <2> QED
    BY <1>next, <1>map, <2>1, <2>2 DEF Contract!Abort, Admitted, Answers
<1>8. CASE CopyEnds(s)
  <2>1. Phase(s) = "answered" /\ Phase(s)' = "closed" /\ reply' = reply /\ got' = got
    BY <1>8, <1>type DEF CopyEnds, Phase, TypeOK
  <2>2. Contract!Pass(s, "answered", "closed")
    BY <1>pass, <2>1
  <2>3. Len(got[s]) = Len(reply[s].body)
    <3>1. Len(got[s]) + Len(rest[s]) = Len(reply[s].body) /\ Len(rest[s]) = 0
      BY <1>8, <1>type DEF CopyEnds, Delivery, Copying
    <3>2. Len(got[s]) \in Nat
      BY <1>type DEF TypeOK
    <3> QED
      BY <3>1, <3>2
  <2> QED
    BY <1>next, <1>map, <1>at, <2>1, <2>2, <2>3 DEF Contract!Finish, Admitted, Answers
<1>9. CASE BeginLog(s) \/ EndLog(s) \/ HangUp(s)
  <2>1. Phase(s)' = Phase(s) /\ reply' = reply /\ got' = got
    BY <1>9, <1>type DEF BeginLog, EndLog, HangUp, Phase, TypeOK
  <2> QED
    BY <1>quiet, <2>1
<1>10. CASE \E e \in TransportErrors(s) : RoundTripFails(s, e)
  <2>1. PICK e : Fail(s, "roundtrip", e)
    BY <1>10 DEF RoundTripFails
  <2> QED
    BY <1>3, <2>1
<1>11. CASE FailClosed(s) \/ ReadFails(s) \/ RejectBody(s)
  <2>1. PICK e : Fail(s, "modify", e)
    BY <1>11 DEF FailClosed, ReadFails, RejectBody
  <2> QED
    BY <1>3, <2>1
<1> QED
  BY <1>1, <1>2, <1>4, <1>5, <1>6, <1>7, <1>8, <1>9, <1>10, <1>11 DEF Step

\* Whatever the routes, the failures and the other requests, a client is given an
\* answer of kubegate's own or the cluster's, unit by unit under one rule, and a
\* response that ends normally is all of it.
THEOREM KeepsContractHolds == Spec => KeepsContract
<1>1. ShowInv /\ [Next]_vars => [Contract!Next]_Contract!vars
  <2> SUFFICES ASSUME ShowInv, [Next]_vars PROVE Contract!Next \/ UNCHANGED Contract!vars
    OBVIOUS
  <2>1. CASE UNCHANGED vars
    <3>1. cfg' = cfg /\ in' = in /\ pc' = pc /\ reply' = reply /\ got' = got
      BY <2>1 DEF vars, slotVars
    <3>2. \A t \in Slots : /\ Phase(t)' = Phase(t) /\ Terms(t)' = Terms(t)
                           /\ PastLength(in[t])' = PastLength(in[t])
      BY <3>1, SameTerms DEF Phase
    <3>3. Admitted' = Admitted /\ Phases' = Phases /\ Answers' = Answers
      BY <3>1, <3>2 DEF Admitted, Phases, Answers
    <3> QED
      BY <3>1, <3>3 DEF Contract!vars, Admitted, Phases, Answers
  <2>2. CASE Next
    BY <2>2, NextIsStep, ContractStep
  <2> QED
    BY <2>1, <2>2
<1> QED
  BY <1>1, InitContract, ShowInvariant, PTL DEF Spec, KeepsContract, Contract!Spec
=============================================================================
