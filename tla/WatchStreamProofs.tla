-------------------------- MODULE WatchStreamProofs --------------------------
(***************************************************************************)
(* Proofs about a strict watch, for every stream the cluster may send,     *)
(* however long: the pump, the pipe and the proxy's copy implement         *)
(* FilteredStream, and never hold more than two frames.                    *)
(***************************************************************************)
EXTENDS WatchStream, FiniteSetTheorems, TLAPS

USE DEF cluster, client, pumpVars, copyVars

ClusterStep == \/ \E frame \in Promise!Frames : Send(frame)
               \/ \E how \in {"eof", "broken"} : EndSource(how)
               \/ HangUp \/ NoticeHangUp

LEMMA NextIsStep == Next => ClusterStep \/ PumpStep \/ CopyStep \/ CopyWrite
  BY DEF Next, ClusterStep

-----------------------------------------------------------------------------
(* Type correctness.                                                       *)

Units == {"clean", "tail"}

LEMMA FilteredType ==
  \A frame \in Promise!Carries : Promise!Filtered(frame) \in Units
  BY DEF Promise!Carries, Promise!Filtered, Units

LEMMA FrameNames ==
  /\ Promise!Frames = {"clean", "dirty", "tail", "blank", "bad"}
  /\ Promise!Carries = {"clean", "dirty", "tail"}
  BY DEF Promise!Frames, Promise!Carries

LEMMA NoFrameType == NoFrame \in InFlight
  BY DEF InFlight

\* What the pipe or the copy holds is a frame that was read from the cluster.
LEMMA InFlightType ==
  ASSUME TypeOK, NEW i \in 1..Len(sent), sent[i] \in Promise!Carries
  PROVE  Promise!Passed(i) \in InFlight \ {NoFrame}
<1>1. i \in 1..MaxFrames
  BY MaxFramesAssumption DEF TypeOK
<1>2. Promise!Passed(i) \in [at : 1..MaxFrames, unit : {"clean", "tail"}]
  BY <1>1, FilteredType DEF Promise!Passed, Units
<1>3. Promise!Passed(i).at # NoFrame.at
  BY DEF Promise!Passed, NoFrame
<1> QED
  BY <1>2, <1>3 DEF InFlight

LEMMA HeldType ==
  ASSUME NEW f \in InFlight, f # NoFrame
  PROVE  f \in [at : 1..MaxFrames, unit : {"clean", "tail"}]
  BY DEF InFlight

\* The copy has a frame in its hands while it writes, the pipe while the pump does.
Held == /\ copy = "write" <=> hand # NoFrame
        /\ pump # "write" => offer = NoFrame

Typed == TypeOK /\ Held

LEMMA InitTyped == Init => Typed
<1> SUFFICES ASSUME Init PROVE TypeOK /\ Held
  BY DEF Typed
<1>1. /\ sent \in Seq(Promise!Frames) /\ Len(sent) = 0
      /\ got \in Seq([at : 1..MaxFrames, unit : {"clean", "tail"}])
  BY DEF Init, Promise!Init
<1>2. Held
  BY DEF Init, Held
<1>3. taken = 0 /\ source = "open" /\ gone = FALSE /\ end = "open"
  BY DEF Init, Promise!Init
<1>4. pump = "read" /\ result = "none" /\ body = TRUE /\ pw = "open"
  BY DEF Init
<1>5. pr = "open" /\ copy = "read" /\ hand = NoFrame /\ offer = NoFrame /\ canceled = FALSE
  BY DEF Init
<1>6. Len(sent) <= MaxFrames /\ taken \in 0..Len(sent)
  BY <1>1, <1>3, MaxFramesAssumption
<1>7. hand \in InFlight /\ offer \in InFlight
  BY <1>5, NoFrameType
<1> QED
  BY <1>1, <1>2, <1>3, <1>4, <1>5, <1>6, <1>7 DEF TypeOK

LEMMA TypedStep == Typed /\ [Next]_vars => Typed'
<1> SUFFICES ASSUME Typed, [Next]_vars PROVE Typed'
  OBVIOUS
<1> USE DEF Typed, TypeOK, Held
<1>1. CASE UNCHANGED vars
  BY <1>1 DEF vars
<1>2. CASE ClusterStep
  <2>1. ASSUME NEW frame \in Promise!Frames, Send(frame) PROVE Typed'
    BY <2>1, MaxFramesAssumption DEF Send, Promise!Send
  <2>2. ASSUME NEW how \in {"eof", "broken"}, EndSource(how) PROVE Typed'
    BY <2>2 DEF EndSource, Promise!EndSource
  <2>3. CASE HangUp
    BY <2>3 DEF HangUp, Promise!HangUp
  <2>4. CASE NoticeHangUp
    BY <2>4 DEF NoticeHangUp
  <2> QED
    BY <1>2, <2>1, <2>2, <2>3, <2>4 DEF ClusterStep
<1>3. CASE PumpStep
  <2>1. CASE SkipBlank
    BY <2>1 DEF SkipBlank, HasFrame
  <2>2. CASE RejectFrame
    BY <2>2 DEF RejectFrame, HasFrame
  <2>3. CASE OfferFrame
    <3>1. offer' \in InFlight
      BY <2>3, InFlightType DEF OfferFrame, HasFrame, NextFrame
    <3> QED
      BY <2>3, <3>1 DEF OfferFrame, HasFrame, EndOf
  <2>4. CASE ReadEnds \/ ReadCanceled
    BY <2>4 DEF ReadEnds, ReadCanceled, EndOf
  <2>5. CASE WriteReturns \/ WriteFails
    BY <2>5, NoFrameType DEF WriteReturns, WriteFails
  <2>6. CASE CloseBody \/ ClosePipe
    BY <2>6 DEF CloseBody, ClosePipe
  <2> QED
    BY <1>3, <2>1, <2>2, <2>3, <2>4, <2>5, <2>6 DEF PumpStep
<1>4. CASE CopyStep
  <2>1. CASE CopyRead
    BY <2>1, NoFrameType DEF CopyRead
  <2>2. CASE CopyEnds
    BY <2>2 DEF CopyEnds
  <2>3. CASE CopyWriteFails
    BY <2>3, NoFrameType DEF CopyWriteFails
  <2>4. CASE CloseReader \/ Return
    BY <2>4 DEF CloseReader, Return
  <2> QED
    BY <1>4, <2>1, <2>2, <2>3, <2>4 DEF CopyStep
<1>5. CASE CopyWrite
  <2>1. hand \in [at : 1..MaxFrames, unit : {"clean", "tail"}]
    BY <1>5, HeldType DEF CopyWrite
  <2> QED
    BY <1>5, <2>1, NoFrameType DEF CopyWrite
<1> QED
  BY <1>1, <1>2, <1>3, <1>4, <1>5, NextIsStep

LEMMA TypedInvariant == Spec => []Typed
<1> QED
  BY InitTyped, TypedStep, PTL DEF Spec

\* Every value of every variable is of its kind.
THEOREM WatchTypes == Spec => []TypeOK
<1>1. Typed => TypeOK
  BY DEF Typed
<1> QED
  BY <1>1, TypedInvariant, PTL

-----------------------------------------------------------------------------
(* Where the frames are.  Up to the client, up to the copy's hands and up  *)
(* to the pipe, each frame that carries anything lies in one of the three; *)
(* what was read after the last of them was blank, or was the reason the   *)
(* pump stopped.                                                           *)

Moving == copy \in {"read", "write", "finish"}
InHand == IF hand = NoFrame THEN Promise!Seen ELSE hand.at
InPipe == IF offer = NoFrame THEN InHand ELSE offer.at

IsFrame(f) == /\ f.at \in 1..taken
              /\ sent[f.at] \in Promise!Carries
              /\ f = Promise!Passed(f.at)

Frames == /\ hand # NoFrame => IsFrame(hand)
          /\ offer # NoFrame => IsFrame(offer)

Places == /\ Promise!Seen \in 0..taken
          /\ Moving => /\ hand # NoFrame => /\ Promise!Seen < hand.at
                                            /\ Promise!Blanks(Promise!Seen, hand.at)
                       /\ offer # NoFrame => /\ InHand < offer.at
                                             /\ Promise!Blanks(InHand, offer.at)
                       /\ pump = "read" \/ result = "nil" \/ pump = "write"
                          => Promise!Blanks(InPipe, taken + 1)

\* Why the stream ends, and who has ended it.
Cause == source = "broken" \/ gone \/ \E i \in DOMAIN sent : sent[i] = "bad"
Left == copy \in {"leave", "returned"}

Ends == /\ pump = "read" => result = "none"
        /\ pump \in {"close", "closePipe", "done"} => result # "none"
        /\ result = "nil" => source = "eof" /\ taken = Len(sent)
        /\ result = "error" => Cause \/ Left
        /\ canceled => gone \/ Left
        /\ pr = "closed" => Left
        /\ end = "open" <=> ~Left
        /\ pw # "open" => pump = "done"
        /\ pw = "EOF" => result = "nil"
        /\ pw = "error" => result = "error"
        /\ copy = "finish" => pw = "EOF"
        /\ copy = "abort" => Cause
        /\ \A i \in DOMAIN sent : sent[i] = "tail" => i = Len(sent)

IInv == Typed /\ Frames /\ Places /\ Ends

LEMMA InitIInv == Init => IInv
<1> SUFFICES ASSUME Init PROVE Frames /\ Places /\ Ends
  BY InitTyped DEF IInv
<1>1. sent = <<>> /\ got = <<>> /\ source = "open" /\ end = "open"
  BY DEF Init, Promise!Init
<1>2. Frames
  BY DEF Init, Frames
<1>3. Promise!Seen = 0 /\ InHand = 0 /\ InPipe = 0
  BY <1>1 DEF Init, Promise!Seen, InHand, InPipe
<1>4. Places
  BY <1>3 DEF Init, Places, Promise!Blanks
<1>5. Ends
  BY <1>1 DEF Init, Ends, Left
<1> QED
  BY <1>2, <1>4, <1>5

\* What the invariant reads of the frames does not change as the stream grows.
LEMMA Grown ==
  ASSUME Typed, Frames, Places, NEW frame \in Promise!Frames,
         sent' = Append(sent, frame), Len(sent) < MaxFrames,
         UNCHANGED <<got, hand, offer, taken, copy, pump, result>>
  PROVE  Frames' /\ Places'
<1> USE DEF Typed, TypeOK
<1>1. /\ Len(sent') = Len(sent) + 1
      /\ \A i \in 1..Len(sent) : sent'[i] = sent[i]
  OBVIOUS
<1>2. ASSUME NEW i \in 1..taken PROVE sent'[i] = sent[i]
  BY <1>1
<1>3. ASSUME NEW f, IsFrame(f) PROVE IsFrame(f)'
  BY <1>2, <1>3 DEF IsFrame, Promise!Passed
<1>4. Frames'
  BY <1>3 DEF Frames, IsFrame
<1>5. UNCHANGED <<Promise!Seen, InHand, InPipe, Moving>>
  BY DEF Promise!Seen, InHand, InPipe, Moving
<1>6. ASSUME NEW m \in Nat, NEW n \in 0..(taken + 1), Promise!Blanks(m, n)
      PROVE  Promise!Blanks(m, n)'
  BY <1>2, <1>6 DEF Promise!Blanks
<1>7. hand # NoFrame => hand.at \in 1..taken
  BY DEF Frames, IsFrame
<1>8. offer # NoFrame => offer.at \in 1..taken
  BY DEF Frames, IsFrame
<1>9. InHand \in Nat /\ InPipe \in Nat /\ Promise!Seen \in Nat
  BY <1>7, <1>8 DEF InHand, InPipe, Places
<1>10. Places'
  BY <1>5, <1>6, <1>7, <1>8, <1>9 DEF Places
<1> QED
  BY <1>4, <1>10

\* Most steps move no frame, and leave the pump's place alone.
LEMMA Still ==
  ASSUME Frames, Places, UNCHANGED <<sent, got, hand, offer, taken>>,
         Moving' => Moving,
         pump' = "read" \/ result' = "nil" \/ pump' = "write"
           => pump = "read" \/ result = "nil" \/ pump = "write"
  PROVE  Frames' /\ Places'
<1>1. UNCHANGED <<Promise!Seen, InHand, InPipe>>
  BY DEF Promise!Seen, InHand, InPipe
<1>2. Frames'
  BY DEF Frames, IsFrame, Promise!Passed
<1>3. \A m, n : Promise!Blanks(m, n)' <=> Promise!Blanks(m, n)
  BY DEF Promise!Blanks
<1>4. Places'
  BY <1>1, <1>3 DEF Places
<1> QED
  BY <1>2, <1>4

LEMMA ClusterIInv ==
  ASSUME IInv, ClusterStep PROVE Frames' /\ Places' /\ Ends'
<1> USE DEF IInv, Typed, TypeOK
<1>1. ASSUME NEW frame \in Promise!Frames, Send(frame)
      PROVE  Frames' /\ Places' /\ Ends'
  <2>1. Frames' /\ Places'
    BY <1>1, Grown DEF Send, Promise!Send
  <2>2. \A i \in DOMAIN sent : i \in DOMAIN sent' /\ sent'[i] = sent[i]
    BY <1>1 DEF Send, Promise!Send
  <2>3. \A i \in DOMAIN sent' : sent'[i] = "tail" => i = Len(sent')
    BY <1>1 DEF Send, Promise!Send
  <2>4. Cause => Cause'
    BY <1>1, <2>2 DEF Send, Promise!Send, Cause
  <2> QED
    BY <1>1, <2>1, <2>3, <2>4 DEF Send, Promise!Send, Ends, Left
<1>2. ASSUME NEW how \in {"eof", "broken"}, EndSource(how)
      PROVE  Frames' /\ Places' /\ Ends'
  <2>1. Frames' /\ Places'
    BY <1>2, Still DEF EndSource, Promise!EndSource, Moving
  <2> QED
    BY <1>2, <2>1 DEF EndSource, Promise!EndSource, Ends, Left, Cause
<1>3. CASE HangUp \/ NoticeHangUp
  <2>1. Frames' /\ Places'
    BY <1>3, Still DEF HangUp, Promise!HangUp, NoticeHangUp, Moving
  <2> QED
    BY <1>3, <2>1 DEF HangUp, Promise!HangUp, NoticeHangUp, Ends, Left, Cause
<1> QED
  BY <1>1, <1>2, <1>3 DEF ClusterStep

LEMMA PumpIInv ==
  ASSUME IInv, PumpStep PROVE Frames' /\ Places' /\ Ends'
<1> USE DEF IInv, Typed, TypeOK
<1>0. /\ HasFrame => taken + 1 \in 1..Len(sent)
      /\ HasFrame /\ NextFrame = "tail" => taken + 1 = Len(sent) /\ source # "open"
  BY DEF HasFrame, NextFrame, Ends
<1>names. "blank" \notin Promise!Carries /\ "bad" \notin Promise!Carries
  BY FrameNames
<1>1. CASE SkipBlank
  <2>1. Frames'
    BY <1>0, <1>1 DEF SkipBlank, Frames, IsFrame, Promise!Passed
  <2>2. UNCHANGED <<Promise!Seen, InHand, InPipe, Moving>>
    BY <1>1 DEF SkipBlank, Promise!Seen, InHand, InPipe, Moving
  <2>3. \A m, n : Promise!Blanks(m, n)' <=> Promise!Blanks(m, n)
    BY <1>1 DEF SkipBlank, Promise!Blanks
  <2>4. InPipe \in 0..taken
    BY DEF InPipe, InHand, Frames, IsFrame, Places
  <2>5. Moving => Promise!Blanks(InPipe, taken + 2)
    BY <1>0, <1>1, <2>4 DEF SkipBlank, HasFrame, NextFrame, Places, Promise!Blanks
  <2>6. Places'
    BY <1>1, <2>2, <2>3, <2>5 DEF SkipBlank, Places
  <2>7. Ends'
    BY <1>1 DEF SkipBlank, HasFrame, Ends, Left, Cause
  <2> QED
    BY <2>1, <2>6, <2>7
<1>2. CASE RejectFrame
  <2>1. Frames'
    BY <1>0, <1>2 DEF RejectFrame, Frames, IsFrame, Promise!Passed
  <2>2. UNCHANGED <<Promise!Seen, InHand, InPipe, Moving>>
    BY <1>2 DEF RejectFrame, Promise!Seen, InHand, InPipe, Moving
  <2>3. \A m, n : Promise!Blanks(m, n)' <=> Promise!Blanks(m, n)
    BY <1>2 DEF RejectFrame, Promise!Blanks
  <2>4. Places'
    BY <1>2, <2>2, <2>3 DEF RejectFrame, Places
  <2>5. Cause'
    BY <1>0, <1>2 DEF RejectFrame, NextFrame, Cause
  <2>6. Ends'
    BY <1>2, <2>5 DEF RejectFrame, HasFrame, Ends, Left, Cause
  <2> QED
    BY <2>1, <2>4, <2>6
<1>3. CASE OfferFrame
  <2>1. offer' = Promise!Passed(taken + 1) /\ offer'.at = taken + 1 /\ offer = NoFrame
    BY <1>3 DEF OfferFrame, HasFrame, Held, Promise!Passed
  <2>2. offer' # NoFrame
    BY <1>0, <1>3, InFlightType DEF OfferFrame, NextFrame
  <2>3. ASSUME NEW f, IsFrame(f) PROVE IsFrame(f)'
    BY <1>0, <1>3, <2>3 DEF OfferFrame, IsFrame, Promise!Passed
  <2>4. IsFrame(offer)'
    BY <1>0, <1>3, <2>1 DEF OfferFrame, NextFrame, IsFrame, Promise!Passed
  <2>5. Frames'
    BY <1>3, <2>3, <2>4 DEF OfferFrame, Frames, IsFrame
  <2>6. UNCHANGED <<Promise!Seen, InHand, Moving>> /\ InPipe = InHand
        /\ InPipe' = taken + 1
    BY <1>3, <2>1, <2>2 DEF OfferFrame, Promise!Seen, InHand, InPipe, Moving
  <2>7. \A m, n : Promise!Blanks(m, n)' <=> Promise!Blanks(m, n)
    BY <1>3 DEF OfferFrame, Promise!Blanks
  <2>8. InHand \in 0..taken
    BY DEF InHand, Frames, IsFrame, Places
  <2>9. Promise!Blanks(taken + 1, taken + 2)
    BY DEF Promise!Blanks
  <2>10. Moving => Promise!Blanks(InHand, taken + 1)
    BY <1>3, <2>6 DEF OfferFrame, HasFrame, Places
  <2>11. Places'
    BY <1>3, <2>1, <2>2, <2>6, <2>7, <2>8, <2>9, <2>10 DEF OfferFrame, Places
  <2>12. /\ pump = "read" /\ pump' = "write" /\ result = "none"
         /\ result' = IF NextFrame = "tail" THEN EndOf(source) ELSE result
    BY <1>3 DEF OfferFrame, HasFrame, Ends
  <2>13. CASE NextFrame = "tail"
    <3>1. taken' = Len(sent) /\ source \in {"eof", "broken"}
      BY <1>0, <1>3, <2>13 DEF OfferFrame
    <3>2. result' = "nil" => source = "eof"
      BY <2>12, <2>13 DEF EndOf
    <3>3. result' = "error" => source = "broken"
      BY <2>12, <2>13, <3>1 DEF EndOf
    <3> QED
      BY <1>3, <2>5, <2>11, <2>12, <3>1, <3>2, <3>3 DEF OfferFrame, Ends, Left, Cause
  <2>14. CASE NextFrame # "tail"
    BY <1>3, <2>5, <2>11, <2>12, <2>14 DEF OfferFrame, Ends, Left, Cause
  <2> QED
    BY <2>13, <2>14
<1>4. CASE ReadEnds \/ ReadCanceled
  <2>1. Frames' /\ Places'
    BY <1>4, Still DEF ReadEnds, ReadCanceled, Moving
  <2>2. Ends'
    BY <1>4 DEF ReadEnds, ReadCanceled, EndOf, Ends, Left, Cause
  <2> QED
    BY <2>1, <2>2
<1>5. CASE WriteReturns
  <2>1. Frames' /\ Places'
    BY <1>5, Still DEF WriteReturns, Moving
  <2>2. Ends'
    BY <1>5 DEF WriteReturns, Ends, Left, Cause
  <2> QED
    BY <2>1, <2>2
<1>6. CASE WriteFails
  <2>1. Left /\ Left' /\ ~Moving'
    BY <1>6 DEF WriteFails, Ends, Left, Moving
  <2>2. Frames' /\ Places'
    BY <1>6, <2>1 DEF WriteFails, Frames, IsFrame, Promise!Passed, Places, Promise!Seen
  <2>3. Ends'
    BY <1>6, <2>1 DEF WriteFails, Ends, Left, Cause
  <2> QED
    BY <2>2, <2>3
<1>7. CASE CloseBody \/ ClosePipe
  <2>1. Frames' /\ Places'
    BY <1>7, Still DEF CloseBody, ClosePipe, Moving
  <2>2. Ends'
    BY <1>7 DEF CloseBody, ClosePipe, Ends, Left, Cause
  <2> QED
    BY <2>1, <2>2
<1> QED
  BY <1>1, <1>2, <1>3, <1>4, <1>5, <1>6, <1>7 DEF PumpStep

LEMMA CopyIInv ==
  ASSUME IInv, CopyStep \/ CopyWrite PROVE Frames' /\ Places' /\ Ends'
<1> USE DEF IInv, Typed, TypeOK
<1>1. CASE CopyRead
  <2>1. UNCHANGED <<Promise!Seen, InPipe, Moving>> /\ InHand' = offer.at
        /\ InHand = Promise!Seen /\ InPipe' = offer.at
    BY <1>1 DEF CopyRead, Held, Promise!Seen, InHand, InPipe, Moving
  <2>2. Frames'
    BY <1>1 DEF CopyRead, Frames, IsFrame, Promise!Passed
  <2>3. \A m, n : Promise!Blanks(m, n)' <=> Promise!Blanks(m, n)
    BY <1>1 DEF CopyRead, Promise!Blanks
  <2>4. InPipe = offer.at
    BY <1>1 DEF CopyRead, InPipe
  <2>5. Places'
    BY <1>1, <2>1, <2>3, <2>4 DEF CopyRead, Places, Moving
  <2>6. Ends'
    BY <1>1 DEF CopyRead, Ends, Left, Cause
  <2> QED
    BY <2>2, <2>5, <2>6
<1>2. CASE CopyEnds
  <2>1. Frames' /\ Places'
    BY <1>2, Still DEF CopyEnds, Moving
  <2>2. pw = "error" => Cause
    BY <1>2 DEF CopyEnds, Ends, Left
  <2>3. Ends'
    BY <1>2, <2>2 DEF CopyEnds, Ends, Left, Cause
  <2> QED
    BY <2>1, <2>3
<1>3. CASE CopyWrite
  <2>1. IsFrame(hand) /\ hand.at \in 1..taken
    BY <1>3 DEF CopyWrite, Held, Frames, IsFrame
  <2>2. Promise!Seen' = hand.at
    BY <1>3 DEF CopyWrite, Promise!Seen
  <2>3. UNCHANGED <<InHand, InPipe>> /\ Moving /\ Moving'
    BY <1>3, <2>2 DEF CopyWrite, Held, InHand, InPipe, Moving
  <2>4. Frames'
    BY <1>3 DEF CopyWrite, Frames, IsFrame, Promise!Passed
  <2>5. \A m, n : Promise!Blanks(m, n)' <=> Promise!Blanks(m, n)
    BY <1>3 DEF CopyWrite, Promise!Blanks
  <2>6. Places'
    BY <1>3, <2>1, <2>2, <2>3, <2>5 DEF CopyWrite, Places
  <2>7. Ends'
    BY <1>3 DEF CopyWrite, Ends, Left, Cause
  <2> QED
    BY <2>4, <2>6, <2>7
<1>4. CASE CopyWriteFails \/ CloseReader \/ Return
  <2>1. Places' /\ Frames'
    <3>1. CASE CopyWriteFails \/ Return
      BY <1>4, <3>1 DEF CopyWriteFails, Return, Frames, IsFrame, Promise!Passed,
                        Places, Promise!Seen, Moving
    <3>2. CASE CloseReader
      BY <3>2, Still DEF CloseReader, Moving
    <3> QED
      BY <1>4, <3>1, <3>2
  <2>2. CASE CopyWriteFails
    BY <2>1, <2>2 DEF CopyWriteFails, Ends, Left, Cause
  <2>3. CASE CloseReader
    BY <2>1, <2>3 DEF CloseReader, Ends, Left, Cause
  <2>4. CASE Return
    BY <2>1, <2>4 DEF Return, Ends, Left, Cause
  <2> QED
    BY <1>4, <2>2, <2>3, <2>4
<1> QED
  BY <1>1, <1>2, <1>3, <1>4 DEF CopyStep

LEMMA IInvStep == IInv /\ [Next]_vars => IInv'
<1> SUFFICES ASSUME IInv, [Next]_vars PROVE IInv'
  OBVIOUS
<1>1. Typed'
  BY TypedStep DEF IInv
<1>2. CASE UNCHANGED vars
  <2>1. Frames' /\ Places'
    BY <1>2, Still DEF vars, IInv, Moving
  <2>2. Ends'
    BY <1>2 DEF vars, IInv, Ends, Left, Cause
  <2> QED
    BY <1>1, <2>1, <2>2 DEF IInv
<1>3. CASE Next
  BY <1>1, <1>3, NextIsStep, ClusterIInv, PumpIInv, CopyIInv DEF IInv
<1> QED
  BY <1>2, <1>3

LEMMA Invariant == Spec => []IInv
<1> QED
  BY InitIInv, IInvStep, PTL DEF Spec

-----------------------------------------------------------------------------
(* The refinement.  Only the steps at the two ends of the pipe are the     *)
(* promise's own: what the pump does, and the copy's reads, are stutters.  *)

LEMMA StepKeepsPromise == IInv /\ [Next]_vars => [Promise!Next]_Promise!vars
<1> SUFFICES ASSUME IInv, [Next]_vars PROVE Promise!Next \/ UNCHANGED Promise!vars
  OBVIOUS
<1> USE DEF Promise!vars
<1>1. CASE UNCHANGED vars
  BY <1>1 DEF vars
<1>2. CASE ClusterStep
  BY <1>2 DEF ClusterStep, Send, EndSource, HangUp, NoticeHangUp, Promise!Next
<1>3. CASE PumpStep
  BY <1>3 DEF PumpStep, SkipBlank, RejectFrame, OfferFrame, ReadEnds, ReadCanceled,
              WriteReturns, WriteFails, CloseBody, ClosePipe
<1>4. CASE CopyWrite
  <2>1. /\ hand.at \in DOMAIN sent /\ sent[hand.at] \in Promise!Carries
        /\ hand = Promise!Passed(hand.at)
    BY <1>4 DEF CopyWrite, IInv, Typed, TypeOK, Held, Frames, IsFrame
  <2>2. hand.at > Promise!Seen /\ Promise!Blanks(Promise!Seen, hand.at)
    BY <1>4, <2>1 DEF CopyWrite, IInv, Typed, TypeOK, Held, Places, Moving
  <2>3. end = "open"
    BY <1>4 DEF CopyWrite, IInv, Typed, Ends, Left
  <2>4. Promise!Deliver(hand.at)
    BY <1>4, <2>1, <2>2, <2>3 DEF CopyWrite, Promise!Deliver
  <2> QED
    BY <2>1, <2>4 DEF Promise!Next
<1>5. CASE CloseReader
  <2>1. end = "open" /\ (copy = "abort" => Cause)
    BY <1>5 DEF CloseReader, IInv, Ends, Left
  <2>2. CASE copy = "abort"
    BY <1>5, <2>1, <2>2 DEF CloseReader, Cause, Promise!Break, Promise!Next
  <2>3. CASE copy = "finish"
    <3>1. source = "eof" /\ taken = Len(sent) /\ pump = "done" /\ result = "nil"
      BY <2>3 DEF IInv, Ends
    <3>2. Promise!Blanks(Promise!Seen, Len(sent) + 1)
      BY <2>3, <3>1 DEF IInv, Typed, Held, Places, Moving, InPipe, InHand
    <3> QED
      BY <1>5, <2>1, <2>3, <3>1, <3>2 DEF CloseReader, Promise!Finish, Promise!Next
  <2> QED
    BY <1>5, <2>2, <2>3 DEF CloseReader
<1>6. CASE CopyStep /\ ~CloseReader
  BY <1>6 DEF CopyStep, CopyRead, CopyEnds, CopyWriteFails, Return
<1> QED
  BY <1>1, <1>2, <1>3, <1>4, <1>5, <1>6, NextIsStep

\* What the strict mode promises of a watch is what its two goroutines and the
\* pipe between them do: every frame that reaches the client is the next of the
\* cluster's, filtered, and a stream is ended cleanly only when the cluster ended
\* it and all of it was delivered.
THEOREM KeepsPromiseHolds == Spec => KeepsPromise
<1>1. Init => Promise!Init
  BY DEF Init
<1> QED
  BY <1>1, Invariant, StepKeepsPromise, PTL DEF Spec, KeepsPromise, Promise!Spec

-----------------------------------------------------------------------------
(* Backpressure.  Of what was read, all that is not yet written is the     *)
(* frame in the copy's hands and the frame in the pipe, even after one of  *)
(* them has been dropped because a write failed.                           *)

Unwritten == {i \in (Promise!Seen + 1)..taken : sent[i] \in Promise!Carries}

TwoHeld == \E a, b \in Nat : /\ Unwritten \subseteq {a, b}
                             /\ Moving => a = hand.at
                             /\ Moving \/ pump \in {"read", "write"} => b = offer.at

LEMMA InitTwoHeld == Init => TwoHeld
<1> SUFFICES ASSUME Init PROVE TwoHeld
  OBVIOUS
<1>1. Unwritten = {}
  BY DEF Init, Promise!Init, Unwritten, Promise!Seen
<1>2. hand.at = 0 /\ offer.at = 0
  BY DEF Init, NoFrame
<1> QED
  BY <1>1, <1>2 DEF TwoHeld

LEMMA TwoHeldStep == IInv /\ TwoHeld /\ [Next]_vars => TwoHeld'
<1> SUFFICES ASSUME IInv, TwoHeld, [Next]_vars PROVE TwoHeld'
  OBVIOUS
<1> USE DEF IInv, Typed, TypeOK
<1>1. PICK a \in Nat, b \in Nat :
        /\ Unwritten \subseteq {a, b}
        /\ Moving => a = hand.at
        /\ Moving \/ pump \in {"read", "write"} => b = offer.at
  BY DEF TwoHeld
<1>2. Promise!Seen \in 0..taken /\ NoFrame.at = 0
  BY DEF Places, NoFrame
<1>3. 0 \notin Unwritten
  BY <1>2 DEF Unwritten
<1>names. "blank" \notin Promise!Carries /\ "bad" \notin Promise!Carries
  BY FrameNames
<1>4. CASE UNCHANGED vars
  BY <1>1, <1>4 DEF vars, TwoHeld, Unwritten, Promise!Seen, Moving
<1>5. CASE ClusterStep
  <2>1. UNCHANGED <<got, taken, hand, offer, pump, copy>>
    BY <1>5 DEF ClusterStep, Send, EndSource, Promise!EndSource, Promise!Send,
                HangUp, Promise!HangUp, NoticeHangUp
  <2>2. \A i \in 1..taken : sent'[i] = sent[i]
    BY <1>5 DEF ClusterStep, Send, EndSource, Promise!EndSource, Promise!Send,
                HangUp, Promise!HangUp, NoticeHangUp
  <2>3. Unwritten' = Unwritten
    BY <1>2, <2>1, <2>2 DEF Unwritten, Promise!Seen
  <2> QED
    BY <1>1, <2>1, <2>3 DEF TwoHeld, Moving
<1>6. CASE SkipBlank \/ RejectFrame
  <2>1. Unwritten' \subseteq Unwritten
    BY <1>2, <1>6, <1>names DEF SkipBlank, RejectFrame, HasFrame, NextFrame, Unwritten,
                              Promise!Seen
  <2> QED
    BY <1>1, <1>6, <2>1 DEF SkipBlank, RejectFrame, HasFrame, TwoHeld, Moving
<1>7. CASE OfferFrame
  <2>1. offer = NoFrame /\ pump = "read" /\ pump' = "write" /\ offer'.at = taken + 1
    BY <1>7 DEF OfferFrame, HasFrame, Held, Promise!Passed
  <2>2. Unwritten \subseteq {a}
    BY <1>1, <1>2, <1>3, <2>1
  <2>3. Unwritten' \subseteq Unwritten \union {taken + 1}
    BY <1>2, <1>7 DEF OfferFrame, Unwritten, Promise!Seen
  <2>4. Unwritten' \subseteq {a, taken + 1}
    BY <2>2, <2>3
  <2> QED
    BY <1>1, <1>7, <2>1, <2>4 DEF OfferFrame, TwoHeld, Moving
<1>8. CASE ReadEnds \/ ReadCanceled \/ WriteReturns \/ CloseBody \/ ClosePipe
  <2>1. UNCHANGED <<got, sent, taken, hand, offer, copy>>
    BY <1>8 DEF ReadEnds, ReadCanceled, WriteReturns, CloseBody, ClosePipe
  <2>2. pump' \in {"read", "write"} => pump \in {"read", "write"}
    BY <1>8 DEF ReadEnds, ReadCanceled, WriteReturns, CloseBody, ClosePipe
  <2> QED
    BY <1>1, <2>1, <2>2 DEF TwoHeld, Unwritten, Promise!Seen, Moving
<1>9. CASE WriteFails
  <2>1. UNCHANGED <<got, sent, taken, hand, copy>> /\ ~Moving /\ pump' = "close"
    BY <1>9 DEF WriteFails, Ends, Left, Moving
  <2> QED
    BY <1>1, <2>1 DEF TwoHeld, Unwritten, Promise!Seen, Moving
<1>10. CASE CopyRead
  <2>1. hand = NoFrame /\ Moving /\ Moving' /\ offer'.at = 0 /\ hand' = offer
    BY <1>2, <1>10 DEF CopyRead, Held, Moving
  <2>2. Unwritten' = Unwritten
    BY <1>10 DEF CopyRead, Unwritten, Promise!Seen
  <2>3. Unwritten \subseteq {b, 0}
    BY <1>1, <1>2, <1>3, <2>1
  <2> QED
    BY <1>1, <2>1, <2>2, <2>3 DEF TwoHeld
<1>11. CASE CopyWrite
  <2>1. hand # NoFrame /\ Moving /\ Moving' /\ hand'.at = 0 /\ UNCHANGED offer
    BY <1>2, <1>11 DEF CopyWrite, Held, Moving
  <2>2. Promise!Seen' = hand.at /\ hand.at = a /\ Promise!Seen < a
    BY <1>1, <1>11, <2>1 DEF CopyWrite, Promise!Seen, Places
  <2>3. Unwritten' \subseteq Unwritten /\ a \notin Unwritten'
    BY <1>2, <1>11, <2>2 DEF CopyWrite, Unwritten
  <2>4. Unwritten' \subseteq {0, b}
    BY <1>1, <2>3
  <2> QED
    BY <1>1, <2>1, <2>4 DEF TwoHeld
<1>12. CASE CopyEnds \/ CopyWriteFails \/ CloseReader \/ Return
  <2>1. UNCHANGED <<got, sent, taken, offer, pump>> /\ (Moving' => Moving /\ UNCHANGED hand)
    BY <1>12 DEF CopyEnds, CopyWriteFails, CloseReader, Return, Moving
  <2> QED
    BY <1>1, <2>1 DEF TwoHeld, Unwritten, Promise!Seen, Moving
<1> QED
  BY <1>4, <1>5, <1>6, <1>7, <1>8, <1>9, <1>10, <1>11, <1>12, NextIsStep
  DEF PumpStep, CopyStep

LEMMA PairSize ==
  ASSUME NEW a, NEW b, NEW S \in SUBSET {a, b} PROVE Cardinality(S) <= 2
<1>1. IsFiniteSet({a}) /\ Cardinality({a}) = 1
  BY FS_Singleton
<1>2. {a, b} = {a} \union {b}
  OBVIOUS
<1>3. IsFiniteSet({a, b}) /\ Cardinality({a, b}) <= 2
  BY <1>1, <1>2, FS_AddElement
<1> QED
  BY <1>3, FS_Subset, FS_CardinalityType

\* However slow the client and however fast the cluster, at most two of the frames
\* read from the cluster have not been written to the client.
THEOREM BackpressureHolds == Spec => []Backpressure
<1>1. TwoHeld => Backpressure
  BY PairSize DEF TwoHeld, Backpressure, Unwritten
<1>2. Init /\ [][Next]_vars /\ []IInv => []TwoHeld
  BY InitTwoHeld, TwoHeldStep, PTL
<1> QED
  BY <1>1, <1>2, Invariant, PTL DEF Spec

-----------------------------------------------------------------------------
(* Ending.  Liveness itself is for TLC; what it rests on besides fairness  *)
(* is proved: the goroutines never wait for one another, and their steps   *)
(* cannot go on for ever.                                                  *)

\* What a goroutine that has ended leaves behind for the other.
Links == /\ pump = "done" => pw # "open"
         /\ pump \in {"closePipe", "done"} => ~body
         /\ Left => pr = "closed"
         /\ copy = "returned" => canceled

LEMMA LinksStep == IInv /\ Links /\ [Next]_vars => Links'
<1> SUFFICES ASSUME IInv, Links, [Next]_vars PROVE Links'
  OBVIOUS
<1> USE DEF Links, Left
<1>1. CASE UNCHANGED vars
  BY <1>1 DEF vars
<1>2. CASE ClusterStep
  <2>1. UNCHANGED <<pump, pw, body, copy, pr>> /\ (canceled => canceled')
    BY <1>2 DEF ClusterStep, Send, EndSource, Promise!EndSource, Promise!Send,
                HangUp, Promise!HangUp, NoticeHangUp
  <2> QED
    BY <2>1
<1>3. CASE PumpStep
  <2>1. UNCHANGED <<copy, pr, canceled>>
    BY <1>3 DEF PumpStep, SkipBlank, RejectFrame, OfferFrame, ReadEnds, ReadCanceled,
                WriteReturns, WriteFails, CloseBody, ClosePipe
  <2>2. CASE CloseBody \/ ClosePipe
    BY <2>1, <2>2 DEF CloseBody, ClosePipe
  <2>3. CASE ~CloseBody /\ ~ClosePipe
    <3>1. UNCHANGED <<pw, body>> /\ pump' \notin {"closePipe", "done"}
      BY <1>3, <2>3 DEF PumpStep, SkipBlank, RejectFrame, OfferFrame, ReadEnds, ReadCanceled,
                        WriteReturns, WriteFails, HasFrame
    <3> QED
      BY <2>1, <3>1
  <2> QED
    BY <2>2, <2>3
<1>4. CASE CopyStep \/ CopyWrite
  <2>1. UNCHANGED <<pump, pw, body>>
    BY <1>4 DEF CopyStep, CopyRead, CopyEnds, CopyWriteFails, CloseReader, Return, CopyWrite
  <2>2. Left' => pr' = "closed"
    BY <1>4 DEF CopyStep, CopyRead, CopyEnds, CopyWriteFails, CloseReader, Return, CopyWrite
  <2>3. copy' = "returned" => canceled'
    BY <1>4 DEF CopyStep, CopyRead, CopyEnds, CopyWriteFails, CloseReader, Return, CopyWrite
  <2> QED
    BY <2>1, <2>2, <2>3
<1> QED
  BY <1>1, <1>2, <1>3, <1>4, NextIsStep

\* No deadlock: whichever of the two stops first, the other is never left waiting.
THEOREM NeverStuckHolds == Spec => []NeverStuck
<1>1. Init => Links
  BY DEF Init, Links, Left
<1>2. IInv /\ Links => NeverStuck
  <2> SUFFICES ASSUME IInv, Links, ~PumpMoves, ~CopyMoves PROVE NeverStuck
    BY DEF NeverStuck
  <2> USE DEF IInv, Typed, TypeOK, PumpMoves, CopyMoves, Links, Left
  <2>1. pump \in {"read", "write", "done"} /\ copy \in {"read", "write", "returned"}
    OBVIOUS
  <2>2. CASE copy = "write"
    BY <2>2 DEF NeverStuck
  <2>3. CASE copy = "read"
    <3>1. pump = "read"
      BY <2>1, <2>3
    <3> QED
      BY <2>3, <3>1 DEF NeverStuck
  <2>4. CASE copy = "returned"
    <3>1. pump = "done"
      BY <2>1, <2>4
    <3> QED
      BY <2>4, <3>1 DEF NeverStuck, AllEnded
  <2> QED
    BY <2>1, <2>2, <2>3, <2>4
<1>3. Init /\ [][Next]_vars /\ []IInv => []Links
  BY <1>1, LinksStep, PTL
<1> QED
  BY <1>2, <1>3, Invariant, PTL DEF Spec

\* An upper bound on the steps that are left to the two goroutines: five for each
\* frame still to be read, and those that end them.
PumpSteps == CASE pump = "write" -> 4 [] pump = "read" -> 3 [] pump = "close" -> 2
               [] pump = "closePipe" -> 1 [] pump = "done" -> 0
CopySteps == CASE copy = "write" -> 5 [] copy = "read" -> 4 [] copy \in {"finish", "abort"} -> 3
               [] copy = "leave" -> 1 [] copy = "returned" -> 0
FramesLeft == MaxFrames - taken
PipeSteps == IF offer = NoFrame THEN 0 ELSE 2
ContextSteps == IF canceled THEN 0 ELSE 1
StepsLeft == 5 * FramesLeft + PumpSteps + CopySteps + PipeSteps + ContextSteps
Measured == StepsLeft \in Nat

LEMMA StepsLeftType == Typed => Measured
<1> SUFFICES ASSUME Typed PROVE Measured
  OBVIOUS
<1> USE DEF Typed, TypeOK, FramesLeft, PipeSteps, ContextSteps
<1>1. FramesLeft \in Nat
  <2>1. Len(sent) \in Nat /\ Len(sent) <= MaxFrames /\ taken \in 0..Len(sent)
    OBVIOUS
  <2> DEFINE n == Len(sent)
  <2>2. n \in Nat /\ n <= MaxFrames /\ taken \in 0..n
    BY <2>1
  <2> HIDE DEF n
  <2> QED
    BY <2>2, MaxFramesAssumption
<1>2. PumpSteps \in Nat /\ CopySteps \in Nat
  BY DEF PumpSteps, CopySteps
<1>3. PipeSteps \in Nat /\ ContextSteps \in Nat
  OBVIOUS
<1> HIDE DEF Typed, TypeOK, FramesLeft, PipeSteps, ContextSteps
<1> QED
  BY <1>1, <1>2, <1>3 DEF StepsLeft, Measured

\* Every step of a goroutine, and the noticing of a hang-up, lowers the bound.
LEMMA StepsRunOut ==
  ASSUME Typed, Typed', PumpStep \/ CopyStep \/ CopyWrite \/ NoticeHangUp
  PROVE  StepsLeft' < StepsLeft
<1> USE DEF Typed, TypeOK, Held, FramesLeft, PipeSteps, ContextSteps
<1>1. FramesLeft \in Int /\ FramesLeft' \in Int
  BY MaxFramesAssumption
<1>2. PumpSteps \in Int /\ CopySteps \in Int /\ PipeSteps \in Int /\ ContextSteps \in Int
  BY DEF PumpSteps, CopySteps
<1>3. PumpSteps' \in Int /\ CopySteps' \in Int /\ PipeSteps' \in Int /\ ContextSteps' \in Int
  BY DEF PumpSteps, CopySteps
<1>4. \/ /\ FramesLeft' = FramesLeft - 1 /\ PumpSteps' <= PumpSteps + 1
         /\ CopySteps' = CopySteps /\ PipeSteps' <= PipeSteps + 2
         /\ ContextSteps' = ContextSteps
      \/ /\ FramesLeft' = FramesLeft /\ PumpSteps' < PumpSteps
         /\ CopySteps' = CopySteps /\ PipeSteps' <= PipeSteps
         /\ ContextSteps' = ContextSteps
      \/ /\ FramesLeft' = FramesLeft /\ PumpSteps' = PumpSteps
         /\ CopySteps' = CopySteps + 1 /\ PipeSteps' = PipeSteps - 2
         /\ ContextSteps' = ContextSteps
      \/ /\ FramesLeft' = FramesLeft /\ PumpSteps' = PumpSteps
         /\ CopySteps' < CopySteps /\ PipeSteps' = PipeSteps
         /\ ContextSteps' <= ContextSteps
      \/ /\ FramesLeft' = FramesLeft /\ PumpSteps' = PumpSteps
         /\ CopySteps' = CopySteps /\ PipeSteps' = PipeSteps
         /\ ContextSteps' < ContextSteps
  <2>1. CASE SkipBlank \/ RejectFrame \/ OfferFrame
    <3>1. /\ FramesLeft' = FramesLeft - 1 /\ CopySteps' = CopySteps
          /\ ContextSteps' = ContextSteps /\ PipeSteps' <= PipeSteps + 2
      BY <2>1, MaxFramesAssumption DEF SkipBlank, RejectFrame, OfferFrame, HasFrame, CopySteps
    <3>2. PumpSteps' <= PumpSteps + 1
      BY <2>1 DEF SkipBlank, RejectFrame, OfferFrame, HasFrame, PumpSteps
    <3> QED
      BY <3>1, <3>2
  <2>2. CASE ReadEnds \/ ReadCanceled \/ WriteReturns \/ WriteFails \/ CloseBody \/ ClosePipe
    <3>1. /\ FramesLeft' = FramesLeft /\ CopySteps' = CopySteps
          /\ ContextSteps' = ContextSteps /\ PipeSteps' <= PipeSteps
      BY <2>2 DEF ReadEnds, ReadCanceled, WriteReturns, WriteFails, CloseBody, ClosePipe,
                  CopySteps
    <3>2. PumpSteps' < PumpSteps
      BY <2>2 DEF ReadEnds, ReadCanceled, WriteReturns, WriteFails, CloseBody, ClosePipe,
                  PumpSteps
    <3> QED
      BY <3>1, <3>2
  <2>3. CASE CopyRead
    <3>1. /\ FramesLeft' = FramesLeft /\ PumpSteps' = PumpSteps
          /\ ContextSteps' = ContextSteps /\ PipeSteps' = PipeSteps - 2
      BY <2>3 DEF CopyRead, PumpSteps
    <3>2. CopySteps' = CopySteps + 1
      BY <2>3 DEF CopyRead, CopySteps
    <3> QED
      BY <3>1, <3>2
  <2>4. CASE CopyEnds \/ CopyWriteFails \/ CloseReader \/ Return \/ CopyWrite
    <3>1. /\ FramesLeft' = FramesLeft /\ PumpSteps' = PumpSteps
          /\ ContextSteps' <= ContextSteps /\ PipeSteps' = PipeSteps
      BY <2>4 DEF CopyEnds, CopyWriteFails, CloseReader, Return, CopyWrite, PumpSteps
    <3>2. CopySteps' < CopySteps
      BY <2>4 DEF CopyEnds, CopyWriteFails, CloseReader, Return, CopyWrite, CopySteps
    <3> QED
      BY <3>1, <3>2
  <2>5. CASE NoticeHangUp
    <3>1. /\ FramesLeft' = FramesLeft /\ PumpSteps' = PumpSteps
          /\ CopySteps' = CopySteps /\ PipeSteps' = PipeSteps
      BY <2>5 DEF NoticeHangUp, PumpSteps, CopySteps
    <3>2. ContextSteps' < ContextSteps
      BY <2>5 DEF NoticeHangUp
    <3> QED
      BY <3>1, <3>2
  <2> QED
    BY <2>1, <2>2, <2>3, <2>4, <2>5 DEF PumpStep, CopyStep
<1> HIDE DEF Typed, TypeOK, Held, FramesLeft, PipeSteps, ContextSteps
<1>5. PICK f \in Int, p \in Int, c \in Int, i \in Int, x \in Int :
        f = FramesLeft /\ p = PumpSteps /\ c = CopySteps /\ i = PipeSteps /\ x = ContextSteps
  BY <1>1, <1>2
<1>6. PICK g \in Int, q \in Int, d \in Int, j \in Int, y \in Int :
        /\ g = FramesLeft' /\ q = PumpSteps' /\ d = CopySteps'
        /\ j = PipeSteps' /\ y = ContextSteps'
  BY <1>1, <1>3
<1>7. 5 * g + q + d + j + y < 5 * f + p + c + i + x
  <2>1. \/ g = f - 1 /\ q <= p + 1 /\ d = c /\ j <= i + 2 /\ y = x
        \/ g = f /\ q < p /\ d = c /\ j <= i /\ y = x
        \/ g = f /\ q = p /\ d = c + 1 /\ j = i - 2 /\ y = x
        \/ g = f /\ q = p /\ d < c /\ j = i /\ y <= x
        \/ g = f /\ q = p /\ d = c /\ j = i /\ y < x
    BY <1>4, <1>5, <1>6
  <2> QED
    BY <2>1
<1> QED
  BY <1>5, <1>6, <1>7 DEF StepsLeft

\* No livelock: each step of a goroutine, and the noticing of a hang-up, brings the
\* end nearer by a measure that is bounded from the start and that nothing the
\* cluster or the client does can raise.
THEOREM StepsAreBounded ==
  Spec => [][ /\ Measured /\ Measured' /\ StepsLeft' <= StepsLeft
              /\ PumpStep \/ CopyStep \/ CopyWrite \/ NoticeHangUp => StepsLeft' < StepsLeft ]_vars
<1>1. Typed /\ Typed' /\ Measured /\ Measured' /\ [Next]_vars =>
        [ /\ Measured /\ Measured' /\ StepsLeft' <= StepsLeft
          /\ PumpStep \/ CopyStep \/ CopyWrite \/ NoticeHangUp => StepsLeft' < StepsLeft ]_vars
  <2> SUFFICES ASSUME Typed, Typed', Measured, Measured', Next
               PROVE  /\ StepsLeft' <= StepsLeft
                      /\ PumpStep \/ CopyStep \/ CopyWrite \/ NoticeHangUp
                           => StepsLeft' < StepsLeft
    OBVIOUS
  <2>1. CASE PumpStep \/ CopyStep \/ CopyWrite \/ NoticeHangUp
    <3>1. StepsLeft' < StepsLeft
      BY <2>1, StepsRunOut
    <3> QED
      BY <3>1 DEF Measured
  <2>2. CASE ~(PumpStep \/ CopyStep \/ CopyWrite \/ NoticeHangUp)
    <3>1. UNCHANGED <<taken, pump, copy, offer, canceled>>
      BY <2>2, NextIsStep DEF ClusterStep, Send, EndSource, Promise!EndSource, Promise!Send,
                              HangUp, Promise!HangUp
    <3>2. StepsLeft' = StepsLeft
      BY <3>1 DEF StepsLeft, PumpSteps, CopySteps, FramesLeft, PipeSteps, ContextSteps
    <3> QED
      BY <2>2, <3>2 DEF Measured
  <2> QED
    BY <2>1, <2>2
<1>2. Spec => []Measured
  BY StepsLeftType, TypedInvariant, PTL
<1> QED
  BY <1>1, <1>2, TypedInvariant, PTL DEF Spec
=============================================================================
