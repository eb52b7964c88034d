----------------------------- MODULE WatchStream -----------------------------
(***************************************************************************)
(* A watch in the strict mode: modifyResponse puts an io.Pipe between the  *)
(* cluster's body and the reverse proxy, and starts a goroutine, the pump, *)
(* that runs redact.Stream from the body into the pipe.  The handler's     *)
(* goroutine copies from the pipe to the client.  Each of them can end     *)
(* first, for a reason of its own, and must then release the other, the    *)
(* pipe and the connection to the cluster.                                 *)
(*                                                                         *)
(* The pipe has no buffer: a Write returns when its bytes have been read,  *)
(* or when the other end is closed.  A frame on its way is [at, unit], its *)
(* place in sent and what is left of it, as in FilteredStream, which this  *)
(* module implements.                                                      *)
(***************************************************************************)
EXTENDS Naturals, Sequences, FiniteSets

CONSTANT MaxFrames   \* bound on what the cluster sends

ASSUME MaxFramesAssumption == MaxFrames \in Nat

VARIABLES sent, source, got, gone, end,   \* as in FilteredStream
          taken,     \* how many of the frames sent the pump has read
          pump,      \* the pump: "read", "write", "close", "closePipe" or "done"
          result,    \* what Stream returns: "none" yet, "nil" or "error"
          offer,     \* the frame in the pipe's pending Write
          body,      \* the cluster's response body is open
          pw,        \* the pipe's write end: "open", "EOF" or "error"
          pr,        \* the pipe's read end: "open" or "closed"
          copy,      \* the handler: "read", "write", "finish", "abort", "leave", "returned"
          hand,      \* the frame it has read and not yet written
          canceled   \* the request's context is done

cluster == <<sent, source>>
client == <<got, gone, end>>
pumpVars == <<taken, pump, result, body, pw>>
copyVars == <<pr, copy, hand>>
vars == <<cluster, client, pumpVars, copyVars, offer, canceled>>

Promise == INSTANCE FilteredStream

NoFrame == [at |-> 0, unit |-> "none"]

Init == /\ Promise!Init
        /\ taken = 0 /\ pump = "read" /\ result = "none" /\ body = TRUE /\ pw = "open"
        /\ pr = "open" /\ copy = "read" /\ hand = NoFrame
        /\ offer = NoFrame /\ canceled = FALSE

-----------------------------------------------------------------------------
(* The cluster and the client.                                             *)

Send(frame) == /\ body
               /\ Promise!Send(frame)
               /\ UNCHANGED <<pumpVars, copyVars, offer, canceled>>

EndSource(how) == /\ body
                  /\ Promise!EndSource(how)
                  /\ UNCHANGED <<pumpVars, copyVars, offer, canceled>>

HangUp == /\ end = "open"
          /\ Promise!HangUp
          /\ UNCHANGED <<pumpVars, copyVars, offer, canceled>>

\* net/http reads ahead on the client's connection, and cancels the request.
NoticeHangUp == /\ gone /\ ~canceled
                /\ canceled' = TRUE
                /\ UNCHANGED <<cluster, client, pumpVars, copyVars, offer>>

-----------------------------------------------------------------------------
(* The pump: redact.Stream, then the two closes.                           *)

\* readFrame: a line, or the end of the body, or both at once.
NextFrame == sent[taken + 1]
HasFrame == /\ pump = "read" /\ taken < Len(sent)
            /\ NextFrame = "tail" => source # "open"
EndOf(how) == IF how = "eof" THEN "nil" ELSE "error"

SkipBlank == /\ HasFrame /\ NextFrame = "blank"
             /\ taken' = taken + 1
             /\ UNCHANGED <<cluster, client, copyVars, pump, result, body, pw, offer, canceled>>

\* writeFrame fails, or readFrame does on a line that is too long.
RejectFrame == /\ HasFrame /\ NextFrame = "bad"
               /\ taken' = taken + 1
               /\ result' = "error"
               /\ pump' = "close"
               /\ UNCHANGED <<cluster, client, copyVars, body, pw, offer, canceled>>

\* Mutant: the frame is forwarded as it came.
OfferFrame_raw == /\ HasFrame /\ NextFrame \in Promise!Carries
                  /\ taken' = taken + 1
                  /\ offer' = [at |-> taken + 1, unit |-> NextFrame]
                  /\ result' = IF NextFrame = "tail" THEN EndOf(source) ELSE result
                  /\ pump' = "write"
                  /\ UNCHANGED <<cluster, client, copyVars, body, pw, canceled>>

\* writeFrame, up to the Write that blocks.
OfferFrame == /\ HasFrame /\ NextFrame \in Promise!Carries
              /\ taken' = taken + 1
              /\ offer' = Promise!Passed(taken + 1)
              /\ result' = IF NextFrame = "tail" THEN EndOf(source) ELSE result
              /\ pump' = "write"
              /\ UNCHANGED <<cluster, client, copyVars, body, pw, canceled>>

ReadEnds == /\ pump = "read" /\ taken = Len(sent) /\ source # "open"
            /\ result' = EndOf(source)
            /\ pump' = "close"
            /\ UNCHANGED <<cluster, client, copyVars, taken, body, pw, offer, canceled>>

ReadCanceled == /\ pump = "read" /\ canceled
                /\ result' = "error"
                /\ pump' = "close"
                /\ UNCHANGED <<cluster, client, copyVars, taken, body, pw, offer, canceled>>

\* Mutant: the pipe buffers, and a Write returns before its bytes are read.
WriteReturns_early ==
    /\ pump = "write"
    /\ pump' = IF result = "none" THEN "read" ELSE "close"
    /\ UNCHANGED <<cluster, client, copyVars, taken, result, body, pw, offer, canceled>>

WriteReturns == /\ pump = "write" /\ offer = NoFrame
                /\ pump' = IF result = "none" THEN "read" ELSE "close"
                /\ UNCHANGED <<cluster, client, copyVars, taken, result, body, pw, offer,
                               canceled>>

WriteFails == /\ pump = "write" /\ offer # NoFrame /\ pr = "closed"
              /\ offer' = NoFrame
              /\ result' = "error"
              /\ pump' = "close"
              /\ UNCHANGED <<cluster, client, copyVars, taken, body, pw, canceled>>

CloseBody == /\ pump = "close"
             /\ body' = FALSE
             /\ pump' = "closePipe"
             /\ UNCHANGED <<cluster, client, copyVars, taken, result, pw, offer, canceled>>

\* Mutant: the pipe is closed without Stream's error, so that any end is a clean one.
ClosePipe_clean == /\ pump = "closePipe"
                   /\ pw' = "EOF"
                   /\ pump' = "done"
                   /\ UNCHANGED <<cluster, client, copyVars, taken, result, body, offer, canceled>>

\* Mutant: the pump closes the body alone.
ClosePipe_not == /\ pump = "closePipe"
                 /\ pump' = "done"
                 /\ UNCHANGED <<cluster, client, copyVars, taken, result, body, pw, offer,
                                canceled>>

ClosePipe == /\ pump = "closePipe"
             /\ pw' = IF result = "nil" THEN "EOF" ELSE "error"
             /\ pump' = "done"
             /\ UNCHANGED <<cluster, client, copyVars, taken, result, body, offer, canceled>>

-----------------------------------------------------------------------------
(* The handler's goroutine: the reverse proxy's copy.                      *)

CopyRead == /\ copy = "read" /\ offer # NoFrame
            /\ hand' = offer
            /\ offer' = NoFrame
            /\ copy' = "write"
            /\ UNCHANGED <<cluster, client, pumpVars, pr, canceled>>

CopyEnds == /\ copy = "read" /\ pw # "open"
            /\ copy' = IF pw = "EOF" THEN "finish" ELSE "abort"
            /\ UNCHANGED <<cluster, client, pumpVars, pr, hand, offer, canceled>>

\* A client that is gone may not be told from one that reads until a write fails.
CopyWrite == /\ copy = "write"
             /\ got' = Append(got, hand)
             /\ hand' = NoFrame
             /\ copy' = "read"
             /\ UNCHANGED <<cluster, gone, end, pumpVars, pr, offer, canceled>>

CopyWriteFails == /\ copy = "write" /\ gone
                  /\ hand' = NoFrame
                  /\ copy' = "abort"
                  /\ UNCHANGED <<cluster, client, pumpVars, pr, offer, canceled>>

\* Mutant: the pipe's read end stays open.
CloseReader_not == /\ copy \in {"finish", "abort"}
                   /\ end' = IF copy = "finish" THEN "whole" ELSE "cut"
                   /\ copy' = "leave"
                   /\ UNCHANGED <<cluster, got, gone, pumpVars, pr, hand, offer, canceled>>

\* The proxy closes the body it copied from, then returns or panics with
\* http.ErrAbortHandler: net/http ends the response, or breaks the connection.
CloseReader == /\ copy \in {"finish", "abort"}
               /\ pr' = "closed"
               /\ end' = IF copy = "finish" THEN "whole" ELSE "cut"
               /\ copy' = "leave"
               /\ UNCHANGED <<cluster, got, gone, pumpVars, hand, offer, canceled>>

\* net/http cancels the context of a request it is done with.
Return == /\ copy = "leave"
          /\ copy' = "returned"
          /\ canceled' = TRUE
          /\ UNCHANGED <<cluster, client, pumpVars, pr, hand, offer>>

-----------------------------------------------------------------------------
PumpStep == \/ SkipBlank \/ RejectFrame \/ OfferFrame \/ ReadEnds \/ ReadCanceled
            \/ WriteReturns \/ WriteFails \/ CloseBody \/ ClosePipe
CopyStep == CopyRead \/ CopyEnds \/ CopyWriteFails \/ CloseReader \/ Return

Next == \/ \E frame \in Promise!Frames : Send(frame)
        \/ \E how \in {"eof", "broken"} : EndSource(how)
        \/ HangUp \/ NoticeHangUp
        \/ PumpStep \/ CopyStep \/ CopyWrite

Spec == Init /\ [][Next]_vars

\* Fairness: a goroutine that can run does, a hang-up is noticed, and a write to
\* a client that is gone does not block for ever.  Nothing is assumed of the
\* cluster, nor of a client that stays: it may never read.
FairSpec == Spec /\ WF_vars(PumpStep) /\ WF_vars(CopyStep) /\ WF_vars(NoticeHangUp)

-----------------------------------------------------------------------------
InFlight == {NoFrame} \union [at : 1..MaxFrames, unit : {"clean", "tail"}]

TypeOK == /\ sent \in Seq(Promise!Frames) /\ Len(sent) <= MaxFrames
          /\ source \in {"open", "eof", "broken"}
          /\ got \in Seq([at : 1..MaxFrames, unit : {"clean", "tail"}])
          /\ gone \in BOOLEAN /\ end \in {"open", "whole", "cut"}
          /\ taken \in 0..Len(sent)
          /\ pump \in {"read", "write", "close", "closePipe", "done"}
          /\ result \in {"none", "nil", "error"}
          /\ body \in BOOLEAN /\ pw \in {"open", "EOF", "error"}
          /\ pr \in {"open", "closed"}
          /\ copy \in {"read", "write", "finish", "abort", "leave", "returned"}
          /\ hand \in InFlight /\ offer \in InFlight
          /\ canceled \in BOOLEAN

\* The two goroutines and the pipe between them keep the promise: frames arrive
\* in order, filtered and without gaps, and only a stream that the cluster ended
\* and that was delivered whole ends cleanly.
KeepsPromise == Promise!Spec

\* No watch grows the host's memory: of all the frames read from the cluster, at
\* most two have not been written to the client, however slow it is.  What lies in
\* the reader's buffer, 64 KiB at most, has not been read in this sense.
Backpressure ==
    Cardinality({i \in (Promise!Seen + 1)..taken : sent[i] \in Promise!Carries}) <= 2

\* The pump, or the copy, is not waiting: for the cluster, for the other's end of
\* the pipe, or for a client that may never read.
PumpMoves == \/ HasFrame
             \/ pump = "read" /\ (canceled \/ (taken = Len(sent) /\ source # "open"))
             \/ pump = "write" /\ (offer = NoFrame \/ pr = "closed")
             \/ pump \in {"close", "closePipe"}
CopyMoves == \/ copy = "read" /\ (offer # NoFrame \/ pw # "open")
             \/ copy = "write" /\ gone
             \/ copy \in {"finish", "abort", "leave"}
AllEnded == pump = "done" /\ ~body /\ copy = "returned"

\* The goroutines never wait for one another: if neither can move, both have ended,
\* or a hang-up is still to be noticed, or a client that is still there makes them
\* wait, or the cluster does.
NeverStuck ==
    \/ PumpMoves \/ CopyMoves \/ AllEnded
    \/ gone /\ ~canceled
    \/ ~gone /\ (copy = "write" \/ (copy = "read" /\ pump = "read"))

\* Whichever side ends first, a client that hangs up or a handler that returns,
\* both goroutines end and the cluster's body is closed.
Released == gone \/ copy = "returned" ~> pump = "done" /\ ~body /\ copy = "returned"

\* A pump that stops, for whatever reason, never leaves the handler waiting on
\* the pipe.
ReaderWoken == pump = "close" /\ copy = "read" ~> copy = "returned"
=============================================================================
