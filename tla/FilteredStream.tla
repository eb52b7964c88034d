--------------------------- MODULE FilteredStream ---------------------------
(***************************************************************************)
(* What the strict mode promises of a watch, whoever runs it: a client     *)
(* receives the cluster's frames in their order, each filtered, and can    *)
(* tell a stream that ended from one that was broken off.                  *)
(*                                                                         *)
(* A frame is one of                                                       *)
(*   "clean"  nothing to remove          "blank"  white space alone        *)
(*   "dirty"  something to remove        "bad"    cannot be inspected      *)
(*   "tail"   a last line, whole but for its newline                       *)
(* and "filtered" is what redact.Object makes of the frame's object: what  *)
(* that leaves in the rows of a Table is Redact's matter.                  *)
(***************************************************************************)
EXTENDS Naturals, Sequences

CONSTANT MaxFrames   \* bound on what the cluster sends

Carries == {"clean", "dirty", "tail"}
Frames == Carries \union {"blank", "bad"}

VARIABLES sent,    \* the frames the cluster has sent
          source,  \* "open", or how the cluster ended the stream: "eof" or "broken"
          got,     \* what the client has been given: [at, unit], at an index of sent
          gone,    \* the client has hung up
          end      \* "open", "whole" (the response ended) or "cut" (it broke off)

vars == <<sent, source, got, gone, end>>

Filtered(frame) == IF frame = "dirty" THEN "clean" ELSE frame
Passed(i) == [at |-> i, unit |-> Filtered(sent[i])]

\* The place of the last frame the client has seen.
Seen == IF got = <<>> THEN 0 ELSE got[Len(got)].at

\* Nothing but blank lines lies between two places.
Blanks(from, to) == \A i \in (from + 1)..(to - 1) : sent[i] = "blank"

Init == /\ sent = <<>> /\ source = "open"
        /\ got = <<>> /\ gone = FALSE /\ end = "open"

\* A line without a newline is the last one.
Send(frame) == /\ source = "open"
               /\ Len(sent) < MaxFrames
               /\ \A i \in DOMAIN sent : sent[i] # "tail"
               /\ sent' = Append(sent, frame)
               /\ UNCHANGED <<source, got, gone, end>>

EndSource(how) == /\ source = "open"
                  /\ source' = how
                  /\ UNCHANGED <<sent, got, gone, end>>

HangUp == /\ ~gone
          /\ gone' = TRUE
          /\ UNCHANGED <<sent, source, got, end>>

\* The next frame that carries anything, filtered.
Deliver(i) == /\ end = "open"
              /\ i > Seen /\ Blanks(Seen, i) /\ sent[i] \in Carries
              /\ got' = Append(got, Passed(i))
              /\ UNCHANGED <<sent, source, gone, end>>

\* The response ends when the cluster ended it and all of it was delivered.
Finish == /\ end = "open"
          /\ source = "eof"
          /\ Blanks(Seen, Len(sent) + 1)
          /\ end' = "whole"
          /\ UNCHANGED <<sent, source, got, gone>>

\* It breaks off for a cause, and the client can see that it did.
Break == /\ end = "open"
         /\ source = "broken" \/ gone \/ \E i \in DOMAIN sent : sent[i] = "bad"
         /\ end' = "cut"
         /\ UNCHANGED <<sent, source, got, gone>>

Next == \/ \E frame \in Frames : Send(frame)
        \/ \E how \in {"eof", "broken"} : EndSource(how)
        \/ HangUp
        \/ \E i \in DOMAIN sent : Deliver(i)
        \/ Finish \/ Break

Spec == Init /\ [][Next]_vars
=============================================================================
