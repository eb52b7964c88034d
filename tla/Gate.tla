-------------------------------- MODULE Gate --------------------------------
(***************************************************************************)
(* What kubegate promises of each request, whatever happens inside it: the *)
(* client gets either one answer of kubegate's own, or the cluster's       *)
(* answer, shown under one rule from its first unit to its last, and can   *)
(* tell when it did not get all of it.  The cluster hears of a request at  *)
(* most once, and of an inadmissible one never.                            *)
(***************************************************************************)
EXTENDS Naturals, Sequences

CONSTANT Slots   \* the requests

Units == {"clean", "dirty", "rows", "bad", "cut"}
Rules == {"verbatim", "filtered", "framewise", "either"}
Own == <<"clean">>
NoAnswer == [rule |-> "either", body |-> <<>>]

VARIABLES admitted,  \* whether each request may be forwarded
          phase,     \* "asked", "forwarded", "answered", "closed" or "aborted"
          answer,    \* the cluster's answer, and the rule it is shown under
          got        \* what the client has been given

vars == <<admitted, phase, answer, got>>

\* What may be shown for a unit: in the strict mode what cannot be inspected is
\* not shown, and nobody is given the unit at which the connection breaks.  A watch
\* is filtered frame by frame, and not inside of the Tables a frame may hold.
Verbatim(unit) == {unit} \ {"cut"}
Filtered(unit) == IF unit \in {"clean", "dirty", "rows"} THEN {"clean"} ELSE {}
Framewise(unit) == IF unit = "rows" THEN {"rows"} ELSE Filtered(unit)
Shown(rule, unit) == CASE rule = "verbatim" -> Verbatim(unit)
                       [] rule = "filtered" -> Filtered(unit)
                       [] rule = "framewise" -> Framewise(unit)
                       [] rule = "either" -> Verbatim(unit) \union Filtered(unit)

Init == /\ admitted \in [Slots -> BOOLEAN]
        /\ phase = [s \in Slots |-> "asked"]
        /\ answer = [s \in Slots |-> NoAnswer]
        /\ got = [s \in Slots |-> <<>>]

Pass(s, from, to) == phase[s] = from /\ phase' = [phase EXCEPT ![s] = to]

Refuse(s) == /\ Pass(s, "asked", "closed")
             /\ ~admitted[s]
             /\ got' = [got EXCEPT ![s] = Own]
             /\ UNCHANGED <<admitted, answer>>

Forward(s) == /\ Pass(s, "asked", "forwarded")
              /\ admitted[s]
              /\ UNCHANGED <<admitted, answer, got>>

Receive(s) == /\ Pass(s, "forwarded", "answered")
              /\ answer' \in [Slots -> [rule : Rules, body : Seq(Units)]]
              /\ \A t \in Slots \ {s} : answer'[t] = answer[t]
              /\ UNCHANGED <<admitted, got>>

\* No answer, or one that cannot be shown.
Fail(s) == /\ Pass(s, "forwarded", "closed") \/ Pass(s, "answered", "closed")
           /\ got[s] = <<>>
           /\ got' = [got EXCEPT ![s] = Own]
           /\ UNCHANGED <<admitted, answer>>

Deliver(s) == /\ phase[s] = "answered"
              /\ Len(got[s]) < Len(answer[s].body)
              /\ \E unit \in Shown(answer[s].rule, answer[s].body[Len(got[s]) + 1]) :
                    got' = [got EXCEPT ![s] = Append(@, unit)]
              /\ UNCHANGED <<admitted, phase, answer>>

Finish(s) == /\ Pass(s, "answered", "closed")
             /\ Len(got[s]) = Len(answer[s].body)
             /\ UNCHANGED <<admitted, answer, got>>

\* The client's connection breaks off.
Abort(s) == /\ Pass(s, "answered", "aborted")
            /\ UNCHANGED <<admitted, answer, got>>

Next == \E s \in Slots : \/ Refuse(s) \/ Forward(s) \/ Receive(s) \/ Fail(s)
                         \/ Deliver(s) \/ Finish(s) \/ Abort(s)

Spec == Init /\ [][Next]_vars
=============================================================================
