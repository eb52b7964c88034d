------------------------------- MODULE Handler -------------------------------
(***************************************************************************)
(* internal/server: the life of requests inside kubegate, from the check   *)
(* chain of authorize through the reverse proxy and modifyResponse to the  *)
(* audit line.  A slot is one handler goroutine serving one request;       *)
(* slots run concurrently and share only the engine's configuration and    *)
(* the audit log.  The client may hang up and the cluster may answer late, *)
(* never, or break off at any point.                                       *)
(*                                                                         *)
(* Data is cut down to what the code tells apart.  A response body is a    *)
(* sequence of units, watch frames or stretches of a document:             *)
(*   "clean"  nothing the strict mode must remove                          *)
(*   "dirty"  a secret-bearing field, or an advertised denied resource     *)
(*   "rows"   a Table with a secret-bearing field in an object of its rows *)
(*   "bad"    what JSON decoding, or the filter's kind switch, rejects     *)
(*   "cut"    not a unit: the connection to the cluster breaks here        *)
(* An Accept header is the set of its media types; a body of the request   *)
(* is its declared length (-1 when chunked) and its size.                  *)
(***************************************************************************)
EXTENDS Discovery

CONSTANTS Slots,     \* handler goroutines, one request each
          Configs,   \* accepted engine configurations
          Inputs,    \* Inputs[s]: the requests that may arrive in slot s
          Replies,   \* Replies[s]: the responses the cluster may give it
          BodyCap,   \* MaxBodyBytes
          RespCap    \* MaxResponseBodyBytes

Nobody == "nobody"

MediaTypes == {"json", "json;as=Table", "*/*", "yaml", "protobuf"}
Input == [upgrade : BOOLEAN, token : BOOLEAN, parsed : BOOLEAN, req : Request,
          watch : BOOLEAN, follow : BOOLEAN, headers : SUBSET STRING,
          accept : SUBSET MediaTypes, declared : Int, size : Nat]

Units == {"clean", "dirty", "rows", "bad", "cut"}
Response == [code : Nat, json : BOOLEAN, body : Seq(Units)]

\* NewEngine, after LoadExtension.
ASSUME ConfigsAssumption ==
    \A c \in Configs : /\ EngineAccepts(c.mode, c.extra)
                       /\ c.extra = {} \/ ValidateExtension(c.extra)
ASSUME InputsAssumption == Inputs \in [Slots -> SUBSET Input]
ASSUME RepliesAssumption == Replies \in [Slots -> SUBSET Response]
ASSUME CapAssumption == BodyCap \in Nat /\ RespCap \in Nat
ASSUME NobodyAssumption == Nobody \notin Slots

VARIABLES cfg,       \* the engine's configuration, fixed at startup
          pc,        \* where each slot's goroutine is
          in,        \* the request it serves
          gone,      \* its client has hung up
          sent,      \* what the host credential was used for upstream
          reply,     \* the cluster's response
          rest,      \* response units still to be copied to the client
          got,       \* units written to the client's connection
          status,    \* statusRecorder.status
          err,       \* the error handed to writeProxyError
          changed,   \* the request's redacted flag
          audited,   \* the audit entry written for it
          lock,      \* the audit logger's mutex
          log        \* whose lines begin and end in the audit log, in order

slotVars == <<pc, in, gone, sent, reply, rest, got, status, err, changed, audited>>
vars == <<cfg, slotVars, lock, log>>

NotSent == [sent |-> FALSE]
NoReply == [code |-> 0, json |-> FALSE, body |-> <<>>]
NoEntry == [written |-> FALSE]

-----------------------------------------------------------------------------
(* The check chain of authorize.  Each check is passed only after the ones *)
(* before it.                                                              *)

Has(seq, unit) == \E i \in DOMAIN seq : seq[i] = unit

\* authn.Scrub: the exact names, and the members of the two open families.
scrubExact == {"authorization", "impersonate-user", "impersonate-group", "impersonate-uid"}
scrubFamilies == {"impersonate-extra-scopes", "x-remote-user"}
Scrub(headers) == headers \ (scrubExact \union scrubFamilies)

\* Mutant: a denylist of one media type, as an earlier version had it.
negotiateJSON_denylist(accept) == IF accept = {} THEN {"json"} ELSE accept \ {"protobuf"}

\* negotiateJSON: the rewritten Accept header; empty when nothing JSON is left.
negotiateJSON(accept) ==
    IF accept = {} THEN {"json"}
    ELSE (accept \intersect {"json", "json;as=Table"}) \union
         (IF "*/*" \in accept THEN {"json"} ELSE {})

PastUpgrade(i) == ~i.upgrade
PastToken(i) == PastUpgrade(i) /\ i.token
PastParse(i) == PastToken(i) /\ i.parsed
PastPolicy(i) == PastParse(i) /\ Authorize(cfg, i.req)
PastAccept(i) == PastPolicy(i) /\ (RedactionEnabled(cfg) => negotiateJSON(i.accept) # {})
PastLength(i) == PastAccept(i) /\ i.declared <= BodyCap

\* The status each failed check answers with.
Refusal(i) == CASE ~PastUpgrade(i) -> 403
                [] PastUpgrade(i) /\ ~PastToken(i) -> 401
                [] PastToken(i) /\ ~PastPolicy(i) -> 403
                [] PastPolicy(i) /\ ~PastAccept(i) -> 406
                [] OTHER -> 413

-----------------------------------------------------------------------------
(* modifyResponse's routing, on the parsed request and never on ?watch.    *)

isPodLog(req) == req.resource = "pods" /\ req.sub = "log"
isWatch(i) == i.req.verb = "watch" \/ (isPodLog(i.req) /\ i.follow)

Discovers(s) == IsDiscoveryPath(in[s].req.path)
Eligible(s) == RedactionEnabled(cfg) \/ Discovers(s)

\* The responses whose filtering the strict mode promises (expectsJSON).
Promised(s) == /\ RedactionEnabled(cfg) /\ reply[s].code = 200
               /\ Discovers(s) \/ (in[s].req.isResource /\ ~isPodLog(in[s].req))

\* Mutant: streaming decided by the client's own ?watch.
Route_rawWatch(s) ==
    CASE ~Eligible(s) -> "pass"
      [] Eligible(s) /\ ~reply[s].json -> IF Promised(s) THEN "refuse" ELSE "pass"
      [] Eligible(s) /\ reply[s].json /\ in[s].watch -> "stream"
      [] OTHER -> "buffer"

Route(s) ==
    CASE ~Eligible(s) -> "pass"
      [] Eligible(s) /\ ~reply[s].json -> IF Promised(s) THEN "refuse" ELSE "pass"
      [] Eligible(s) /\ reply[s].json /\ ~Discovers(s) /\ isWatch(in[s]) -> "stream"
      [] OTHER -> "buffer"

\* Mutant: the buffered read stops at the cap itself.
ReadUnits_atCap(body) == SubSeq(body, 1, IF Len(body) <= RespCap THEN Len(body) ELSE RespCap)

\* The buffered path reads one unit past the cap.
ReadUnits(body) == SubSeq(body, 1, IF Len(body) <= RespCap THEN Len(body) ELSE RespCap + 1)

Clean(seq) == [i \in DOMAIN seq |-> IF seq[i] \in {"dirty", "rows"} THEN "clean" ELSE seq[i]]

\* Mutant: whatever is buffered is filtered.
Transforms_everyMode(s) == reply[s].code = 200

\* FilterBody and redact.Body act on a successful response in the strict mode.
Transforms(s) == RedactionEnabled(cfg) /\ reply[s].code = 200
Transformed(s) == LET body == ReadUnits(reply[s].body)
                  IN IF Transforms(s) THEN Clean(body) ELSE body

writeProxyError(e) == CASE e = "redaction" -> 500
                        [] e = "ErrCredentialsUnavailable" -> 503
                        [] e = "timeout" -> 504
                        [] OTHER -> 502

-----------------------------------------------------------------------------
Init == /\ cfg \in Configs
        /\ pc = [s \in Slots |-> "received"]
        /\ in \in [Slots -> UNION {Inputs[s] : s \in Slots}]
        /\ \A s \in Slots : in[s] \in Inputs[s]
        /\ gone = [s \in Slots |-> FALSE]
        /\ sent = [s \in Slots |-> NotSent]
        /\ reply = [s \in Slots |-> NoReply]
        /\ rest = [s \in Slots |-> <<>>]
        /\ got = [s \in Slots |-> <<>>]
        /\ status = [s \in Slots |-> 200]
        /\ err = [s \in Slots |-> "none"]
        /\ changed = [s \in Slots |-> FALSE]
        /\ audited = [s \in Slots |-> NoEntry]
        /\ lock = Nobody
        /\ log = <<>>

Goto(s, from, to) == pc[s] = from /\ pc' = [pc EXCEPT ![s] = to]

\* A status of kubegate's own, with its metav1.Status body.
Answer(s, code) == /\ status' = [status EXCEPT ![s] = code]
                   /\ got' = [got EXCEPT ![s] = <<"clean">>]

Refuse(s) ==
    /\ Goto(s, "received", "audit")
    /\ ~PastLength(in[s])
    /\ Answer(s, Refusal(in[s]))
    /\ UNCHANGED <<cfg, in, gone, sent, reply, rest, err, changed, audited, lock, log>>

\* Mutant: the declared length is taken at its word.
Outbound_declared(i) ==
    [sent |-> TRUE, req |-> i.req, headers |-> Scrub(i.headers),
     accept |-> IF RedactionEnabled(cfg) THEN negotiateJSON(i.accept) ELSE i.accept,
     size |-> i.declared]

\* What of the request leaves with the host's credential.  MaxBytesReader stops
\* a chunked body at the cap.
Outbound(i) ==
    [sent |-> TRUE, req |-> i.req, headers |-> Scrub(i.headers),
     accept |-> IF RedactionEnabled(cfg) THEN negotiateJSON(i.accept) ELSE i.accept,
     size |-> IF i.size <= BodyCap THEN i.size ELSE BodyCap]

Forward(s) ==
    /\ Goto(s, "received", "roundtrip")
    /\ PastLength(in[s])
    /\ sent' = [sent EXCEPT ![s] = Outbound(in[s])]
    /\ UNCHANGED <<cfg, in, gone, reply, rest, got, status, err, changed, audited, lock, log>>

Fail(s, from, e) ==
    /\ Goto(s, from, "audit")
    /\ err' = [err EXCEPT ![s] = e]
    /\ Answer(s, writeProxyError(e))
    /\ UNCHANGED <<cfg, in, gone, sent, reply, rest, changed, audited, lock, log>>

\* Mutant: the client's context is not the upstream request's.
TransportErrors_detached(s) ==
    {"unreachable", "credentials", "timeout"}
    \union (IF in[s].size > BodyCap THEN {"bodyTooLarge"} ELSE {})

\* What the transport reports when there is no response: nobody wraps a failing
\* exec plugin ("credentials") in ErrCredentialsUnavailable.
TransportErrors(s) ==
    {"unreachable", "credentials", "timeout"}
    \union (IF gone[s] THEN {"canceled"} ELSE {})
    \union (IF in[s].size > BodyCap THEN {"bodyTooLarge"} ELSE {})

RoundTripFails(s, e) == e \in TransportErrors(s) /\ Fail(s, "roundtrip", e)

\* The cluster makes a Table only of resources, and only when it is asked to.
MayReply(s) == {r \in Replies[s] : Has(r.body, "rows") =>
                   in[s].req.isResource /\ "json;as=Table" \in sent[s].accept}

Reply(s) ==
    /\ Goto(s, "roundtrip", "modify")
    /\ \E r \in MayReply(s) : reply' = [reply EXCEPT ![s] = r]
    /\ UNCHANGED <<cfg, in, gone, sent, rest, got, status, err, changed, audited, lock, log>>

\* The reverse proxy writes the response header and starts copying units.
Relay(s, to, units) ==
    /\ Goto(s, "modify", to)
    /\ rest' = [rest EXCEPT ![s] = units]
    /\ status' = [status EXCEPT ![s] = reply[s].code]
    /\ UNCHANGED <<cfg, in, gone, sent, reply, got, err, audited, lock, log>>

PassThrough(s) == /\ Route(s) = "pass" /\ Relay(s, "copy", reply[s].body)
                  /\ UNCHANGED changed

StartStream(s) == /\ Route(s) = "stream" /\ Relay(s, "stream", reply[s].body)
                  /\ UNCHANGED changed

FailClosed(s) == Route(s) = "refuse" /\ Fail(s, "modify", "redaction")

\* The buffered path: io.ReadAll fails, the body is too large or cannot be
\* inspected, or the transformed body replaces it.
ReadFails(s) == /\ Route(s) = "buffer"
                /\ Has(ReadUnits(reply[s].body), "cut") \/ gone[s]
                /\ Fail(s, "modify", "broken")

Uninspectable(s) == \/ Len(ReadUnits(reply[s].body)) > RespCap
                    \/ Transforms(s) /\ Has(ReadUnits(reply[s].body), "bad")

RejectBody(s) == /\ Route(s) = "buffer"
                 /\ ~Has(ReadUnits(reply[s].body), "cut")
                 /\ Uninspectable(s)
                 /\ Fail(s, "modify", "redaction")

TransformBody(s) ==
    /\ Route(s) = "buffer"
    /\ ~Has(ReadUnits(reply[s].body), "cut")
    /\ ~Uninspectable(s)
    /\ Relay(s, "copy", Transformed(s))
    /\ changed' = [changed EXCEPT ![s] = Transformed(s) # ReadUnits(reply[s].body)]

CopyOut(s, from, unit) ==
    /\ pc[s] = from
    /\ got' = [got EXCEPT ![s] = Append(@, unit)]
    /\ rest' = [rest EXCEPT ![s] = Tail(@)]
    /\ UNCHANGED <<cfg, pc, in, gone, sent, reply, status, err, changed, audited, lock, log>>

CopyUnit(s) == /\ rest[s] # <<>> /\ Head(rest[s]) # "cut"
               /\ CopyOut(s, "copy", Head(rest[s]))

\* redact.Stream, through the pipe: of each frame the object is redacted, and no
\* object inside of it: the rows of a Table go out as they came.  It would not
\* filter a discovery document.
StreamUnit(s) == IF Discovers(s) \/ Head(rest[s]) = "rows" THEN Head(rest[s]) ELSE "clean"
StreamFrame(s) == /\ rest[s] # <<>> /\ Head(rest[s]) \in {"clean", "dirty", "rows"}
                  /\ CopyOut(s, "stream", StreamUnit(s))

\* A failed copy panics with http.ErrAbortHandler: ServeHTTP never reaches the
\* audit log.
Breaks(s) == \/ rest[s] # <<>> /\ Head(rest[s]) = "cut"
             \/ rest[s] # <<>> /\ Head(rest[s]) = "bad" /\ pc[s] = "stream"
             \/ gone[s] /\ (rest[s] # <<>> \/ Route(s) # "buffer")

\* Mutant: a failed copy is answered like a failed round trip.
CopyFails_answered(s) ==
    /\ pc[s] \in {"copy", "stream"}
    /\ Breaks(s)
    /\ pc' = [pc EXCEPT ![s] = "audit"]
    /\ err' = [err EXCEPT ![s] = "broken"]
    /\ Answer(s, writeProxyError("broken"))
    /\ UNCHANGED <<cfg, in, gone, sent, reply, rest, changed, audited, lock, log>>

CopyFails(s) ==
    /\ pc[s] \in {"copy", "stream"}
    /\ Breaks(s)
    /\ pc' = [pc EXCEPT ![s] = "aborted"]
    /\ UNCHANGED <<cfg, in, gone, sent, reply, rest, got, status, err, changed, audited,
                   lock, log>>

CopyEnds(s) ==
    /\ pc[s] \in {"copy", "stream"}
    /\ rest[s] = <<>>
    /\ pc' = [pc EXCEPT ![s] = "audit"]
    /\ UNCHANGED <<cfg, in, gone, sent, reply, rest, got, status, err, changed, audited,
                   lock, log>>

\* Mutant: "redacted" guessed from the mode.
Entry_guess(s) == [written |-> TRUE, allow |-> PastLength(in[s]), status |-> status[s],
                   bytes |-> Len(got[s]), redacted |-> RedactionEnabled(cfg)]

\* Logger.Log, between taking the mutex and releasing it; the log records where
\* each line begins and where it ends.
Entry(s) == [written |-> TRUE, allow |-> PastLength(in[s]), status |-> status[s],
             bytes |-> Len(got[s]), redacted |-> changed[s]]

\* Mutant: no mutex.
BeginLog_unlocked(s) ==
    /\ Goto(s, "audit", "writing")
    /\ lock' = s
    /\ log' = Append(log, s)
    /\ audited' = [audited EXCEPT ![s] = Entry(s)]
    /\ UNCHANGED <<cfg, in, gone, sent, reply, rest, got, status, err, changed>>

BeginLog(s) ==
    /\ Goto(s, "audit", "writing")
    /\ lock = Nobody
    /\ lock' = s
    /\ log' = Append(log, s)
    /\ audited' = [audited EXCEPT ![s] = Entry(s)]
    /\ UNCHANGED <<cfg, in, gone, sent, reply, rest, got, status, err, changed>>

\* Mutant: the mutex is not released.
EndLog_held(s) ==
    /\ Goto(s, "writing", "done")
    /\ log' = Append(log, s)
    /\ UNCHANGED <<cfg, in, gone, sent, reply, rest, got, status, err, changed, audited, lock>>

EndLog(s) ==
    /\ Goto(s, "writing", "done")
    /\ lock' = Nobody
    /\ log' = Append(log, s)
    /\ UNCHANGED <<cfg, in, gone, sent, reply, rest, got, status, err, changed, audited>>

HangUp(s) ==
    /\ ~gone[s]
    /\ pc[s] \in {"received", "roundtrip", "modify", "copy", "stream"}
    /\ gone' = [gone EXCEPT ![s] = TRUE]
    /\ UNCHANGED <<cfg, pc, in, sent, reply, rest, got, status, err, changed, audited,
                   lock, log>>

Next == \E s \in Slots :
            \/ Refuse(s) \/ Forward(s)
            \/ \E e \in TransportErrors(s) : RoundTripFails(s, e)
            \/ Reply(s)
            \/ PassThrough(s) \/ StartStream(s) \/ FailClosed(s)
            \/ ReadFails(s) \/ RejectBody(s) \/ TransformBody(s)
            \/ CopyUnit(s) \/ StreamFrame(s) \/ CopyFails(s) \/ CopyEnds(s)
            \/ BeginLog(s) \/ EndLog(s)
            \/ HangUp(s)

Spec == Init /\ [][Next]_vars

\* Fairness: a goroutine that can run does, and a hang-up is noticed.  Nothing
\* is assumed of the cluster (Reply, and the arrival of further units).
OwnStep(s) == \/ Refuse(s) \/ Forward(s) \/ PassThrough(s) \/ StartStream(s)
              \/ FailClosed(s) \/ BeginLog(s) \/ EndLog(s)
HangUpNoticed(s) == gone[s] /\ (\/ RoundTripFails(s, "canceled") \/ ReadFails(s)
                                \/ CopyFails(s) \/ CopyEnds(s))
FairSpec == /\ Spec
            /\ \A s \in Slots : WF_vars(OwnStep(s)) /\ WF_vars(HangUpNoticed(s))

-----------------------------------------------------------------------------
Entries == [written : {TRUE}, allow : BOOLEAN, status : Nat, bytes : Nat, redacted : BOOLEAN]
Outbounds == [sent : {TRUE}, req : Request, headers : SUBSET STRING,
              accept : SUBSET MediaTypes, size : Nat]
Errors == {"none", "unreachable", "credentials", "timeout", "canceled", "bodyTooLarge",
           "broken", "redaction"}
Locations == {"received", "roundtrip", "modify", "copy", "stream", "audit", "writing",
              "done", "aborted"}

TypeOK == /\ cfg \in Configs
          /\ pc \in [Slots -> Locations]
          /\ in \in [Slots -> Input]
          /\ gone \in [Slots -> BOOLEAN]
          /\ sent \in [Slots -> Outbounds \union {NotSent}]
          /\ reply \in [Slots -> Response]
          /\ rest \in [Slots -> Seq(Units)]
          /\ got \in [Slots -> Seq(Units)]
          /\ status \in [Slots -> Nat]
          /\ err \in [Slots -> Errors]
          /\ changed \in [Slots -> BOOLEAN]
          /\ audited \in [Slots -> Entries \union {NoEntry}]
          /\ lock \in Slots \union {Nobody}
          /\ log \in Seq(Slots)

\* Whatever reached the cluster with the host's credential was authenticated,
\* parsed and permitted, carries no identity of the client's choosing, asks for
\* nothing but JSON in the strict mode, and is no larger than the cap.
OnlyVetted ==
    \A s \in Slots : sent[s] # NotSent =>
        /\ in[s].token /\ ~in[s].upgrade /\ in[s].parsed
        /\ sent[s].req = in[s].req /\ Authorize(cfg, sent[s].req)
        /\ sent[s].headers \intersect (scrubExact \union scrubFamilies) = {}
        /\ RedactionEnabled(cfg) =>
              sent[s].accept # {} /\ sent[s].accept \subseteq {"json", "json;as=Table"}
        /\ sent[s].size <= BodyCap

\* From end to end, whatever a client asks and however it spells the path, the
\* host's credential is never used to open a session or mint a credential, and in
\* the strict mode for nothing but reads within its boundary.
NothingDeniedLeaves ==
    \A s \in Slots : sent[s] # NotSent /\ sent[s].req.isResource =>
        /\ ~Escalates(sent[s].req)
        /\ cfg.mode = Strict => WithinBoundary(sent[s].req)

\* What the strict mode keeps of its promise: of a successful resource or discovery
\* response, however it is routed (buffered, streamed, refused) and wherever it
\* breaks off, no unfiltered and no uninspectable unit reaches the client, save for
\* the rows of Tables, which a watch that asks for Tables delivers as they came
\* (Redact's run watch_table shows it); in a response that is not streamed, and to a
\* client that does not ask for Tables, rows are filtered like the rest.
StrictContent ==
    \A s \in Slots : Promised(s) =>
        /\ ~Has(got[s], "dirty") /\ ~Has(got[s], "bad")
        /\ Has(got[s], "rows") => Route(s) = "stream" /\ "json;as=Table" \in sent[s].accept

\* A response that ends normally is whole: the cap on buffered bodies and a
\* connection that breaks off never pass a part for the whole.
NoTruncation ==
    \A s \in Slots :
        sent[s] # NotSent /\ err[s] = "none" /\ pc[s] \in {"audit", "writing", "done"}
            => Len(got[s]) = Len(reply[s].body)

\* The promise, with a request's place in the code taken for its phase.  In the
\* strict mode what was not promised may be filtered all the same: a stream is.
Phase(s) == CASE pc[s] = "received" -> "asked"
              [] pc[s] = "roundtrip" -> "forwarded"
              [] pc[s] \in {"modify", "copy", "stream"} -> "answered"
              [] pc[s] \in {"audit", "writing", "done"} -> "closed"
              [] pc[s] = "aborted" -> "aborted"
Terms(s) == CASE Promised(s) /\ Route(s) = "stream" -> "framewise"
              [] Promised(s) /\ Route(s) # "stream" -> "filtered"
              [] ~RedactionEnabled(cfg) /\ reply[s] # NoReply -> "verbatim"
              [] OTHER -> "either"
Contract == INSTANCE Gate WITH
    admitted <- [s \in Slots |-> PastLength(in[s])],
    phase <- [s \in Slots |-> Phase(s)],
    answer <- [s \in Slots |-> [rule |-> Terms(s), body |-> reply[s].body]]

\* Whatever the routes, the failures and the other requests, a client is given an
\* answer of kubegate's own or the cluster's, unit by unit under one rule, and a
\* response that ends normally is all of it.
KeepsContract == Contract!Spec

\* The audit line tells what happened: allowed exactly when the request left
\* for the cluster, and "redacted" exactly when a buffered answer was delivered
\* in other words than the cluster's.
AuditTruthful ==
    \A s \in Slots : audited[s] # NoEntry =>
        /\ audited[s].allow <=> sent[s] # NotSent
        /\ audited[s].redacted => got[s] # reply[s].body
        /\ got[s] # reply[s].body /\ sent[s] # NotSent /\ err[s] = "none"
              => audited[s].redacted \/ Route(s) = "stream"
        /\ ~audited[s].allow => audited[s].status \in {401, 403, 406, 413}

\* Concurrent requests cannot produce torn lines (the comment on Logger.Log): the
\* writes of one entry are adjacent in the log, a request that got to its end has
\* one line however many ran beside it, and a request that did not has none.
Adjacent == \A i \in DOMAIN log : i % 2 = 0 => log[i] = log[i - 1]
OnceEach == \A i, j \in DOMAIN log : log[i] = log[j] /\ i % 2 = j % 2 => i = j
Accounted == \A s \in Slots :
    (\E i \in DOMAIN log : log[i] = s) <=> pc[s] \in {"writing", "done"}
LogWhole == Adjacent /\ OnceEach /\ Accounted

\* What has been written to a client is never taken back: once a byte is out,
\* the status stands and the bytes only grow.
NeverRewritten ==
    [][\A s \in Slots : got[s] # <<>> =>
          /\ status'[s] = status[s]
          /\ Len(got'[s]) >= Len(got[s])
          /\ \A i \in DOMAIN got[s] : got'[s][i] = got[s][i]]_vars

\* A refused request is always answered and audited, whatever the other slots do.
RefusedIsAudited ==
    \A s \in Slots : pc[s] = "received" /\ ~PastLength(in[s]) ~> pc[s] = "done"

\* A client that hangs up releases its goroutine, even from a cluster that
\* never answers or a watch that never ends.
HangUpReleases == \A s \in Slots : gone[s] ~> pc[s] \in {"done", "aborted"}

-----------------------------------------------------------------------------
(* Statements of the documentation that the code does not keep.            *)

\* README: "Every forwarded request is authorized against the mode's policy and
\* written to an audit log."
AuditComplete ==
    \A s \in Slots : sent[s] # NotSent /\ pc[s] \in {"done", "aborted"} => audited[s] # NoEntry

\* Design spec 4: requests that are neither watch nor pods/log --follow get a
\* response deadline.
ResponseDeadline ==
    \A s \in Slots : pc[s] = "roundtrip" /\ ~isWatch(in[s]) ~> pc[s] # "roundtrip"
=============================================================================
