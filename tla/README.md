# A verification development of kubegate

kubegate is a proxy between a guest (a VM running `kubectl` or an agent) and a
Kubernetes cluster. It holds the host's cluster credential; the guest holds
only a proxy token. Every request is authenticated, parsed, judged by a mode's
policy, forwarded with the host's credential, and its response filtered in the
strict mode. This directory holds TLA+ modules translated from the Go code
under `src/`, TLC configurations that check them on small instances, and proofs
that TLAPS checks for every value of the constants.

## The system

| Component | Code | State | Operations | Talks to |
|---|---|---|---|---|
| Policy engine | `internal/policy` | an immutable `Config`: mode, namespaces, extension rules, scope map | `Authorize`, `AuthorizesResourceKind`, `PermitsGroup` | called by the handler and the discovery filter |
| Extension file | `internal/policy/extension.go` | none | `LoadExtension`, `ValidateExtension` | feeds the engine at startup |
| Request parsing | `internal/reqinfo` | none | `Parse` (the apiserver's `RequestInfoFactory`) | called by the handler |
| Discovery filter | `internal/discovery/filter.go` | none | `IsDiscoveryPath`, `FilterBody` | probes the engine |
| Scope map | `internal/discovery/scoper.go` | a map built once | `BuildScoper` | walks the cluster at startup, consulted by the engine |
| Redaction | `internal/redact` | none (a stream keeps its reader) | `Body`, `Object`, `Stream` | called by the handler; `Stream` runs in its own goroutine behind an `io.Pipe` |
| Handler | `internal/server/server.go` | per request: parsed request, decision, `redacted` flag, status, bytes | `ServeHTTP`, `authorize`, `modifyResponse`, `writeProxyError` | everything above, the audit log, the reverse proxy |
| Authentication | `internal/authn` | the token | `Authenticate`, `Scrub` | first check of the handler |
| Audit log | `internal/audit` | mutex, encoder | `Log` | shared by all handler goroutines |
| Upstream | `internal/upstream` | credential-injecting transport | `Probe`, `Transport` | the cluster |
| Identity | `internal/server/tls.go`, `token.go` | three files on disk | `LoadOrCreateCert`, `LoadOrCreateToken` | startup; other processes on the same files |
| Serve | `cmd/kubegate/serve.go` | the process | validate, probe, build, load, announce, listen, shut down | all of the above |
| Banner | `internal/server/kubeconfig.go` | none | `Banner` | startup |

**What is hard here.** Handler goroutines run concurrently and meet at the audit
mutex; a client can hang up and the cluster can break off, or stay silent, at
every point; the response is routed (untouched, buffered, streamed, refused) by
a mix of facts from the request and the response; a failure after the header
is out cannot be answered any more; and several tables and code paths that must
agree (allowlist and denylists, permitted paths and filtered paths,
`PermitsGroup` and the rules, three discovery formats, five encodings of one
object) live in different files. A redacted watch runs in two goroutines joined
by an unbuffered pipe, each of which can end first and has to release the other.
The identity is three files written one call at a time, by processes that can
crash between any two or be started at the same moment. The scope map is read
once from a cluster that goes on changing. `PROJECT.json` lists each hazard at
its line.

**What makes each component correct.**
- Policy: modes form a ladder; nothing, an extension file included, permits what
  the deny tables exclude; the strict mode serves no secrets and no writes.
- Discovery: advertises neither more nor less than the policy serves, in each format.
- Handler: only vetted requests use the credential; nothing unfiltered is
  delivered; no part passes for the whole; the audit line is true; a hang-up
  releases everything.
- Redaction: an object is stripped of the same fields whichever way it is read.
- Audit: a line per request, whole lines.
- Watch: the client is given the cluster's frames in order, filtered, without
  gaps, can tell an end from a break, and leaves nothing running behind.
- Identity: one stable, private token and a matching key pair, whatever crashes.
- Scope map: what was not learned is denied while scoping is active.
- Serve: a signal ends the process.

## The modules

| Module | Models | Composes |
|---|---|---|
| `Policy` | `internal/policy`, pure operators | |
| `ReqInfo` | the request parser, a library modelled from its URL grammar | |
| `Discovery` | `filter.go`, pure operators | extends `Policy` |
| `Engine` | one process's engine: flags validated, then requests decided | extends `Discovery` |
| `Advertise` | a discovery client's walk through `FilterBody` | extends `Discovery` |
| `Gate` | abstract: what kubegate promises of each request | |
| `Handler` | concurrent requests through `server.go`, the reverse proxy and the audit log | extends `Discovery` (hence `Policy`); implements `Gate` |
| `Redact` | `redact.go` and the frames of `stream.go` | |
| `FilteredStream` | abstract: what a client is promised of a watch | |
| `WatchStream` | the pump goroutine, the pipe and the copy of a redacted watch | implements `FilteredStream` |
| `Identity` | `tls.go` and `token.go`, one call of the operating system per step | |
| `Serve` | `serve.go` and `scoper.go`: processes from start to end on one directory | extends `Identity` and `Policy` |
| `PolicyProofs` | lemmas about `Authorize`: what no rule permits | extends `Policy`; used by `EngineProofs` and `HandlerProofs` |
| `EngineProofs`, `AdvertiseProofs`, `HandlerProofs`, `GateProofs`, `RedactProofs`, `WatchStreamProofs`, `ServeProofs` | theorems | extend the module they are about (`GateProofs` extends `HandlerProofs`) |
| `MC*` | the instances TLC checks | `MCEngine` and `MCHandler` add `ReqInfo` |

**Policy.** A `policy.Request` is a record; its path is the sequence of its
segments. A rule is a record of three sets, an entry of `Resources` a pair
[res, sub]. `Authorize` is `AuthorizesResourceKind` (universal denials, verb
gate, mode rules; or the non-resource paths) followed by namespace scoping, as
in `engine.go`. A `Decision` is reduced to its verdict.

**Engine.** `Start` is flag validation, `--policy` loading and `NewEngine`;
`Decide(r)` is one call of `Authorize`. That the configuration never changes is
part of the code (`Config` is copied, and no method writes it).

**Discovery and Advertise.** A document is a record with a kind, its lists are
sets. `FilterBody` and its helpers are operators under the code's names.
`Advertise` puts a client in front of them: `Fetch(path)` takes any path still to
be fetched, so the documents arrive in any order, and what survives the filter
decides what is fetched next. `AskForGroup` is the one discovery path no
client's walk uses. The client and the documents are external.
`ClustersAssumption` says what a catalogue is: the core group has one version,
and a subresource is listed beside its resource.

**Handler.** A slot is a goroutine serving one request. `received` is the check
chain of `authorize` (`Refuse` or `Forward`, by `PastUpgrade` ... `PastLength` in
the code's order); `roundtrip` is the transport (`Reply`, `RoundTripFails`);
`modify` is `modifyResponse` (`PassThrough`, `StartStream`, `FailClosed`,
`ReadFails`, `RejectBody`, `TransformBody`, chosen by `Route`); `copy` and
`stream` are the reverse proxy's copy (`CopyUnit`, `StreamFrame`, `CopyFails`,
`CopyEnds`); `audit` and `writing` are `Logger.Log` (`BeginLog` takes the mutex,
`EndLog` releases it); `aborted` is the panic with `http.ErrAbortHandler`, which
never reaches the log. `HangUp` may come at any time. A body is a sequence of
units ("clean", "dirty", "bad", "rows", and "cut" where the connection breaks),
which is all that filtering, redaction and the caps can tell apart. "rows" is a
Table whose rows embed something to strip: buffered, it is walked and comes out
clean; in a watch, `Object` sees the Table's own metadata only and the frame goes
out as it is (the `watch_table` run shows what is left in it). A cluster sends
one only to a client that asked for Tables of a resource (`MayReply`).

**Gate**, which `Handler` implements. Per request: `Refuse` or `Forward`, then
`Receive`, then `Deliver` unit by unit until `Finish`, or `Fail` while nothing is
out, or `Abort`. The rule an answer is shown under is fixed as it is received:
"verbatim" outside the strict mode, "filtered" on a promised route, "framewise" in
a watch of it (each frame filtered, but for the rows of Tables), "either"
where the code may or may not transform it. The refinement mapping is at the end
of `Handler`: `Phase` reads the phase off the place of the goroutine, `Terms` the
rule off the configuration and the response. Buffering, transforming, the audit
log, timeouts and the race of a hang-up with an answer are all below this level.

**Redact.** The cluster's encodings of stored objects (`Encoded`: a get, a
typed list whose items have no kind, Tables, watches, watches with an undecodable
frame or with one that carries no object) go through `Body` or `Stream`; a kind is
[base, list] since the code asks only whether its spelling ends in "List".
`StoresAssumption` says that no stored kind does, and that what is read holds an
object.

**WatchStream**, which implements **FilteredStream**. The two goroutines are
program counters. The pump (`redact.Stream`, then the two closes of
`modifyResponse`) reads a frame (`SkipBlank`, `RejectFrame`, `OfferFrame`,
`ReadEnds`, `ReadCanceled`), is held in `Write` until its frame is taken
(`WriteReturns`) or the other end is closed (`WriteFails`), and on its way out
does `CloseBody` and then `ClosePipe`, with `Stream`'s error or with `io.EOF`. The
handler's goroutine is the reverse proxy's copy: `CopyRead` takes what is in the
pipe, `CopyWrite` gives it to the client (or `CopyWriteFails`), `CopyEnds` sees the
pipe closed, `CloseReader` closes its own end and ends or breaks the response,
`Return` lets net/http cancel the context. A frame is one unit, and "tail" is a
last line without its newline. `FilteredStream` knows none of this: it has the
cluster, the client and what lies between them.

**Identity and Serve.** A process is a place in the startup. `Identity` has a step
for each read, write and chmod of the certificate, key and token files;
`os.WriteFile` is two (`Truncate`, `Fill`), and gives its mode to a new file only.
`MisreadCert` and `ReplaceToken` are the errors of a read that the code takes for a
first run (and `--rotate-token`). `Delete` and `Loosen` are what the owner does to
the files between starts. `Serve` is the rest of `serve.go`: `Probe`, the walk of
`BuildScoper` (`WalkCore`, `WalkGroups`, then `WalkVersion` or `SkipVersion` for
each group version in any order, `WalkEnds`), the identity, `Announce` before
`Bind`, requests (`Accept`, `Finish`), `Signal`, and the end: `Shutdown`, `Drained`,
`GraceEnds`. `Stop` is a crash, or the failure of whatever the process was at, at
any point; `Fails` is the failure that is certain where it stands. `Reinstall` is
the cluster that changes after the map was built. `raced` and `upset` are
history: that two starts overlapped while one of them wrote, and what else gave
the identity a cause to change or to be refused: "misread" (a start could not
read a certificate that is there, and replaced it), "deleted" (the owner removed
a file of the pair), "token" (the token was deleted, rotated or could not be
read). The properties of the identity name the causes they except.

## What the runs check

| Run | States | Shows |
|---|---|---|
| `engine` | 64,514 | `Ladder`: what a mode permits, looser modes permit. `NoEscalation`: no exec, attach, port-forward, proxy, TokenRequest or CSR approval in any mode. `StrictBoundary`: no secrets, security groups or writes in the strict mode, with any file that validates. `GroupsAgree`: `PermitsGroup` and the rules agree. `DiscoveryRouted`: a permitted path under /api or /apis is a resource request or a path the filter handles. |
| `advertise` | 2,004 | `ShownWorks`: what a client is shown it can read. `WorksShown`: everything listable is shown, and no document of the walk fails. `LooseUntouched`: other modes change nothing. |
| `handler` | 170,073 | `OnlyVetted`; `NothingDeniedLeaves`: no request that opens a session, mints a credential or crosses the strict mode's boundary is made with the host's credential; `StrictContent`: of a promised response nothing uninspectable is delivered, and nothing unfiltered but the rows of Tables in a watch that asked for them; `NoTruncation`, `AuditTruthful`; `LogWhole`: one whole line of each request that got to its end, and no other; `NeverRewritten` (action property); `KeepsContract`: the handler implements `Gate`; `RefusedIsAudited` and `HangUpReleases` (liveness). |
| `redact` | 6,480 | `Stripped`: in every view but the watch of Tables no secret and no last-applied annotation is left. `NothingElseLost`. `WatchFailsClosed`: an undecodable frame and what follows are never delivered, what precedes is. |
| `stream` | 143,214 | `KeepsPromise`: the goroutines and the pipe implement `FilteredStream`. `Backpressure`: at most two frames are held, however slow the client. `NeverStuck`: the pump and the copy never wait for one another. `Released` and `ReaderWoken` (liveness): whichever side ends first, both goroutines end and the cluster's body is closed; a pump that stops wakes the copy. |
| `serve` | 631,832 | `WholeIdentity`, `PrivateFiles`: what processes serve with, whatever crashed or ran beside them. `CertLast`: a certificate lies beside a key not its own only after a race of two starts, a misread certificate, or a deletion of the key. `RefusedForACause`: files are refused only after a crash in the middle of writing the certificate or the token, a race, or a start that misread the certificate and was cut off between key and certificate. `StableIdentity`: without a race, a banner changes only after a deletion, a rotation, or a file that could not be read. `ScopeHolds`: nothing cluster-wide of a namespaced resource passes, as long as the cluster stays as it was when the map was built. `SignalEnds` (liveness). |
| `exactly_what_works` | violation | A resource granted get alone is not advertised (`filter.go:25` says otherwise). |
| `audit_complete` | violation | A forwarded request whose copy fails has no audit line (`README.md:111` says every one has). |
| `deadline` | violation | An ordinary request has no response deadline (design spec, section 4). |
| `pinned_pair` | violation | `PinnedPairLoads`: a start that cannot read `tls.crt` takes it for a first run and overwrites the key; cut off before the certificate follows, it leaves a pair that every later start refuses (`tls.go:28` and its test say the pair is stable across restarts). |
| `stale_scope` | violation | A scope map that has become false stays as it is (the design documents say it is refreshed periodically). |
| `watch_table` | violation | Rows of a watch of Tables keep the last-applied annotation (design spec 7.2). |

Each property of a passing run has a mutant: an operator beside the one it
replaces, named after it, with a comment that says which bug it stands for.
Under it TLC finds the property violated.

**Bounds, and why they are enough.**
- `MCEngine`: 15 rules, one for each way an extension rule can be right or
  wrong; paths built from 4 API roots, the legacy prefixes, 3 namespace
  positions, 7 resources and 8 tails, and all non-resource paths of up to three
  words. Verdicts depend on one request and one configuration at a time, so
  there is nothing between requests to bound.
- `MCAdvertise`: catalogues of up to 16 entries with groups permitted, denied and
  extended, two versions of a group, and extension files that grant a whole
  resource, a subresource, or a get alone.
- `MCHandler`: two slots, the least at which the audit mutex can be contended.
  One of them meets 18 requests and 10 responses (one per route and failure), the
  other competes for the log with an ordinary and a refused request. Caps of 2
  units, with bodies of 1, 2 and 3 units (below, at and past them; a fourth
  breaks off past the cap).
- `MCRedact`: every set of the four fields on one or two objects of three kinds.
  Redaction treats each object alone.
- `MCWatchStream`: `MaxFrames = 4`. Two frames fill the pipe and the copy's hands, a
  third makes the pump wait, and a fourth (blank, bad or a tail) lies behind
  what waits.
- `MCServe`: two processes (`MaxStarts = 2`), the least at which one finds what
  another left or is still writing. One has `--namespace` and is signalled
  (`Scoped`, `Signals`): the other differs from it in nothing else. One request
  under way (`Calls`) is all that a shutdown can wait for. The cluster has a core
  resource and one of a group, one resource to a document, and changes at most
  once. A signal during the file operations is modelled as one that comes after
  them: they do not look at the context.
- `MCPinnedPair`: three processes, one after another (one that announces the pair,
  one that misreads it and is cut off, one that is refused), without tampering,
  signals or requests.

**Fairness.** `Handler!FairSpec` assumes weak fairness of a goroutine's own
steps (`OwnStep`: nothing outside the process is awaited, and Go's scheduler
runs every runnable goroutine) and of noticing a hang-up (`HangUpNoticed`:
net/http cancels the request's context, which fails the round trip, the read of
the body, and the copy). Nothing is assumed of the cluster: it may never
answer. The writer behind the audit log is assumed not to block for ever.
`WatchStream!FairSpec` assumes weak fairness of the pump, of the copy but for
its successful write, and of noticing a hang-up: a client that stays may never
read, the cluster may never send. `Serve!FairSpec` assumes it of `Alone(p)`, the
steps of a process that has been signalled. None of those waits for anybody:
the requests of a start have the signal's context, files are local, and
`Shutdown` has ten seconds. (A credential plugin that never returns is outside this
argument: client-go runs it inside the transport, without the request's
context.) Nothing is assumed of a process that was not signalled. The other
specifications state safety only and need no fairness.

## What is proved

`EngineProofs` proves, for every set of options, extension rules, scope maps and
requests:

- `TypeCorrect`: `Spec => []TypeOK`, including that an engine that serves was
  built from options that pass validation.
- `LadderHolds`, `NoEscalationHolds`, `StrictBoundaryHolds`, `GroupsAgreeHolds`:
  the invariants of the `engine` run.

The inductive invariant is `IInv == TypeOK /\ Decided`. `TypeOK` alone does not
carry the verdicts: `Decided` adds that a verdict is what `Authorize` says of the
request under the process's own configuration, and `TypeOK` that this
configuration was validated. Given it, each invariant is a fact about
`Authorize`: `LooserPermits` compares its stages under two modes. Those that hold
in whatever process asks are in `PolicyProofs`: `EscalationDenied` shows that the deny tables cover each kind of escalation;
`AllowlistBounded` and `ExtensionBounded` show that the curated table and every
accepted file name no wildcard, no secrets and no forbidden group, and
`BoundedMatch` that a rule of that kind matches no such request. The only
assumption is `RequestsAssumption`: requests have the fields of
`policy.Request`.

`DiscoveryRoutedHolds` has one hypothesis more, that each request is what `Parse`
makes of some path: an arbitrary record could call itself a resource request on
/api. `DiscoveryIsNoResource` says that the parser makes no resource request of a
path `IsDiscoveryPath` knows, `PathKept` that it keeps the path, and
`PermittedDiscovers` that the two lists, of the paths permitted and of those
filtered, agree.

`HandlerProofs` proves, for every number of slots, every configuration, request
and response, and every cap:

- `HandlerTypes`: `Spec => []TypeOK`, the base of all that follows.
- `OnlyVettedHolds`. The invariant is `Vetted(s)` for each slot: it can change
  in `Forward(s)` only, whose guard `PastLength` unfolds to the whole chain
  (`OutboundVetted`).
- `StrictContentHolds` and `NoTruncationHolds`. Neither is inductive: what a client
  has received says nothing of what is still to come. `Delivery(s)` adds, by
  where the goroutine is, that nothing is out before the copy starts
  (`Unanswered`), and that while it lasts what is out and what is left make up
  the response, what is left of a promised response is filtered (of a watch, but
  for the rows of Tables), and a stream never carries a discovery document
  (`Copying`). That rows come only to a client that asked for Tables (`Asked`)
  rests on `MayReply`, what the cluster does.
- `NeverRewrittenHolds`, an action property, from the same invariant: the error
  handler runs only where nothing is out.
- `NothingDeniedLeavesHolds`, end to end: what `Vetted` says of the request that
  left, with `NothingEscalates` and `StrictWithin` of `PolicyProofs`.
  `ConfigsAssumption` is what `NewEngine` and `LoadExtension` check before a handler
  exists.
- `LogWholeHolds`. The invariant ties the mutex to the log: its holder is the slot
  that is writing (`Holder`), the log is even while it is free (`Free`), and ends
  in the holder's open line while it is held (`Held`).
- `MutexPassedOn`: the mutex is held by nobody or by a slot that is writing, so a
  request that waits for it never waits for one that broke off.
- `RequestsMoveOn`: every step taken for a request lowers `Stage` or leaves it a unit
  less to copy, and a step taken for another leaves it where it is.
- `AuditTruthfulHolds`. `Account(s)` adds to the delivery invariant what the
  line depends on: the cluster has heard of a slot's request exactly if it
  passed the checks and is past them (`Judged`); the `redacted` flag is up
  only where a transformed body that differs took the place of the cluster's
  (`Marked`); on the way out, what the client has and what is left make up
  that body (`Passing`); and the line holds what the variables held when it
  was written (`Written`), which nothing changes afterwards.

`OthersUntouched` is what lets each of them be proved one slot at a time: a step of
one slot leaves the others' variables alone. The assumptions are the types of
the inputs, replies and caps, that configurations are accepted ones, and that
`Nobody` is not a slot.

`GateProofs` proves `KeepsContractHolds`: `Handler` implements `Gate`, for any number
of requests. `ShowInv` is the delivery invariant and `Showable`, which says of each
slot that what was given so far could be shown under its rule, and what is left
can. With it each step of `Handler` is one step of `Gate` or a stutter: the lemmas
go action by action. The mapping's `Terms` is fixed from the response on, so no
request is shown partly under one rule and partly under another.

`RedactProofs` proves all four invariants, for stores of any length and any
kinds. `IInv` is small (an answer is one view of the store): the work is in
lemmas about each encoding, that say what `Body` and `Stream` return of it.
`StrippedHolds` assumes that the watch of Tables is not asked for, which is what
the `watch_table` run shows to be needed. Assumptions: `StoresAssumption`,
`ViewsAssumption`.

`AdvertiseProofs` proves `AdvertiseTypes`, `ShownWorksHolds`, `WorksShownHolds` and
`LooseUntouchedHolds`, for every catalogue, configuration and order of the walk.
`WalkInv` says that the documents still to be fetched are ones the filter knows,
that everything shown fits the mode, and that what must be shown and is not has
its document ahead, or the list of groups that leads there (`Ahead`). Under it,
`OneDocument` says what a document of the walk tells after filtering;
`FromGroups`, `FromVersion` and `FromAggregated` say it for each format; and
`GroupKept`, the heart of the matter, that `PermitsGroup` drops no group in which a
probe succeeds. Assumption: `ClustersAssumption`.

`WatchStreamProofs` proves `WatchTypes`, `KeepsPromiseHolds` (the refinement of
`FilteredStream`), `BackpressureHolds` and `NeverStuckHolds`, for every bound on the
frames. The
inductive invariant has four parts: `Typed`; `Frames` (whatever moves is the
filtered form of the frame at its place); `Places` (what the client has seen, what
the copy holds, what the pipe holds and what the pump has read follow one
another with only blanks between); `Ends` (what each end's state says of
the others: an `EOF` on the pipe only after all of a stream that ended, an error
only for a cause, or once the copy has left). `NeverStuckHolds` adds `Links`, what a
goroutine that has ended leaves behind for the other: a closed pipe, a closed
body, a canceled context. `StepsAreBounded` shows that every step of the two, and
the noticing of a hang-up, lowers `StepsLeft`, which nobody else can raise. A
watch whose client hangs up can therefore neither hang nor go on for ever: what
`Released` adds to the two is fairness alone.

`ServeProofs` proves, for any number of starts, crashes included: `ServeTypes`,
`WholeIdentityHolds`, `CertLastHolds`, `StableIdentityHolds`, `PrivateFilesHolds`,
`RefusedForACauseHolds` and `ScopeHoldsAlways`, each with the causes its property
excepts and no other. `AllLoaded` says what a process holds by where
it is, and carries `WholeIdentity` even through races. `Disk` says what the files
hold: that one process at most is in the middle of writing unless there was a
race (`Sole`), that a process that has read one file agrees with what it will
find in the next (`Agrees`), that what was announced is what is on disk unless
there is a cause (`Pinned`), and `CertLast`. `AllPrivate` says which files each place
has secured; `AllTruthful` that a scope map says only what the cluster said
while it was built. `LivesAreShort` shows that a process has at most 24 steps from
its start to its end, requests apart, whatever it finds (`Rank`). Assumptions:
`MaxStartsAssumption`, `FlagsAssumption`.

**Only model-checked.** Every safety property of a passing run is a theorem. The
liveness properties are not: `RefusedIsAudited`, `HangUpReleases`, `Released`,
`ReaderWoken` and `SignalEnds` rest on fairness, and the prover has no rule for
`ENABLED`. The theorems without a run (`MutexPassedOn`, `RequestsMoveOn`,
`StepsAreBounded`, `LivesAreShort`) prove the part of them that is about states and
steps: who waits for whom, and that steps run out.

## What is not modelled

- JSON decoding and encoding (large integers pass through float64 when a body
  is rewritten), YAML, header syntax, texts of reasons and statuses: they carry
  no control, and no property is about them.
- The constant-time comparison of tokens: timing is not a matter of states.
- TLS, HTTP/1.1 framing, trailers, informational responses and a protocol switch by the
  cluster (no request that asks for one is forwarded): `net/http`'s business.
- A custom resource whose kind ends in "List": `redact.Body` takes it for a
  list and leaves it as it is. `StoresAssumption` names this.
- An aggregated API that lists a subresource without its resource:
  `ClustersAssumption` excludes it.
- `upstream.New`: it selects a context of a kubeconfig with client-go and sets the
  timeouts of a transport; it keeps no state. `Probe` is an action of `Serve`, and
  what the transport can do is in `Handler`.
- The contents of a certificate, and so that a persisted one is used whatever
  `--listen` and `--tls-san` say now (the comment of `LoadOrCreateCert` asks for one
  that stays the same).
- A token file cut short at 32 characters or more (`minPersistedToken`), which
  `LoadOrCreateToken` takes for a token: the model's writes are whole or not at
  all, and it takes a write of 44 bytes that stops inside its last 12.
- The wall clock: the ten seconds of a shutdown are `GraceEnds`, at any time.
- The kubeconfig banner: formatting.
- An aggregated resource whose "subresources" is not an array: the filter hands it
  on as it is (`filter.go:308`). The model's documents list their subresources.
- The 64 KiB that the reader of a watch takes ahead (`stream.go:26`): `Backpressure`
  counts frames from the moment they are read out of it.
- What a failing credential plugin is answered: while serving nothing wraps its
  error in `ErrCredentialsUnavailable` (`Probe` alone does), so `writeProxyError`
  answers 502 where the design spec (section 9) asks for 503. `TransportErrors`
  has the error; no property is about the status.

## Plan

Done: `Policy`, `Engine`, `Discovery`, `Advertise`, `Handler`, `Redact`; then
`WatchStream`, `Identity`, `Serve`, the two abstract specifications and their
refinements, and the proofs of every safety property.
What could be added:

1. A composition of `WatchStream` with `Handler`'s slots, in place of the one-step
   `StreamFrame`, so that the audit line of a watch is checked against its frames.
2. More than one change of the cluster under one scope map, and a resource that
   disappears without coming back.
3. A `Redact` store with a kind that ends in "List", as a run that shows `Stripped`
   violated.
