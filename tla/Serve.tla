------------------------------- MODULE Serve -------------------------------
(***************************************************************************)
(* cmd/kubegate serve: from the start of a process to its end.  A process  *)
(* probes the cluster, walks its discovery documents for the scope map (if *)
(* --namespace is set), loads or creates its identity (Identity), prints   *)
(* the banner, binds, serves, and on a signal shuts down.  Several may run *)
(* on one ~/.kubegate, one after another or at once.                       *)
(***************************************************************************)
EXTENDS Identity, FiniteSets, Policy

CONSTANTS Scoped,     \* the processes started with --namespace
          Tampering,  \* whether files are deleted and their modes loosened
          Signals,    \* the processes that may be signalled
          Calls       \* the requests a process may have under way

ASSUME FlagsAssumption == Scoped \subseteq Procs /\ Signals \subseteq Procs /\ Tampering \in BOOLEAN

\* The cluster: a resource of the core group and one of a group of its own.
Pods == <<"", "v1", "pods">>
Widgets == <<"example.io", "v1", "widgets">>
Resources == {Pods, Widgets}
Allowlist == {"team-a"}

VARIABLES namespaced,  \* the truth: whether each resource of the cluster is namespaced
          scoper,      \* the scope map of each process
          unread,      \* the documents its walk has still to fetch
          moved,       \* history: the processes the cluster has changed under
          signalled,   \* the processes that have been sent SIGINT or SIGTERM
          active,      \* the requests each process has under way
          announced    \* history: the identity in the last banner

walkVars == <<namespaced, scoper, unread, moved>>
runVars == <<signalled, active, announced>>
vars == <<idVars, walkVars, runVars>>

NoMap == [r \in {} |-> TRUE]
Nobody == [cert |-> 0, token |-> 0]

Init == /\ file = [f \in Files |-> Absent] /\ loose = {}
        /\ at = [p \in Procs |-> "idle"]
        /\ cert = [p \in Procs |-> 0] /\ key = cert /\ token = cert
        /\ raced = FALSE /\ upset = {}
        /\ namespaced \in {[r \in Resources |-> r = Pods \/ n] : n \in BOOLEAN}
        /\ scoper = [p \in Procs |-> NoMap] /\ unread = [p \in Procs |-> {}]
        /\ moved = {} /\ signalled = {}
        /\ active = [p \in Procs |-> {}]
        /\ announced = Nobody

Move(p, place) == /\ Goto(p, place)
                  /\ UNCHANGED <<file, loose, cert, key, token, raced, upset>>

Live == {p \in Procs : at[p] \notin {"idle", "exited", "failed"}}

-----------------------------------------------------------------------------
(* Starting: main, Probe, BuildScoper.                                     *)

Start(p) == /\ at[p] = "idle"
            /\ \A q \in 1..(p - 1) : at[q] # "idle"
            /\ Goto(p, "probe")
            /\ UNCHANGED <<file, loose, cert, key, token, raced, upset, walkVars, runVars>>

\* /version answers, and not with 401, 403 or 5xx.
Probe(p) == /\ at[p] = "probe" /\ p \notin signalled
            /\ \/ p \in Scoped /\ Goto(p, "walkCore") /\ UNCHANGED raced
               \/ p \notin Scoped /\ Enter(p)
            /\ UNCHANGED <<file, loose, cert, key, token, upset, walkVars, runVars>>

\* A document tells of its resource, if it does not leave the scope out, and of a
\* subresource.  An entry says TRUE, FALSE or nothing (a nil pointer).
Documents(r) == {{[sub |-> "", says |-> own], [sub |-> "scale", says |-> {FALSE}]} :
                    own \in {{}, {namespaced[r]}}}

\* Mutant: the key of the map leaves the version out.
Learned_noVersion(map, r, doc) ==
    LET own == UNION {e.says : e \in {x \in doc : x.sub = ""}}
        bare == <<r[1], r[3]>> IN
    IF own = {} THEN map
    ELSE [k \in DOMAIN map \union {bare} |-> IF k = bare THEN TRUE \in own ELSE map[k]]

\* Mutant: an entry that omits its scope is taken for false.
Learned_default(map, r, doc) ==
    LET own == UNION {e.says : e \in {x \in doc : x.sub = ""}} IN
    [k \in DOMAIN map \union {r} |-> IF k = r THEN TRUE \in own ELSE map[k]]

\* collect: subresources are skipped, and so is an entry without its scope.
Learned(map, r, doc) ==
    LET own == UNION {e.says : e \in {x \in doc : x.sub = ""}} IN
    IF own = {} THEN map
    ELSE [k \in DOMAIN map \union {r} |-> IF k = r THEN TRUE \in own ELSE map[k]]

Collect(p, r) == \E doc \in Documents(r) :
    scoper' = [scoper EXCEPT ![p] = Learned(@, r, doc)]

WalkCore(p) == /\ at[p] = "walkCore" /\ p \notin signalled
               /\ Collect(p, Pods)
               /\ Move(p, "walkGroups")
               /\ UNCHANGED <<namespaced, unread, moved, runVars>>

WalkGroups(p) == /\ at[p] = "walkGroups" /\ p \notin signalled
                 /\ unread' = [unread EXCEPT ![p] = {Widgets}]
                 /\ Move(p, "walkEach")
                 /\ UNCHANGED <<namespaced, scoper, moved, runVars>>

WalkVersion(p, r) == /\ at[p] = "walkEach" /\ r \in unread[p] /\ p \notin signalled
                     /\ Collect(p, r)
                     /\ unread' = [unread EXCEPT ![p] = @ \ {r}]
                     /\ UNCHANGED <<namespaced, moved, idVars, runVars>>

\* A group version that cannot be fetched is passed over, a cancelled one too.
SkipVersion(p, r) == /\ at[p] = "walkEach" /\ r \in unread[p]
                     /\ unread' = [unread EXCEPT ![p] = @ \ {r}]
                     /\ UNCHANGED <<namespaced, scoper, moved, idVars, runVars>>

\* An empty map is refused; otherwise the identity is next, signal or not.
WalkEnds(p) == /\ at[p] = "walkEach" /\ unread[p] = {}
               /\ scoper[p] # NoMap
               /\ Enter(p)
               /\ UNCHANGED <<file, loose, cert, key, token, upset, walkVars, runVars>>

\* A resource is removed and installed again with another scope.
Reinstall == /\ namespaced' = [namespaced EXCEPT ![Widgets] = ~@]
             /\ moved = {} /\ Live \intersect Scoped # {}
             /\ moved' = Live \intersect Scoped
             /\ UNCHANGED <<scoper, unread, idVars, runVars>>

-----------------------------------------------------------------------------
(* Serving, from the banner on.                                            *)

LoadIdentity(p) == IdentityStep(p) /\ UNCHANGED <<walkVars, runVars>>

\* The banner is printed before the address is bound.
Announce(p) == /\ at[p] = "announce"
               /\ announced' = [cert |-> cert[p], token |-> token[p]]
               /\ upset' = IF Others(p, Writing) THEN upset ELSE {}
               /\ Goto(p, "bind")
               /\ UNCHANGED <<file, loose, cert, key, token, raced,
                              walkVars, signalled, active>>

Bind(p) == /\ at[p] = "bind"
           /\ Move(p, "serving")
           /\ UNCHANGED <<walkVars, runVars>>

Accept(p, c) == /\ at[p] = "serving" /\ c \notin active[p]
                /\ active' = [active EXCEPT ![p] = @ \union {c}]
                /\ UNCHANGED <<idVars, walkVars, signalled, announced>>

Finish(p, c) == /\ c \in active[p]
                /\ active' = [active EXCEPT ![p] = @ \ {c}]
                /\ UNCHANGED <<idVars, walkVars, signalled, announced>>

\* One that comes while the identity is loaded goes unnoticed until it is: as if
\* it came then.
Signal(p) == /\ p \in (Live \intersect Signals) \ signalled /\ at[p] \notin Inside
             /\ signalled' = signalled \union {p}
             /\ UNCHANGED <<idVars, walkVars, active, announced>>

-----------------------------------------------------------------------------
(* Ending.  What a process held in memory goes with it.                    *)

Leave(p, how) == /\ Goto(p, how)
                 /\ cert' = [cert EXCEPT ![p] = 0]
                 /\ key' = [key EXCEPT ![p] = 0]
                 /\ token' = [token EXCEPT ![p] = 0]
                 /\ scoper' = [scoper EXCEPT ![p] = NoMap]
                 /\ unread' = [unread EXCEPT ![p] = {}]
                 /\ moved' = moved \ {p}
                 /\ signalled' = signalled \ {p}
                 /\ active' = [active EXCEPT ![p] = {}]
                 /\ UNCHANGED <<file, loose, raced, upset, namespaced, announced>>

\* srv.Shutdown: the listener is closed, and no connection is accepted again.
Shutdown(p) == /\ at[p] \in {"bind", "serving"} /\ p \in signalled
               /\ Move(p, "draining")
               /\ UNCHANGED <<walkVars, runVars>>

Drained(p) == at[p] = "draining" /\ active[p] = {} /\ Leave(p, "exited")

\* Mutant: Shutdown is given a context without a deadline.
GraceEnds_never(p) == at[p] = "draining" /\ active[p] = {} /\ Leave(p, "failed")

\* The ten seconds are over: the process ends, and what is under way with it.
GraceEnds(p) == at[p] = "draining" /\ active[p] # {} /\ Leave(p, "failed")

\* A crash, or a step that returns an error, at any point.
Stop(p) == p \in Live /\ Leave(p, "failed")

\* What makes a start fail for certain: a signal during a request of its own, a
\* missing key, a file that is refused, an empty map.
Fails(p) == /\ \/ p \in signalled /\ at[p] \in {"probe", "walkCore", "walkGroups"}
               \/ at[p] \in {"readKey", "tightenKey"} /\ file["key"] = Absent
               \/ at[p] = "tightenToken" /\ file["token"] = Absent
               \/ at[p] = "walkEach" /\ unread[p] = {} /\ scoper[p] = NoMap
               \/ at[p] = "refused"
            /\ Stop(p)

-----------------------------------------------------------------------------
Step(p) == \/ Probe(p) \/ WalkCore(p) \/ WalkGroups(p)
           \/ \E r \in Resources : WalkVersion(p, r) \/ SkipVersion(p, r)
           \/ WalkEnds(p) \/ LoadIdentity(p) \/ Announce(p) \/ Bind(p)
           \/ Shutdown(p) \/ Drained(p) \/ GraceEnds(p) \/ Fails(p)

Tamper == /\ Tampering
          /\ \E f \in Files : Delete(f) \/ Loosen(f)
          /\ UNCHANGED <<walkVars, runVars>>

Next == \/ \E p \in Procs : \/ Start(p) \/ Step(p) \/ Stop(p) \/ Signal(p)
                            \/ \E c \in Calls : Accept(p, c) \/ Finish(p, c)
        \/ Reinstall \/ Tamper

Spec == Init /\ [][Next]_vars

\* The cluster may leave a document unanswered, and a request may last for ever:
\* once signalled, all that a process needs to go on is in its own hands.
Alone(p) == p \in signalled /\ Step(p)

FairSpec == Spec /\ \A p \in Procs : WF_vars(Alone(p))

-----------------------------------------------------------------------------
TypeOK == /\ file \in [Files -> Contents] /\ loose \subseteq {"key", "token"}
          /\ at \in [Procs -> Inside \union
                     {"idle", "probe", "walkCore", "walkGroups", "walkEach", "bind",
                      "serving", "draining", "refused", "exited", "failed"}]
          /\ cert \in [Procs -> Contents] /\ key \in [Procs -> Contents]
          /\ token \in [Procs -> Contents]
          /\ raced \in BOOLEAN /\ upset \subseteq Causes
          /\ namespaced \in {[r \in Resources |-> r = Pods \/ n] : n \in BOOLEAN}
          /\ \A p \in Procs : scoper[p] \in UNION {[D -> BOOLEAN] : D \in SUBSET Resources}
          /\ unread \in [Procs -> SUBSET Resources]
          /\ moved \subseteq Procs /\ signalled \subseteq Procs
          /\ active \in [Procs -> SUBSET Calls]
          /\ announced \in [cert : Contents, token : Contents]

Running == {"announce", "bind", "serving", "draining"}

\* However a start before it ended, and whatever else is at the same files, a
\* process serves with a key that belongs to its certificate and a token that was
\* generated whole.
WholeIdentity == \A p \in Procs :
    at[p] \in Running => cert[p] = key[p] /\ cert[p] \in Procs /\ token[p] \in Procs

\* Wherever a start is cut off, it leaves no certificate beside a key that is not its
\* own, from which no later start recovers, but for three causes: two starts ran at
\* once, one of them writing; a start found a certificate that it could not read, and
\* wrote a new key under it (PinnedPairLoads shows where that ends); or the owner
\* deleted the key and left the certificate.
CertLast == file["cert"] \in Procs /\ file["key"] # file["cert"] =>
    raced \/ "misread" \in upset \/ ("deleted" \in upset /\ file["key"] = Absent)

\* A start refuses the files it finds for three causes only: a start before it was cut
\* off in the middle of writing the certificate or the token; two starts ran at once;
\* or one before it could not read the certificate and was cut off between the new
\* key and the new certificate.  After any other crash, and after a deletion, it goes
\* on with what is there or generates it anew.
RefusedForACause ==
    [][\A p \in Procs : at[p] # "refused" /\ at'[p] = "refused" =>
         \/ raced
         \/ Torn \in {file["cert"], file["token"]}
         \/ "misread" \in upset /\ file["key"] # file["cert"]]_vars

\* What clients have pinned stays what they are given: a banner differs from the
\* one before it only after a deletion, a rotation, a file that could not be read,
\* or two starts at once, one of them generating.
StableIdentity ==
    [][~raced /\ announced # Nobody =>
         /\ announced'.cert = announced.cert \/ upset \intersect {"misread", "deleted"} # {}
         /\ announced'.token = announced.token \/ "token" \in upset]_vars

\* Whatever modes the files had, the key and the token are private by the time
\* their process is announced.
PrivateFiles == \A p \in Procs : at[p] = "announce" => loose = {}

\* With --namespace, a request for a whole cluster's worth of a resource is let
\* through only if the resource is not namespaced, whatever a document left out
\* and whichever could not be read.  Not so for a process in whose life the cluster
\* moves: what becomes of its map is Refreshed's question.
Everywhere(r) == [group |-> r[1], version |-> r[2], resource |-> r[3], ns |-> ""]
ScopeHolds == \A p \in Procs \ moved, r \in Resources :
    p \in Scoped /\ at[p] = "serving" /\ namespaced[r]
    => ~NamespacePermitted(Allowlist, scoper[p], Everywhere(r))

\* A signal ends a process, wherever it finds it: in a start that waits for the
\* cluster, or serving requests that do not end.  (A credential plugin that never
\* returns is outside: the transport runs it without looking at the context.)
SignalEnds == \A p \in Procs : p \in signalled ~> p \notin Live

-----------------------------------------------------------------------------
(* Statements of the documentation that the code does not keep.            *)

\* "fetched at startup and refreshed periodically": a map that no longer tells the
\* truth does not stay as it is.
Refreshed == \A p \in Procs :
    at[p] = "serving" /\ (\E r \in DOMAIN scoper[p] : scoper[p][r] # namespaced[r])
    ~> at[p] # "serving" \/ \A r \in DOMAIN scoper[p] : scoper[p][r] = namespaced[r]

\* LoadOrCreateCert: "It must be stable across restarts: the guest pins this CA in its
\* kubeconfig".  As long as nobody deletes a file of it and no two starts run at once,
\* the pair that was announced is never refused by a later start.
PinnedPairLoads ==
    [][\A p \in Procs :
         announced # Nobody /\ ~raced /\ "deleted" \notin upset /\ at[p] = "tightenKey"
         => at'[p] # "refused"]_vars
=============================================================================
