------------------------------- MODULE Engine -------------------------------
(***************************************************************************)
(* The policy engine of one kubegate process: its flags are validated and  *)
(* the engine built (or the start refused), then it decides one request    *)
(* after another under a configuration that never changes.                 *)
(***************************************************************************)
EXTENDS Discovery

CONSTANTS Options,   \* what the flags, the --policy file and discovery may say:
                     \* records [mode, namespaces, policy, rules, scoper]
          Requests   \* the parsed requests that may arrive

ASSUME RequestsAssumption == Requests \subseteq Request

VARIABLES options,   \* the options the process was started with
          engine,    \* "starting", "refused", "idle" or "decided"
          req,       \* the request decided
          allowed    \* and the verdict on it

vars == <<options, engine, req, allowed>>

NoRequest == [isResource |-> FALSE, path |-> <<>>, verb |-> "", group |-> "",
              version |-> "", resource |-> "", sub |-> "", ns |-> ""]

\* policy.Config.  Without --policy there are no extension rules.
Cfg == [mode |-> options.mode, namespaces |-> options.namespaces,
        extra |-> IF options.policy THEN options.rules ELSE {}, scoper |-> options.scoper]

Init == /\ options \in Options
        /\ engine = "starting"
        /\ req = NoRequest
        /\ allowed = FALSE

\* config.validate, LoadExtension and NewEngine.
ValidOptions ==
    /\ options.mode \in Modes
    /\ options.policy => options.mode = Strict /\ ValidateExtension(options.rules)
    /\ EngineAccepts(Cfg.mode, Cfg.extra)

\* Mutant: an invalid option is reported, and the process goes on.
Start_anyway == /\ engine = "starting"
                /\ engine' = "idle"
                /\ UNCHANGED <<options, req, allowed>>

Start == /\ engine = "starting"
         /\ engine' = IF ValidOptions THEN "idle" ELSE "refused"
         /\ UNCHANGED <<options, req, allowed>>

Decide(r) == /\ engine = "idle"
             /\ engine' = "decided"
             /\ req' = r
             /\ allowed' = Authorize(Cfg, r)
             /\ UNCHANGED options

\* The engine keeps nothing of a request it has decided.
Forget == /\ engine = "decided"
          /\ engine' = "idle"
          /\ req' = NoRequest
          /\ allowed' = FALSE
          /\ UNCHANGED options

Next == Start \/ Forget \/ \E r \in Requests : Decide(r)

Spec == Init /\ [][Next]_vars

-----------------------------------------------------------------------------
TypeOK == /\ options \in Options
          /\ engine \in {"starting", "refused", "idle", "decided"}
          /\ req \in Request \union {NoRequest}
          /\ allowed \in BOOLEAN
          /\ engine \in {"idle", "decided"} => ValidOptions

\* Monotonicity (design spec 6.3.1): ro-nosecret <= ro-secret <= rw.  What the
\* running engine permits, the same flags with a looser mode permit too, a
\* --policy extension of the strict mode included.
Looser(mode) == CASE mode = Strict -> {"ro-secret", "rw"}
                  [] mode = "ro-secret" -> {"rw"}
                  [] OTHER -> {}
Ladder == allowed => \A mode \in Looser(Cfg.mode) :
                        Authorize([Cfg EXCEPT !.mode = mode, !.extra = {}], req)

\* No mode, namespace list or accepted extension ever lets through a request
\* that opens an interactive session or mints a cluster credential.
NoEscalation == allowed /\ req.isResource => ~Escalates(req)

\* The strict mode's promise survives any accepted --policy file.
StrictBoundary == allowed /\ req.isResource /\ Cfg.mode = Strict => WithinBoundary(req)

\* Discovery never hides a group something in it is permitted from: dropping
\* a group (PermitsGroup) and permitting a resource are separate code paths.
GroupsAgree == allowed /\ req.isResource => PermitsGroup(Cfg, req.group)

\* policy's list of permitted non-resource paths and discovery's list of the
\* paths whose body is filtered live in two packages.  A permitted path under
\* /api or /apis that is not a resource request is one the filter handles, and
\* no resource request is taken for a discovery document.
DiscoveryRouted ==
    allowed => IsDiscoveryPath(req.path) <=>
                  ~req.isResource /\ req.path # <<>> /\ req.path[1] \in {"api", "apis"}
=============================================================================
