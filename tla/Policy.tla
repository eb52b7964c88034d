------------------------------- MODULE Policy -------------------------------
(***************************************************************************)
(* internal/policy: whether a parsed Kubernetes request may be forwarded.  *)
(* The package is pure, and so is this module: operators only.             *)
(*                                                                         *)
(* A request is the record policy.Request; its path is the sequence of its *)
(* segments ("/apis/apps" is <<"apis", "apps">>; an empty segment is a     *)
(* doubled or trailing slash).  Only the verdict of a Decision is kept,    *)
(* its reason text is not.  A rule is a record of three sets; an entry of  *)
(* its Resources, "res" or "res/sub", is [res, sub] with sub = "" when     *)
(* there is no slash (so "res/" and "res", which match alike, coincide).   *)
(***************************************************************************)
EXTENDS Integers, Sequences

Request == [isResource : BOOLEAN, path : Seq(STRING), verb : STRING, group : STRING,
            version : STRING, resource : STRING, sub : STRING, ns : STRING]

Strict == "ro-nosecret"
Modes == {Strict, "ro-secret", "rw"}

readVerbs == {"get", "list", "watch"}
knownVerbs == readVerbs \union
              {"create", "update", "patch", "delete", "deletecollection"}

-----------------------------------------------------------------------------
(* Rules.                                                                  *)

Bare(names) == {[res |-> n, sub |-> ""] : n \in names}
Rule(groups, resources, verbs) ==
    [groups |-> groups, resources |-> resources, verbs |-> verbs]

\* matchesResource.  The bare "*" reaches subresources; any other entry
\* without a slash reaches none, and no named entry matches an empty resource.
EntryMatches(entry, resource, sub) ==
    \/ entry.res = "*" /\ entry.sub = ""
    \/ /\ entry.res = "*" \/ (entry.res = resource /\ resource # "")
       /\ entry.sub = sub \/ entry.sub = "*"

RuleMatches(rule, req) ==
    /\ req.verb # ""
    /\ "*" \in rule.groups \/ req.group \in rule.groups
    /\ "*" \in rule.verbs \/ req.verb \in rule.verbs
    /\ \E entry \in rule.resources : EntryMatches(entry, req.resource, req.sub)

Matches(rules, req) == \E rule \in rules : RuleMatches(rule, req)

-----------------------------------------------------------------------------
(* The rule tables of modes.go.                                            *)

interactive == {"exec", "attach", "portforward", "proxy"}
writeVerbs == knownVerbs \ readVerbs

\* Mutant: the interactive subresources are denied of pods alone.
universalDenyRules_podsOnly ==
    { Rule({"*"}, {[res |-> "pods", sub |-> s] : s \in interactive}, {"*"}),
      Rule({""}, {[res |-> "serviceaccounts", sub |-> "token"]}, {"*"}),
      Rule({"certificates.k8s.io"}, Bare({"certificatesigningrequests"}), writeVerbs),
      Rule({"certificates.k8s.io"},
           {[res |-> "certificatesigningrequests", sub |-> s] : s \in {"approval", "status"}},
           {"*"}) }

universalDenyRules ==
    { Rule({"*"}, {[res |-> "*", sub |-> s] : s \in interactive}, {"*"}),
      Rule({""}, {[res |-> "serviceaccounts", sub |-> "token"]}, {"*"}),
      Rule({"certificates.k8s.io"}, Bare({"certificatesigningrequests"}), writeVerbs),
      Rule({"certificates.k8s.io"},
           {[res |-> "certificatesigningrequests", sub |-> s] : s \in {"approval", "status"}},
           {"*"}) }

roNoSecretAllow ==
    { Rule({""},
           Bare({"pods", "services", "endpoints", "configmaps", "namespaces", "nodes",
                 "events", "persistentvolumes", "persistentvolumeclaims",
                 "replicationcontrollers", "serviceaccounts", "limitranges",
                 "resourcequotas"})
           \union {[res |-> "pods", sub |-> "status"], [res |-> "pods", sub |-> "log"],
                   [res |-> "nodes", sub |-> "status"]}, readVerbs),
      Rule({"apps"},
           Bare({"deployments", "replicasets", "statefulsets", "daemonsets",
                 "controllerrevisions"})
           \union {[res |-> "deployments", sub |-> "status"]}, readVerbs),
      Rule({"batch"}, Bare({"jobs", "cronjobs"}), readVerbs),
      Rule({"networking.k8s.io"},
           Bare({"ingresses", "ingressclasses", "networkpolicies"}), readVerbs),
      Rule({"discovery.k8s.io"}, Bare({"endpointslices"}), readVerbs),
      Rule({"events.k8s.io"}, Bare({"events"}), readVerbs),
      Rule({"autoscaling"}, Bare({"horizontalpodautoscalers"}), readVerbs),
      Rule({"policy"}, Bare({"poddisruptionbudgets"}), readVerbs),
      Rule({"storage.k8s.io"},
           Bare({"storageclasses", "csidrivers", "csinodes", "volumeattachments"}),
           readVerbs),
      Rule({"scheduling.k8s.io"}, Bare({"priorityclasses"}), readVerbs),
      Rule({"node.k8s.io"}, Bare({"runtimeclasses"}), readVerbs),
      Rule({"coordination.k8s.io"}, Bare({"leases"}), readVerbs),
      Rule({"metrics.k8s.io"}, Bare({"pods", "nodes"}), readVerbs),
      Rule({"apiextensions.k8s.io"}, Bare({"customresourcedefinitions"}), readVerbs) }

-----------------------------------------------------------------------------
(* The stages of Authorize.  Each can only deny.                           *)

UniversallyDenied(req) ==
    \/ req.verb \in {"proxy", ""}
    \/ req.isResource /\ req.resource = ""
    \/ Matches(universalDenyRules, req)

VerbPermitted(mode, req) ==
    /\ req.verb \in knownVerbs
    /\ mode = "rw" \/ req.verb \in readVerbs

\* Mutant: an early draft's denial of CSRs in the read-write mode.
ResourcePermitted_denyCSR(mode, extra, req) ==
    /\ mode = Strict => Matches(roNoSecretAllow, req) \/ Matches(extra, req)
    /\ mode = "rw" => req.resource # "certificatesigningrequests"

ResourcePermitted(mode, extra, req) ==
    mode = Strict => Matches(roNoSecretAllow, req) \/ Matches(extra, req)

\* A scoper is a partial function from <<group, version, resource>> to whether
\* the resource is namespaced; outside its domain the resource is unknown.
NamespacePermitted(namespaces, scoper, req) ==
    LET key == <<req.group, req.version, req.resource>> IN
    \/ namespaces = {}
    \/ req.ns # "" /\ req.ns \in namespaces
    \/ req.ns = "" /\ key \in DOMAIN scoper /\ ~scoper[key]

exactPaths == { <<"version">>, <<"api">>, <<"api", "v1">>, <<"apis">>,
                <<"openapi", "v2">>, <<"openapi", "v3">> }

NonResourcePermitted(path) ==
    \/ path \in exactPaths
    \/ /\ Len(path) \in {2, 3}
       /\ path[1] = "apis"
       /\ \A i \in 2..Len(path) : path[i] # ""
    \/ /\ Len(path) >= 3
       /\ path[1] = "openapi" /\ path[2] = "v3"
       /\ \A i \in 3..(Len(path) - 1) : path[i] # ""

-----------------------------------------------------------------------------
(* The Engine, for a configuration [mode, namespaces, extra, scoper].      *)

RedactionEnabled(cfg) == cfg.mode = Strict

AuthorizesResourceKind(cfg, req) ==
    IF req.isResource
    THEN /\ ~UniversallyDenied(req)
         /\ VerbPermitted(cfg.mode, req)
         /\ ResourcePermitted(cfg.mode, cfg.extra, req)
    ELSE NonResourcePermitted(req.path)

Authorize(cfg, req) ==
    /\ AuthorizesResourceKind(cfg, req)
    /\ req.isResource => NamespacePermitted(cfg.namespaces, cfg.scoper, req)

\* Mutant: groups are probed against the built-in allowlist alone.
PermitsGroup_noExtension(cfg, group) ==
    \/ cfg.mode # Strict
    \/ \E rule \in roNoSecretAllow : "*" \in rule.groups \/ group \in rule.groups

PermitsGroup(cfg, group) ==
    \/ cfg.mode # Strict
    \/ \E rule \in roNoSecretAllow \union cfg.extra :
          "*" \in rule.groups \/ group \in rule.groups

-----------------------------------------------------------------------------
(* The --policy extension file.  A resource string containing "*" anywhere *)
(* is refused; the model has "*" only as a whole resource or subresource.  *)

forbiddenExtensionGroups ==
    { "rbac.authorization.k8s.io", "certificates.k8s.io", "admissionregistration.k8s.io",
      "authentication.k8s.io", "authorization.k8s.io" }

ProbeFor(group, entry, verb) ==
    [isResource |-> FALSE, path |-> <<>>, verb |-> verb, group |-> group, version |-> "",
     resource |-> entry.res, sub |-> entry.sub, ns |-> ""]

\* Mutant: "secrets" is compared with the whole entry, not with its resource.
ExtensionRuleOK_wholeEntry(rule) ==
    /\ rule.groups # {} /\ rule.resources # {} /\ rule.verbs # {}
    /\ "*" \notin rule.groups
    /\ rule.groups \intersect forbiddenExtensionGroups = {}
    /\ \A entry \in rule.resources :
          entry.res # "*" /\ entry.sub # "*" /\ entry # [res |-> "secrets", sub |-> ""]
    /\ rule.verbs \subseteq readVerbs
    /\ \A entry \in rule.resources, g \in rule.groups, v \in readVerbs :
          ~Matches(universalDenyRules, ProbeFor(g, entry, v))

ExtensionRuleOK(rule) ==
    /\ rule.groups # {} /\ rule.resources # {} /\ rule.verbs # {}
    /\ "*" \notin rule.groups
    /\ rule.groups \intersect forbiddenExtensionGroups = {}
    /\ \A entry \in rule.resources :
          entry.res \notin {"*", "secrets"} /\ entry.sub # "*"
    /\ rule.verbs \subseteq readVerbs
    /\ \A entry \in rule.resources, g \in rule.groups, v \in readVerbs :
          ~Matches(universalDenyRules, ProbeFor(g, entry, v))

ValidateExtension(rules) == rules # {} /\ \A rule \in rules : ExtensionRuleOK(rule)

\* NewEngine, after config.validate: an extension needs the strict mode.
EngineAccepts(mode, extra) == mode \in Modes /\ (extra # {} => mode = Strict)

-----------------------------------------------------------------------------
(* The two lines that no configuration may cross.                          *)

\* An interactive session, or the minting of a cluster credential: the
\* interactive subresources, the legacy proxy verb, a TokenRequest, the writes
\* that get a CSR issued.
Escalates(r) ==
    \/ r.sub \in interactive
    \/ r.verb = "proxy"
    \/ r.group = "" /\ r.resource = "serviceaccounts" /\ r.sub = "token"
    \/ /\ r.group = "certificates.k8s.io" /\ r.resource = "certificatesigningrequests"
       /\ r.sub \in {"approval", "status"} \/ (r.sub = "" /\ r.verb \notin readVerbs)

\* What the strict mode serves of resources: no secrets (in any group), no
\* security-posture group, nothing but reads.
WithinBoundary(r) == /\ r.resource # "secrets"
                     /\ r.group \notin forbiddenExtensionGroups
                     /\ r.verb \in readVerbs
=============================================================================
