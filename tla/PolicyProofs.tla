---------------------------- MODULE PolicyProofs ----------------------------
(***************************************************************************)
(* Facts about the policy's rule tables and Authorize, for every           *)
(* configuration and request: what every module that asks the policy may   *)
(* rely on.                                                                *)
(***************************************************************************)
EXTENDS Policy, TLAPS

-----------------------------------------------------------------------------
(* What no configuration permits.                                          *)

\* The deny rules cover every escalation.
LEMMA EscalationDenied ==
  ASSUME NEW r, r.isResource, Escalates(r), r.verb \in knownVerbs
  PROVE  UniversallyDenied(r)
<1> SUFFICES ASSUME r.verb # "proxy" PROVE Matches(universalDenyRules, r)
  BY DEF UniversallyDenied
<1>0. r.verb # ""
  BY DEF knownVerbs, readVerbs
<1>1. CASE r.sub \in interactive
  <2> DEFINE entries == {[res |-> "*", sub |-> s] : s \in interactive}
             rule == Rule({"*"}, entries, {"*"})
  <2>1. [res |-> "*", sub |-> r.sub] \in entries
    BY <1>1
  <2>2. RuleMatches(rule, r)
    BY <1>0, <2>1 DEF RuleMatches, EntryMatches, Rule
  <2> QED
    BY <2>2 DEF Matches, universalDenyRules
<1>2. CASE r.group = "" /\ r.resource = "serviceaccounts" /\ r.sub = "token"
  <2> DEFINE rule == Rule({""}, {[res |-> "serviceaccounts", sub |-> "token"]}, {"*"})
  <2>1. RuleMatches(rule, r)
    BY <1>0, <1>2 DEF RuleMatches, EntryMatches, Rule
  <2> QED
    BY <2>1 DEF Matches, universalDenyRules
<1>3. CASE /\ r.group = "certificates.k8s.io" /\ r.resource = "certificatesigningrequests"
           /\ r.sub \in {"approval", "status"}
  <2> DEFINE entries == {[res |-> "certificatesigningrequests", sub |-> s] :
                            s \in {"approval", "status"}}
             rule == Rule({"certificates.k8s.io"}, entries, {"*"})
  <2>1. [res |-> "certificatesigningrequests", sub |-> r.sub] \in entries
    BY <1>3
  <2>2. RuleMatches(rule, r)
    BY <1>0, <1>3, <2>1 DEF RuleMatches, EntryMatches, Rule
  <2> QED
    BY <2>2 DEF Matches, universalDenyRules
<1>4. CASE /\ r.group = "certificates.k8s.io" /\ r.resource = "certificatesigningrequests"
           /\ r.sub = "" /\ r.verb \notin readVerbs
  <2> DEFINE rule == Rule({"certificates.k8s.io"}, Bare({"certificatesigningrequests"}),
                          writeVerbs)
  <2>1. [res |-> "certificatesigningrequests", sub |-> ""] \in rule.resources
    BY DEF Rule, Bare
  <2>2. r.verb \in rule.verbs /\ r.group \in rule.groups
    BY <1>4 DEF Rule, writeVerbs
  <2>3. RuleMatches(rule, r)
    BY <1>0, <1>4, <2>1, <2>2 DEF RuleMatches, EntryMatches
  <2> QED
    BY <2>3 DEF Matches, universalDenyRules
<1> QED
  BY <1>1, <1>2, <1>3, <1>4 DEF Escalates

\* Whatever the mode, the namespaces and the extension, nothing that escalates is
\* authorized.
LEMMA NothingEscalates ==
  ASSUME NEW c, NEW r, r.isResource, AuthorizesResourceKind(c, r)
  PROVE  ~Escalates(r)
<1>1. ~UniversallyDenied(r) /\ r.verb \in knownVerbs
  BY DEF AuthorizesResourceKind, VerbPermitted
<1> QED
  BY <1>1, EscalationDenied

-----------------------------------------------------------------------------
(* The boundary of the strict mode.                                        *)

\* A rule that names neither a wildcard, nor secrets, nor a forbidden group.
Bounded(rule) ==
    /\ "*" \notin rule.groups
    /\ \A g \in rule.groups : g \notin forbiddenExtensionGroups
    /\ \A entry \in rule.resources : entry.res # "*" /\ entry.res # "secrets"

LEMMA BoundedMatch ==
  ASSUME NEW rule, NEW r, Bounded(rule), RuleMatches(rule, r)
  PROVE  r.resource # "secrets" /\ r.group \notin forbiddenExtensionGroups
  BY DEF Bounded, RuleMatches, EntryMatches

\* Entries that name neither a wildcard nor secrets, and how a table is built of them.
HarmlessEntries(entries) == \A entry \in entries : entry.res # "*" /\ entry.res # "secrets"

LEMMA HarmlessTables ==
  /\ \A names : "*" \notin names /\ "secrets" \notin names => HarmlessEntries(Bare(names))
  /\ \A es, fs : HarmlessEntries(es) /\ HarmlessEntries(fs) => HarmlessEntries(es \union fs)
  /\ \A g, es, vs : g # "*" /\ g \notin forbiddenExtensionGroups /\ HarmlessEntries(es)
        => Bounded(Rule({g}, es, vs))
<1>1. ASSUME NEW names, "*" \notin names, "secrets" \notin names PROVE HarmlessEntries(Bare(names))
  <2> SUFFICES ASSUME NEW entry \in Bare(names)
               PROVE  entry.res # "*" /\ entry.res # "secrets"
    BY DEF HarmlessEntries
  <2>1. PICK n \in names : entry = [res |-> n, sub |-> ""]
    BY DEF Bare
  <2>2. n # "*" /\ n # "secrets"
    BY <1>1
  <2>3. entry.res = n
    BY <2>1
  <2> QED
    BY <2>2, <2>3
<1>2. ASSUME NEW es, NEW fs, HarmlessEntries(es), HarmlessEntries(fs) PROVE HarmlessEntries(es \union fs)
  BY <1>2 DEF HarmlessEntries
<1>3. ASSUME NEW g, NEW es, NEW vs, g # "*", g \notin forbiddenExtensionGroups, HarmlessEntries(es)
      PROVE Bounded(Rule({g}, es, vs))
  BY <1>3 DEF HarmlessEntries, Bounded, Rule
<1> QED
  BY <1>1, <1>2, <1>3

\* The curated table keeps to the bounds it imposes on extensions.
LEMMA AllowlistBounded == \A rule \in roNoSecretAllow : Bounded(rule)
<1>1. HarmlessEntries({[res |-> "pods", sub |-> "status"], [res |-> "pods", sub |-> "log"],
                [res |-> "nodes", sub |-> "status"]})
  BY DEF HarmlessEntries
<1>2. HarmlessEntries({[res |-> "deployments", sub |-> "status"]})
  BY DEF HarmlessEntries
<1> QED
  BY <1>1, <1>2, HarmlessTables, ZenonT(90) DEF roNoSecretAllow, forbiddenExtensionGroups

LEMMA ExtensionBounded ==
  ASSUME NEW rules, ValidateExtension(rules)
  PROVE  \A rule \in rules : Bounded(rule)
  BY DEF ValidateExtension, ExtensionRuleOK, Bounded

\* Of resources, the strict mode authorizes only what lies within its boundary,
\* with the built-in rules and with any extension that was accepted.
LEMMA StrictWithin ==
  ASSUME NEW c, NEW r, c.mode = Strict, c.extra = {} \/ ValidateExtension(c.extra),
         r.isResource, AuthorizesResourceKind(c, r)
  PROVE  WithinBoundary(r)
<1>1. r.verb \in readVerbs
  BY DEF AuthorizesResourceKind, VerbPermitted, Strict
<1>2. Matches(roNoSecretAllow, r) \/ Matches(c.extra, r)
  BY DEF AuthorizesResourceKind, ResourcePermitted
<1>3. \A rule \in c.extra : Bounded(rule)
  BY ExtensionBounded
<1> QED
  BY <1>1, <1>2, <1>3, AllowlistBounded, BoundedMatch DEF Matches, WithinBoundary
=============================================================================
