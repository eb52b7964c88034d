------------------------------ MODULE Discovery ------------------------------
(***************************************************************************)
(* internal/discovery/filter.go: which paths serve discovery documents, and*)
(* how a document is cut down to what the mode serves.  Operators only.    *)
(*                                                                         *)
(* A document is a record with a kind.  Lists are sets (order survives     *)
(* filtering and nothing depends on it):                                   *)
(*   APIResourceList        group, version, resources: {[res, sub]}        *)
(*   APIGroupList           groups: {name}                                 *)
(*   APIGroupDiscoveryList  items: {[group, versions:                      *)
(*                            {[version, resources: {[res, subs]}]}]}      *)
(* and wellFormed says whether the fields have the shape their kind gives  *)
(* them.  A "Stale" aggregated version has no resources.                   *)
(***************************************************************************)
EXTENDS Policy

\* Mutant: one path segment too many.
IsDiscoveryPath_deeper(path) ==
    \/ path \in {<<"api">>, <<"api", "v1">>, <<"apis">>}
    \/ Len(path) \in {2, 3, 4} /\ path[1] = "apis"

\* Mutant: a group's versions are forgotten.
IsDiscoveryPath_groupOnly(path) ==
    \/ path \in {<<"api">>, <<"api", "v1">>, <<"apis">>}
    \/ Len(path) = 2 /\ path[1] = "apis"

IsDiscoveryPath(path) ==
    \/ path \in {<<"api">>, <<"api", "v1">>, <<"apis">>}
    \/ Len(path) \in {2, 3} /\ path[1] = "apis"

\* A resource type is probed with list, a subresource with a get.
Probe(group, version, res, sub) ==
    [isResource |-> TRUE, path |-> <<>>, verb |-> IF sub = "" THEN "list" ELSE "get",
     group |-> group, version |-> version, resource |-> res, sub |-> sub, ns |-> ""]

ProbeGet(group, version, res, sub) ==
    [Probe(group, version, res, sub) EXCEPT !.verb = "get"]

\* Mutant: the probe runs through namespace scoping.
filterResourceList_scoped(cfg, doc) ==
    [doc EXCEPT !.resources =
        {r \in @ : Authorize(cfg, Probe(doc.group, doc.version, r.res, r.sub))}]

filterResourceList(cfg, doc) ==
    [doc EXCEPT !.resources =
        {r \in @ : AuthorizesResourceKind(cfg, Probe(doc.group, doc.version, r.res, r.sub))}]

filterGroupList(cfg, doc) == [doc EXCEPT !.groups = {g \in @ : PermitsGroup(cfg, g)}]

\* A document of the model lists its subresources: the code hands on a resource
\* whose "subresources" is something else than an array as it is.
filterAggregatedSubresources(cfg, group, version, r) ==
    [r EXCEPT !.subs =
        {s \in @ : AuthorizesResourceKind(cfg, ProbeGet(group, version, r.res, s))}]

filterAggregatedResources(cfg, group, v) ==
    [v EXCEPT !.resources =
        {filterAggregatedSubresources(cfg, group, v.version, r) :
            r \in {q \in @ : AuthorizesResourceKind(cfg, Probe(group, v.version, q.res, ""))}}]

filterAggregatedVersions(cfg, item) ==
    [item EXCEPT !.versions = {filterAggregatedResources(cfg, item.group, v) : v \in @}]

\* Mutant: the aggregated format is not filtered, as in an earlier version.
filterAggregatedDiscoveryList_open(cfg, doc) == doc

filterAggregatedDiscoveryList(cfg, doc) ==
    [doc EXCEPT !.items =
        {filterAggregatedVersions(cfg, i) : i \in {j \in @ : PermitsGroup(cfg, j.group)}}]

\* FilterBody's answer: the document to serve, or an error (ok = FALSE), and
\* whether the body was rewritten.
FilterError == [ok |-> FALSE]
Served(doc, out) == [ok |-> TRUE, doc |-> out, changed |-> out # doc]

\* Mutant: every mode filters.
Filters_everyMode(cfg, path) == IsDiscoveryPath(path)
Filters(cfg, path) == cfg.mode = Strict /\ IsDiscoveryPath(path)

FilterBody(cfg, path, doc) ==
    CASE ~Filters(cfg, path) -> Served(doc, doc)
      [] Filters(cfg, path) /\ ~doc.wellFormed -> FilterError
      [] Filters(cfg, path) /\ doc.wellFormed ->
         CASE doc.kind = "APIResourceList" -> Served(doc, filterResourceList(cfg, doc))
           [] doc.kind = "APIGroupList" -> Served(doc, filterGroupList(cfg, doc))
           [] doc.kind = "APIGroupDiscoveryList" ->
              Served(doc, filterAggregatedDiscoveryList(cfg, doc))
           [] doc.kind = "APIVersions" -> Served(doc, doc)
           [] OTHER -> FilterError
=============================================================================
