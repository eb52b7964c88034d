------------------------------ MODULE Advertise ------------------------------
(***************************************************************************)
(* A discovery client (kubectl api-resources) walks the cluster's discovery*)
(* documents through kubegate, in either of the two formats kubectl uses:  *)
(*   flat        /api, /api/v1, /apis, then /apis/<group>/<version> for    *)
(*               every version of every group still listed;                *)
(*   aggregated  /api and /apis, each one APIGroupDiscoveryList.           *)
(* It may also ask for one group's document, /apis/<group>, by hand.       *)
(* Every document passes through FilterBody; what survives is what the     *)
(* client shows.  The walk and the cluster are outside this repository.    *)
(***************************************************************************)
EXTENDS Discovery

CONSTANTS Configs,   \* configurations the engine accepted
          Clusters   \* catalogues: sets of [group, version, res, sub], a group's
                     \* subresources always beside their resource

Entry(e) == [group |-> e.group, version |-> e.version, res |-> e.res, sub |-> e.sub]

\* The core group has one version.
ASSUME ClustersAssumption ==
    \A c \in Clusters : \A e \in c :
        /\ e = Entry(e)
        /\ e.group = "" => e.version = "v1"
        /\ [e EXCEPT !.sub = ""] \in c

VARIABLES cfg, cluster,
          style,     \* "flat" or "aggregated"
          todo,      \* discovery paths the client has still to fetch
          shown,     \* what it lists, a subset of the catalogue
          failed     \* the paths kubegate answered with an error

vars == <<cfg, cluster, style, todo, shown, failed>>

Roots == { <<"api">>, <<"apis">> }

Init == /\ cfg \in Configs
        /\ cluster \in Clusters
        /\ style \in {"flat", "aggregated"}
        /\ todo = IF style = "flat" THEN Roots \union {<<"api", "v1">>} ELSE Roots
        /\ shown = {}
        /\ failed = {}

-----------------------------------------------------------------------------
(* The cluster's side: the document each path serves.                      *)

Groups == {e.group : e \in cluster} \ {""}
Versions(group) == {e.version : e \in {f \in cluster : f.group = group}}

ResourceList(group, version) ==
    [kind |-> "APIResourceList", wellFormed |-> TRUE, group |-> group, version |-> version,
     resources |-> {[res |-> e.res, sub |-> e.sub] :
                      e \in {f \in cluster : f.group = group /\ f.version = version}}]

AggregatedItem(group) ==
    [group |-> group,
     versions |->
       {[version |-> v,
         resources |->
           LET list == ResourceList(group, v).resources IN
           {[res |-> e.res, subs |-> {s.sub : s \in {t \in list : t.res = e.res}} \ {""}] :
              e \in list}] : v \in Versions(group)}]

DocumentAt(path) ==
    CASE style = "aggregated" /\ path \in Roots ->
           [kind |-> "APIGroupDiscoveryList", wellFormed |-> TRUE,
            items |-> {AggregatedItem(g) : g \in IF path = <<"api">> THEN {""} ELSE Groups}]
      [] style = "flat" /\ path = <<"api">> -> [kind |-> "APIVersions", wellFormed |-> TRUE]
      [] path = <<"api", "v1">> -> ResourceList("", "v1")
      [] style = "flat" /\ path = <<"apis">> ->
           [kind |-> "APIGroupList", wellFormed |-> TRUE, groups |-> Groups]
      [] Len(path) = 2 /\ path[1] = "apis" -> [kind |-> "APIGroup", wellFormed |-> TRUE]
      [] Len(path) = 3 -> ResourceList(path[2], path[3])

(* The client's side: what a document tells it, and what to fetch next.    *)
EntriesOf(doc) ==
    CASE doc.kind = "APIResourceList" ->
           {[group |-> doc.group, version |-> doc.version, res |-> r.res, sub |-> r.sub] :
              r \in doc.resources}
      [] doc.kind = "APIGroupDiscoveryList" ->
           {e \in cluster :
              \E i \in doc.items : \E v \in i.versions : \E r \in v.resources :
                 /\ e.group = i.group /\ e.version = v.version /\ e.res = r.res
                 /\ e.sub \in r.subs \union {""}}
      [] OTHER -> {}

PathsFrom(doc) ==
    IF doc.kind = "APIGroupList"
    THEN UNION {{<<"apis", g, v>> : v \in Versions(g)} : g \in doc.groups}
    ELSE {}

Fetch(path) ==
    /\ path \in todo
    /\ LET answer == FilterBody(cfg, path, DocumentAt(path)) IN
       IF answer.ok
       THEN /\ todo' = (todo \ {path}) \union PathsFrom(answer.doc)
            /\ shown' = shown \union EntriesOf(answer.doc)
            /\ UNCHANGED failed
       ELSE /\ todo' = todo \ {path}
            /\ failed' = failed \union {path}
            /\ UNCHANGED shown
    /\ UNCHANGED <<cfg, cluster, style>>

AskForGroup(group) ==
    LET path == <<"apis", group>> IN
    /\ path \notin failed
    /\ ~FilterBody(cfg, path, DocumentAt(path)).ok
    /\ failed' = failed \union {path}
    /\ UNCHANGED <<cfg, cluster, style, todo, shown>>

Next == \/ \E path \in todo : Fetch(path)
        \/ \E group \in Groups : AskForGroup(group)

Spec == Init /\ [][Next]_vars

-----------------------------------------------------------------------------
Segments == {"api", "apis", "v1"} \union Groups \union UNION {Versions(g) : g \in Groups}

TypeOK == /\ cfg \in Configs /\ cluster \in Clusters
          /\ style \in {"flat", "aggregated"}
          /\ todo \subseteq Seq(Segments) /\ failed \subseteq Seq(Segments)
          /\ \A path \in todo \union failed : IsDiscoveryPath(path)
          /\ shown \subseteq cluster

Readable(e, verb) ==
    AuthorizesResourceKind(cfg, [Probe(e.group, e.version, e.res, e.sub) EXCEPT !.verb = verb])
Lists(e) == e.sub = "" /\ Readable(e, "list")
Gets(e) == e.sub # "" /\ Readable(e, "get")

Done == todo = {}

\* Whatever a client is shown it can read, in both formats: nothing the mode
\* denies is ever advertised (the aggregated format once leaked "secrets").
ShownWorks == \A e \in shown : Lists(e) \/ Gets(e) \/ cfg.mode # Strict

\* Every document of the walk is understood (only /apis/<group>, which no
\* client walks, is not), and a walk that is over has shown everything that can
\* be listed and every readable subresource of it: groups are dropped by one
\* rule (PermitsGroup) and resources by another, and neither may hide what the
\* other keeps.
WorksShown ==
    /\ failed \subseteq {<<"apis", g>> : g \in Groups}
    /\ Done => \A e \in cluster :
         Lists(e) \/ (Gets(e) /\ Lists([e EXCEPT !.sub = ""])) => e \in shown

\* The denylist modes serve discovery untouched.
LooseUntouched == Done /\ cfg.mode # Strict => shown = cluster

\* filter.go: "kubectl api-resources then shows exactly what works".  A
\* resource type the mode lets the client read by some verb is shown.
ExactlyWhatWorks ==
    Done => \A e \in cluster : e.sub = "" /\ (\E verb \in readVerbs : Readable(e, verb)) => e \in shown
=============================================================================
