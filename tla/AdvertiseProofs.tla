-------------------------- MODULE AdvertiseProofs --------------------------
(***************************************************************************)
(* What a discovery client learns, for every catalogue, configuration and  *)
(* order of its walk: of each resource what the mode serves of it, neither *)
(* more nor less.                                                          *)
(***************************************************************************)
EXTENDS Advertise, TLAPS

Fits(e) == AuthorizesResourceKind(cfg, Probe(e.group, e.version, e.res, e.sub))
Whole(e) == [e EXCEPT !.sub = ""]

LEMMA EntryFacts ==
  ASSUME cluster \in Clusters, NEW e \in cluster
  PROVE  /\ e = Entry(e)
         /\ Whole(e) \in cluster /\ Whole(e).group = e.group /\ Whole(e).res = e.res
         /\ Whole(e).version = e.version /\ Whole(e).sub = ""
         /\ e.group = "" => e.version = "v1"
<1>1. e = Entry(e) /\ Whole(e) \in cluster /\ (e.group = "" => e.version = "v1")
  BY ClustersAssumption DEF Whole
<1>2. /\ Whole(e).group = e.group /\ Whole(e).res = e.res
      /\ Whole(e).version = e.version /\ Whole(e).sub = ""
  BY <1>1 DEF Whole, Entry
<1> QED
  BY <1>1, <1>2

\* The engine reads of a request its fields alone.
SameRequest(r, s) ==
  /\ r.isResource = s.isResource /\ r.path = s.path /\ r.verb = s.verb
  /\ r.group = s.group /\ r.resource = s.resource /\ r.sub = s.sub

LEMMA FieldsDecide ==
  ASSUME NEW r, NEW s, SameRequest(r, s)
  PROVE  AuthorizesResourceKind(cfg, r) <=> AuthorizesResourceKind(cfg, s)
<1>1. \A rules : Matches(rules, r) <=> Matches(rules, s)
  BY DEF SameRequest, Matches, RuleMatches
<1> QED
  BY <1>1 DEF SameRequest, AuthorizesResourceKind, UniversallyDenied, VerbPermitted,
              ResourcePermitted

\* The filter's probes are the requests of a client.
LEMMA Probing ==
  ASSUME NEW g, NEW v, NEW r, NEW s, NEW verb, verb = IF s = "" THEN "list" ELSE "get"
  PROVE  SameRequest([Probe(g, v, r, s) EXCEPT !.verb = verb], Probe(g, v, r, s))
  BY DEF Probe, SameRequest

LEMMA ProbingGet ==
  ASSUME NEW g, NEW v, NEW r, NEW s, s # ""
  PROVE  SameRequest(ProbeGet(g, v, r, s), Probe(g, v, r, s))
  BY DEF Probe, ProbeGet, SameRequest

LEMMA Probes ==
  ASSUME NEW e
  PROVE  /\ Lists(e) <=> e.sub = "" /\ Fits(e)
         /\ Gets(e) <=> e.sub # "" /\ Fits(e)
<1>1. ASSUME e.sub = "" PROVE Readable(e, "list") <=> Fits(e)
  BY <1>1, Probing, FieldsDecide DEF Readable, Fits
<1>2. ASSUME e.sub # "" PROVE Readable(e, "get") <=> Fits(e)
  BY <1>2, Probing, FieldsDecide DEF Readable, Fits
<1> QED
  BY <1>1, <1>2 DEF Lists, Gets

\* A group is dropped only if nothing in it is served.
LEMMA GroupKept ==
  ASSUME NEW group, NEW version, NEW res, NEW sub,
         AuthorizesResourceKind(cfg, Probe(group, version, res, sub))
  PROVE  PermitsGroup(cfg, group)
<1>1. ResourcePermitted(cfg.mode, cfg.extra, Probe(group, version, res, sub))
  BY DEF AuthorizesResourceKind, Probe
<1>2. Probe(group, version, res, sub).group = group
  BY DEF Probe
<1> QED
  BY <1>1, <1>2 DEF ResourcePermitted, Matches, RuleMatches, PermitsGroup

-----------------------------------------------------------------------------
(* The paths of a walk, and the documents they serve.                      *)

VersionPath(e) == <<"apis", e.group, e.version>>
VersionPaths == {VersionPath(e) : e \in {f \in cluster : f.group # ""}}
Walk == IF style = "aggregated" THEN Roots
        ELSE Roots \union {<<"api", "v1">>} \union VersionPaths

LEMMA PathsDiffer ==
  /\ <<"api">> # <<"apis">>
  /\ <<"api", "v1">> \notin Roots
  /\ \A g, v : /\ <<"apis", g, v>> \notin Roots /\ <<"apis", g, v>> # <<"api", "v1">>
               /\ Len(<<"apis", g, v>>) = 3
               /\ <<"apis", g, v>>[2] = g /\ <<"apis", g, v>>[3] = v
  BY DEF Roots

LEMMA WalkDiscovers ==
  ASSUME NEW path \in Walk PROVE IsDiscoveryPath(path)
<1>1. ASSUME NEW g, NEW v PROVE IsDiscoveryPath(<<"apis", g, v>>)
  BY DEF IsDiscoveryPath
<1>2. \A p \in Roots \union {<<"api", "v1">>} : IsDiscoveryPath(p)
  BY DEF IsDiscoveryPath, Roots
<1> QED
  BY <1>1, <1>2 DEF Walk, VersionPaths, VersionPath

LEMMA Documents ==
  /\ style = "aggregated" =>
        \A path \in Roots :
           DocumentAt(path) =
             [kind |-> "APIGroupDiscoveryList", wellFormed |-> TRUE,
              items |-> {AggregatedItem(g) : g \in IF path = <<"api">> THEN {""} ELSE Groups}]
  /\ style = "flat" =>
        /\ DocumentAt(<<"api">>) = [kind |-> "APIVersions", wellFormed |-> TRUE]
        /\ DocumentAt(<<"api", "v1">>) = ResourceList("", "v1")
        /\ DocumentAt(<<"apis">>) =
             [kind |-> "APIGroupList", wellFormed |-> TRUE, groups |-> Groups]
        /\ \A g, v : DocumentAt(<<"apis", g, v>>) = ResourceList(g, v)
<1>1. ASSUME style = "aggregated", NEW path \in Roots
      PROVE  DocumentAt(path) =
             [kind |-> "APIGroupDiscoveryList", wellFormed |-> TRUE,
              items |-> {AggregatedItem(g) : g \in IF path = <<"api">> THEN {""} ELSE Groups}]
  <2>1. path # <<"api", "v1">> /\ Len(path) = 1
    BY <1>1 DEF Roots
  <2> QED
    BY <1>1, <2>1 DEF DocumentAt
<1>2. ASSUME style = "flat"
      PROVE  /\ DocumentAt(<<"api">>) = [kind |-> "APIVersions", wellFormed |-> TRUE]
             /\ DocumentAt(<<"api", "v1">>) = ResourceList("", "v1")
             /\ DocumentAt(<<"apis">>) =
                  [kind |-> "APIGroupList", wellFormed |-> TRUE, groups |-> Groups]
  <2>1. ASSUME NEW path, path = <<"api">>
        PROVE  DocumentAt(path) = [kind |-> "APIVersions", wellFormed |-> TRUE]
    <3>1. path # <<"api", "v1">> /\ path # <<"apis">> /\ Len(path) # 2
      BY <2>1
    <3> QED
      BY <1>2, <2>1, <3>1 DEF DocumentAt
  <2>2. ASSUME NEW path, path = <<"api", "v1">>
        PROVE  DocumentAt(path) = ResourceList("", "v1")
    <3>1. path # <<"api">> /\ path # <<"apis">> /\ Len(path) = 2 /\ path[1] = "api"
      BY <2>2
    <3> QED
      BY <1>2, <2>2, <3>1 DEF DocumentAt
  <2>3. ASSUME NEW path, path = <<"apis">>
        PROVE  DocumentAt(path) = [kind |-> "APIGroupList", wellFormed |-> TRUE, groups |-> Groups]
    <3>1. path # <<"api">> /\ path # <<"api", "v1">> /\ Len(path) # 2
      BY <2>3
    <3> QED
      BY <1>2, <2>3, <3>1 DEF DocumentAt
  <2> QED
    BY <2>1, <2>2, <2>3
<1>3. ASSUME style = "flat", NEW g, NEW v PROVE DocumentAt(<<"apis", g, v>>) = ResourceList(g, v)
  <2> DEFINE path == <<"apis", g, v>>
  <2>1. /\ path # <<"api">> /\ path # <<"api", "v1">> /\ path # <<"apis">>
        /\ path \notin Roots /\ Len(path) = 3
        /\ path[2] = g /\ path[3] = v
    BY DEF Roots
  <2> HIDE DEF path
  <2>2. DocumentAt(path) = ResourceList(path[2], path[3])
    BY <1>3, <2>1 DEF DocumentAt
  <2> QED
    BY <2>1, <2>2 DEF path
<1> QED
  BY <1>1, <1>2, <1>3

-----------------------------------------------------------------------------
(* What one document tells the client, filtered or not.                    *)

Answer(path) == FilterBody(cfg, path, DocumentAt(path))
Learns(path) == EntriesOf(Answer(path).doc)
Finds(path) == PathsFrom(Answer(path).doc)

LEMMA FromApi ==
  ASSUME style = "flat"
  PROVE  /\ Answer(<<"api">>).ok
         /\ Learns(<<"api">>) = {} /\ Finds(<<"api">>) = {}
<1> DEFINE doc == [kind |-> "APIVersions", wellFormed |-> TRUE]
<1>1. DocumentAt(<<"api">>) = doc
  BY Documents
<1>2. doc.kind = "APIVersions" /\ doc.wellFormed
  OBVIOUS
<1>3. Answer(<<"api">>) = Served(doc, doc)
  <2> HIDE DEF doc
  <2> QED
    BY <1>1, <1>2 DEF Answer, FilterBody
<1>4. Answer(<<"api">>).ok /\ Answer(<<"api">>).doc.kind = "APIVersions"
  <2> HIDE DEF doc
  <2> QED
    BY <1>2, <1>3 DEF Served
<1> QED
  BY <1>4 DEF Learns, Finds, EntriesOf, PathsFrom

LEMMA FromGroups ==
  ASSUME style = "flat"
  PROVE  /\ Answer(<<"apis">>).ok
         /\ Learns(<<"apis">>) = {}
         /\ Finds(<<"apis">>) =
               UNION {{<<"apis", g, v>> : v \in Versions(g)} :
                        g \in {h \in Groups : PermitsGroup(cfg, h)}}
<1> DEFINE doc == [kind |-> "APIGroupList", wellFormed |-> TRUE, groups |-> Groups]
           out == Answer(<<"apis">>).doc
<1>1. IsDiscoveryPath(<<"apis">>)
  BY DEF IsDiscoveryPath
<1>2. /\ Answer(<<"apis">>).ok
      /\ out.kind = "APIGroupList"
      /\ out.groups = {h \in Groups : PermitsGroup(cfg, h)}
  <2>0. DocumentAt(<<"apis">>) = doc
    BY Documents
  <2>k. doc.kind = "APIGroupList" /\ doc.wellFormed /\ doc.groups = Groups
    OBVIOUS
  <2>1. CASE cfg.mode = Strict
    <3>1. Answer(<<"apis">>) = Served(doc, filterGroupList(cfg, doc))
      <4> HIDE DEF doc
      <4> QED
        BY <1>1, <2>0, <2>k, <2>1 DEF Answer, FilterBody, Filters
    <3>2. /\ filterGroupList(cfg, doc).kind = "APIGroupList"
          /\ filterGroupList(cfg, doc).groups = {h \in Groups : PermitsGroup(cfg, h)}
      BY DEF filterGroupList
    <3> HIDE DEF doc
    <3> QED
      BY <3>1, <3>2 DEF Served
  <2>2. CASE cfg.mode # Strict
    <3>1. Answer(<<"apis">>) = Served(doc, doc)
      <4> HIDE DEF doc
      <4> QED
        BY <2>0, <2>2 DEF Answer, FilterBody, Filters
    <3>2. {h \in Groups : PermitsGroup(cfg, h)} = Groups
      BY <2>2 DEF PermitsGroup
    <3> QED
      BY <2>k, <3>1, <3>2 DEF Served
  <2> QED
    BY <2>1, <2>2
<1> QED
  BY <1>2 DEF Learns, Finds, EntriesOf, PathsFrom

\* Of the resources of a group version, the ones served.
LEMMA FromVersion ==
  ASSUME style = "flat", cluster \in Clusters, NEW path, NEW g, NEW v,
         IsDiscoveryPath(path), DocumentAt(path) = ResourceList(g, v)
  PROVE  /\ Answer(path).ok
         /\ Finds(path) = {}
         /\ Learns(path) = {e \in cluster : /\ e.group = g /\ e.version = v
                                            /\ cfg.mode # Strict \/ Fits(e)}
<1> DEFINE here == {f \in cluster : f.group = g /\ f.version = v}
           list == {[res |-> e.res, sub |-> e.sub] : e \in here}
           Served1(r) == cfg.mode # Strict \/ AuthorizesResourceKind(cfg, Probe(g, v, r.res, r.sub))
           out == Answer(path).doc
<1>1. /\ Answer(path).ok
      /\ out.kind = "APIResourceList" /\ out.group = g /\ out.version = v
      /\ out.resources = {r \in list : Served1(r)}
  <2>1. /\ ResourceList(g, v).kind = "APIResourceList" /\ ResourceList(g, v).wellFormed
        /\ ResourceList(g, v).group = g /\ ResourceList(g, v).version = v
        /\ ResourceList(g, v).resources = list
    BY DEF ResourceList
  <2>2. CASE cfg.mode = Strict
    <3>1. Answer(path) = Served(ResourceList(g, v), filterResourceList(cfg, ResourceList(g, v)))
      BY <2>1, <2>2 DEF Answer, FilterBody, Filters
    <3> DEFINE cut == filterResourceList(cfg, ResourceList(g, v))
    <3>2. /\ cut.kind = "APIResourceList" /\ cut.group = g /\ cut.version = v
          /\ cut.resources = {r \in list : AuthorizesResourceKind(cfg, Probe(g, v, r.res, r.sub))}
      BY DEF filterResourceList, ResourceList
    <3> QED
      BY <2>2, <3>1, <3>2 DEF Served
  <2>3. CASE cfg.mode # Strict
    <3>1. Answer(path) = Served(ResourceList(g, v), ResourceList(g, v))
      BY <2>3 DEF Answer, FilterBody, Filters
    <3> QED
      BY <2>1, <2>3, <3>1 DEF Served
  <2> QED
    BY <2>2, <2>3
<1>2. Finds(path) = {}
  BY <1>1 DEF Finds, PathsFrom
<1>3. Learns(path) = {[group |-> g, version |-> v, res |-> r.res, sub |-> r.sub] :
                        r \in {q \in list : Served1(q)}}
  BY <1>1 DEF Learns, EntriesOf
<1>4. ASSUME NEW x \in Learns(path)
      PROVE  x \in cluster /\ x.group = g /\ x.version = v /\ (cfg.mode # Strict \/ Fits(x))
  <2>1. PICK r \in list : Served1(r) /\ x = [group |-> g, version |-> v, res |-> r.res, sub |-> r.sub]
    BY <1>3, <1>4
  <2>2. PICK e \in here : r = [res |-> e.res, sub |-> e.sub]
    BY <2>1
  <2>3. x = Entry(e)
    BY <2>1, <2>2 DEF Entry
  <2>4. x = e
    BY <2>3, EntryFacts
  <2> QED
    BY <2>1, <2>2, <2>4 DEF Fits
<1>5. ASSUME NEW x \in cluster, x.group = g, x.version = v, cfg.mode # Strict \/ Fits(x)
      PROVE  x \in Learns(path)
  <2> DEFINE r == [res |-> x.res, sub |-> x.sub]
  <2>1. r \in list /\ r.res = x.res /\ r.sub = x.sub
    BY <1>5
  <2>2. Served1(r)
    BY <1>5, <2>1 DEF Fits
  <2>3. x = [group |-> g, version |-> v, res |-> r.res, sub |-> r.sub]
    BY <1>5, <2>1, EntryFacts DEF Entry
  <2> HIDE DEF r, list, Served1
  <2> QED
    BY <1>3, <2>1, <2>2, <2>3
<1> QED
  BY <1>1, <1>2, <1>4, <1>5

\* The shape of the aggregated documents, whole and filtered.
ListAt(g, v) == ResourceList(g, v).resources
ResourceAt(g, v, e) ==
  [res |-> e.res, subs |-> {s.sub : s \in {t \in ListAt(g, v) : t.res = e.res}} \ {""}]
VersionAt(g, v) == [version |-> v, resources |-> {ResourceAt(g, v, e) : e \in ListAt(g, v)}]

LEMMA Shape ==
  ASSUME NEW g
  PROVE  /\ AggregatedItem(g).group = g
         /\ AggregatedItem(g).versions = {VersionAt(g, v) : v \in Versions(g)}
  BY DEF AggregatedItem, VersionAt, ResourceAt, ListAt

LEMMA ShapeOfVersion ==
  ASSUME NEW g, NEW v
  PROVE  /\ VersionAt(g, v).version = v
         /\ VersionAt(g, v).resources = {ResourceAt(g, v, e) : e \in ListAt(g, v)}
  BY DEF VersionAt

LEMMA CutItem ==
  ASSUME NEW g
  PROVE  /\ filterAggregatedVersions(cfg, AggregatedItem(g)).group = g
         /\ filterAggregatedVersions(cfg, AggregatedItem(g)).versions =
              {filterAggregatedResources(cfg, g, VersionAt(g, w)) : w \in Versions(g)}
<1> DEFINE versions == {VersionAt(g, w) : w \in Versions(g)}
<1>1. AggregatedItem(g) = [group |-> g, versions |-> versions]
  BY DEF AggregatedItem, VersionAt, ResourceAt, ListAt
<1>2. /\ filterAggregatedVersions(cfg, AggregatedItem(g)).group = g
      /\ filterAggregatedVersions(cfg, AggregatedItem(g)).versions =
           {filterAggregatedResources(cfg, g, w) : w \in versions}
  <2> HIDE DEF versions
  <2> QED
    BY <1>1 DEF filterAggregatedVersions
<1> QED
  BY <1>2

LEMMA CutVersion ==
  ASSUME NEW g, NEW v
  PROVE  /\ filterAggregatedResources(cfg, g, VersionAt(g, v)).version = v
         /\ filterAggregatedResources(cfg, g, VersionAt(g, v)).resources =
              {filterAggregatedSubresources(cfg, g, v, r) :
                 r \in {q \in {ResourceAt(g, v, e) : e \in ListAt(g, v)} :
                          AuthorizesResourceKind(cfg, Probe(g, v, q.res, ""))}}
  BY DEF filterAggregatedResources, VersionAt

Cut(g, v, e) == filterAggregatedSubresources(cfg, g, v, ResourceAt(g, v, e))

LEMMA CutResource ==
  ASSUME NEW g, NEW v, NEW e
  PROVE  /\ ResourceAt(g, v, e).res = e.res
         /\ Cut(g, v, e).res = e.res
         /\ Cut(g, v, e).subs = {s \in ResourceAt(g, v, e).subs :
                                   AuthorizesResourceKind(cfg, ProbeGet(g, v, e.res, s))}
  BY DEF Cut, filterAggregatedSubresources, ResourceAt

\* The resources left of a version.
LEMMA CutResources ==
  ASSUME NEW g, NEW v, NEW r
  PROVE  r \in filterAggregatedResources(cfg, g, VersionAt(g, v)).resources <=>
           \E e \in ListAt(g, v) : /\ r = Cut(g, v, e)
                                   /\ AuthorizesResourceKind(cfg, Probe(g, v, e.res, ""))
<1> DEFINE all == {ResourceAt(g, v, e) : e \in ListAt(g, v)}
           Served1(q) == AuthorizesResourceKind(cfg, Probe(g, v, q.res, ""))
<1>1. filterAggregatedResources(cfg, g, VersionAt(g, v)).resources =
        {filterAggregatedSubresources(cfg, g, v, q) : q \in {p \in all : Served1(p)}}
  BY DEF filterAggregatedResources, VersionAt
<1>2. ASSUME NEW e PROVE Served1(ResourceAt(g, v, e))
                         <=> AuthorizesResourceKind(cfg, Probe(g, v, e.res, ""))
  <2>1. ResourceAt(g, v, e).res = e.res
    BY CutResource
  <2> QED
    BY <2>1
<1> HIDE DEF Served1
<1> QED
  BY <1>1, <1>2 DEF Cut

LEMMA FromAggregated ==
  ASSUME style = "aggregated", cluster \in Clusters, NEW path \in Roots
  PROVE  /\ Answer(path).ok
         /\ Finds(path) = {}
         /\ \A e \in Learns(path) : e \in cluster /\ (cfg.mode # Strict \/ Fits(e))
         /\ \A e \in cluster :
              /\ path = IF e.group = "" THEN <<"api">> ELSE <<"apis">>
              /\ cfg.mode # Strict \/ (Fits(e) /\ Fits(Whole(e)))
              => e \in Learns(path)
<1> DEFINE G == IF path = <<"api">> THEN {""} ELSE Groups
           doc == [kind |-> "APIGroupDiscoveryList", wellFormed |-> TRUE,
                   items |-> {AggregatedItem(g) : g \in G}]
           out == Answer(path).doc
           Told(e) == \E i \in out.items : \E v \in i.versions : \E r \in v.resources :
                         /\ e.group = i.group /\ e.version = v.version /\ e.res = r.res
                         /\ e.sub \in r.subs \union {""}
           cut == {filterAggregatedVersions(cfg, AggregatedItem(g)) :
                     g \in {h \in G : PermitsGroup(cfg, h)}}
<1>1. DocumentAt(path) = doc
  BY Documents
<1>2. doc.kind = "APIGroupDiscoveryList" /\ doc.wellFormed /\ doc.items = {AggregatedItem(g) : g \in G}
  OBVIOUS
<1>3. IsDiscoveryPath(path)
  BY DEF IsDiscoveryPath, Roots
<1>4. /\ Answer(path).ok
      /\ out.kind = "APIGroupDiscoveryList"
      /\ out.items = IF cfg.mode = Strict THEN cut ELSE {AggregatedItem(g) : g \in G}
  <2>1. CASE cfg.mode = Strict
    <3>1. Answer(path) = Served(doc, filterAggregatedDiscoveryList(cfg, doc))
      <4> HIDE DEF doc
      <4> QED
        BY <1>1, <1>2, <1>3, <2>1 DEF Answer, FilterBody, Filters
    <3>2. /\ filterAggregatedDiscoveryList(cfg, doc).kind = "APIGroupDiscoveryList"
          /\ filterAggregatedDiscoveryList(cfg, doc).items =
               {filterAggregatedVersions(cfg, i) : i \in {j \in doc.items : PermitsGroup(cfg, j.group)}}
      BY DEF filterAggregatedDiscoveryList
    <3>3. {filterAggregatedVersions(cfg, i) : i \in {j \in doc.items : PermitsGroup(cfg, j.group)}} = cut
      <4>1. \A g : AggregatedItem(g).group = g
        BY Shape
      <4> HIDE DEF G
      <4> QED
        BY <1>2, <4>1
    <3> DEFINE left == filterAggregatedDiscoveryList(cfg, doc)
    <3>4. Answer(path).ok /\ out = left
      <4> HIDE DEF doc, left
      <4> QED
        BY <3>1 DEF Served, left
    <3>5. left.kind = "APIGroupDiscoveryList" /\ left.items = cut
      BY <3>2, <3>3
    <3> HIDE DEF doc, cut, left, out
    <3> QED
      BY <2>1, <3>4, <3>5
  <2>2. CASE cfg.mode # Strict
    <3> HIDE DEF doc
    <3>1. Answer(path) = Served(doc, doc)
      BY <1>1, <2>2 DEF Answer, FilterBody, Filters
    <3>2. Answer(path).ok /\ out = doc
      BY <3>1 DEF Served
    <3> HIDE DEF out, G
    <3> QED
      BY <1>2, <2>2, <3>2
  <2> QED
    BY <2>1, <2>2
<1>5. Finds(path) = {} /\ Learns(path) = {e \in cluster : Told(e)}
  BY <1>4 DEF Finds, PathsFrom, Learns, EntriesOf
<1>6. ASSUME NEW e \in cluster, Told(e), cfg.mode = Strict PROVE Fits(e)
  <2> DEFINE Carries(r) == e.res = r.res /\ e.sub \in r.subs \union {""}
  <2>a. PICK i \in cut : \E w \in i.versions : \E r \in w.resources :
          e.group = i.group /\ e.version = w.version /\ Carries(r)
    <3> HIDE DEF cut
    <3> QED
      BY <1>4, <1>6
  <2>b. PICK g \in G : i = filterAggregatedVersions(cfg, AggregatedItem(g))
    OBVIOUS
  <2>c. i.group = g
        /\ i.versions = {filterAggregatedResources(cfg, g, VersionAt(g, v)) : v \in Versions(g)}
    BY <2>b, CutItem
  <2>d. PICK v \in Versions(g) :
          \E r \in filterAggregatedResources(cfg, g, VersionAt(g, v)).resources :
             e.version = filterAggregatedResources(cfg, g, VersionAt(g, v)).version /\ Carries(r)
    <3> HIDE DEF Carries
    <3> QED
      BY <2>a, <2>c
  <2>1. PICK r \in filterAggregatedResources(cfg, g, VersionAt(g, v)).resources :
          /\ e.group = g /\ e.version = v /\ e.res = r.res /\ e.sub \in r.subs \union {""}
    <3>1. filterAggregatedResources(cfg, g, VersionAt(g, v)).version = v
      BY CutVersion
    <3> HIDE DEF cut
    <3> QED
      BY <2>a, <2>c, <2>d, <3>1
  <2>2. PICK f \in ListAt(g, v) :
          r = Cut(g, v, f) /\ AuthorizesResourceKind(cfg, Probe(g, v, f.res, ""))
    BY <2>1, CutResources
  <2>3. "" \notin ResourceAt(g, v, f).subs
    BY DEF ResourceAt
  <2>4. /\ r.res = f.res
        /\ \A s \in r.subs : s # "" /\ AuthorizesResourceKind(cfg, ProbeGet(g, v, f.res, s))
    <3>1. /\ Cut(g, v, f).res = f.res
          /\ \A s \in Cut(g, v, f).subs : /\ s \in ResourceAt(g, v, f).subs
                                         /\ AuthorizesResourceKind(cfg, ProbeGet(g, v, f.res, s))
      BY DEF Cut, filterAggregatedSubresources, ResourceAt
    <3> QED
      BY <2>2, <2>3, <3>1
  <2>5. CASE e.sub = ""
    BY <2>1, <2>2, <2>3, <2>4, <2>5 DEF Fits
  <2>6. CASE e.sub # ""
    <3>1. AuthorizesResourceKind(cfg, ProbeGet(g, v, e.res, e.sub))
      BY <2>1, <2>4, <2>6
    <3> QED
      BY <2>1, <2>6, <3>1, ProbingGet, FieldsDecide DEF Fits
  <2> QED
    BY <2>5, <2>6
<1>7. ASSUME NEW e \in cluster, path = IF e.group = "" THEN <<"api">> ELSE <<"apis">>,
             cfg.mode # Strict \/ (Fits(e) /\ Fits(Whole(e)))
      PROVE  Told(e)
  <2> DEFINE g == e.group
             v == e.version
             whole == [res |-> e.res, sub |-> ""]
             r == ResourceAt(g, v, whole)
  <2>1. g \in G /\ v \in Versions(g)
    BY <1>7 DEF Groups, Versions
  <2>2. whole \in ListAt(g, v) /\ [res |-> e.res, sub |-> e.sub] \in ListAt(g, v)
    <3>1. ListAt(g, v) = {[res |-> f.res, sub |-> f.sub] :
                            f \in {h \in cluster : h.group = g /\ h.version = v}}
      BY DEF ListAt, ResourceList
    <3> QED
      BY <3>1, EntryFacts
  <2>3. /\ r.res = e.res
        /\ r.subs = {s.sub : s \in {t \in ListAt(g, v) : t.res = e.res}} \ {""}
    BY DEF ResourceAt
  <2>4. e.sub \in r.subs \union {""}
    <3> DEFINE t == [res |-> e.res, sub |-> e.sub]
    <3>1. t \in ListAt(g, v) /\ t.res = e.res /\ t.sub = e.sub
      BY <2>2
    <3> HIDE DEF t, g, v, r
    <3> QED
      BY <2>3, <3>1
  <2>5. CASE cfg.mode # Strict
    <3>1. AggregatedItem(g) \in out.items
      BY <1>4, <2>1, <2>5
    <3>2. VersionAt(g, v) \in AggregatedItem(g).versions /\ AggregatedItem(g).group = g
      <4> HIDE DEF g, v
      <4> QED
        BY <2>1, Shape
    <3>3. r \in VersionAt(g, v).resources /\ VersionAt(g, v).version = v
      <4> HIDE DEF g, v, whole
      <4> QED
        BY <2>2, ShapeOfVersion
    <3> HIDE DEF out, r, g, v
    <3> QED
      BY <2>3, <2>4, <3>1, <3>2, <3>3 DEF g, v
  <2>6. CASE cfg.mode = Strict
    <3> DEFINE i == filterAggregatedVersions(cfg, AggregatedItem(g))
               w == filterAggregatedResources(cfg, g, VersionAt(g, v))
               q == Cut(g, v, whole)
    <3>1. AuthorizesResourceKind(cfg, Probe(g, v, e.res, ""))
      BY <1>7, <2>6, EntryFacts DEF Fits
    <3>2. PermitsGroup(cfg, g)
      BY <3>1, GroupKept
    <3>3. i \in out.items
      BY <1>4, <2>1, <2>6, <3>2
    <3>4. w \in i.versions /\ i.group = g
      <4> HIDE DEF g, v
      <4> QED
        BY <2>1, CutItem
    <3>5. q \in w.resources /\ w.version = v
      <4>1. whole.res = e.res
        OBVIOUS
      <4> HIDE DEF g, v, whole
      <4> QED
        BY <2>2, <3>1, <4>1, CutResources, CutVersion
    <3>6. /\ q.res = e.res
          /\ q.subs = {s \in r.subs : AuthorizesResourceKind(cfg, ProbeGet(g, v, e.res, s))}
      <4>1. whole.res = e.res
        OBVIOUS
      <4> HIDE DEF g, v, whole
      <4> QED
        BY <4>1, CutResource
    <3>7. e.sub # "" => AuthorizesResourceKind(cfg, ProbeGet(g, v, e.res, e.sub))
      <4>1. SUFFICES ASSUME e.sub # "" PROVE AuthorizesResourceKind(cfg, ProbeGet(g, v, e.res, e.sub))
        OBVIOUS
      <4>2. Fits(e)
        BY <1>7, <2>6
      <4> QED
        <5>1. SameRequest(ProbeGet(g, v, e.res, e.sub), Probe(g, v, e.res, e.sub))
          BY <4>1, ProbingGet
        <5> QED
          BY <4>2, <5>1, FieldsDecide DEF Fits
    <3>8. e.sub \in q.subs \union {""}
      BY <2>4, <3>6, <3>7
    <3> HIDE DEF out, i, w, q
    <3> QED
      BY <3>3, <3>4, <3>5, <3>6, <3>8
  <2> QED
    BY <2>5, <2>6
<1> QED
  BY <1>4, <1>5, <1>6, <1>7

-----------------------------------------------------------------------------
(* The walk.  A document still to be fetched is one of the walk's own, so  *)
(* nothing fails; what a client is shown it can read; and of what it must  *)
(* be shown, what is not shown yet has its document ahead, or, in the flat *)
(* format, the list of groups that leads there.                            *)

Home(e) == IF style = "aggregated" THEN IF e.group = "" THEN <<"api">> ELSE <<"apis">>
           ELSE IF e.group = "" THEN <<"api", "v1">> ELSE VersionPath(e)

Ahead(e) == \/ Home(e) \in todo
            \/ style = "flat" /\ e.group # "" /\ <<"apis">> \in todo

WalkInv ==
  /\ cluster \in Clusters /\ style \in {"flat", "aggregated"}
  /\ todo \subseteq Walk
  /\ failed \subseteq {<<"apis", g>> : g \in Groups}
  /\ shown \subseteq cluster
  /\ \A e \in shown : cfg.mode # Strict \/ Fits(e)
  /\ \A e \in cluster : (cfg.mode # Strict \/ (Fits(e) /\ Fits(Whole(e)))) => e \in shown \/ Ahead(e)

\* What the document of a path of the walk tells.
LEMMA OneDocument ==
  ASSUME cluster \in Clusters, style \in {"flat", "aggregated"}, NEW path \in Walk
  PROVE  /\ Answer(path).ok
         /\ Finds(path) \subseteq Walk
         /\ \A e \in Learns(path) : e \in cluster /\ (cfg.mode # Strict \/ Fits(e))
         /\ \A e \in cluster :
              (cfg.mode # Strict \/ (Fits(e) /\ Fits(Whole(e)))) =>
                /\ path = Home(e) => e \in Learns(path)
                /\ style = "flat" /\ e.group # "" /\ path = <<"apis">> => Home(e) \in Finds(path)
<1>1. CASE style = "aggregated"
  <2>1. path \in Roots
    BY <1>1 DEF Walk
  <2>2. \A e \in cluster : path = Home(e) => path = IF e.group = "" THEN <<"api">> ELSE <<"apis">>
    BY <1>1 DEF Home
  <2> QED
    BY <1>1, <2>1, <2>2, FromAggregated
<1>2. CASE style = "flat" /\ path = <<"api">>
  <2>1. \A e : Home(e) # path
    BY <1>2, PathsDiffer DEF Home, VersionPath
  <2> QED
    BY <1>2, <2>1, FromApi, PathsDiffer
<1>3. CASE style = "flat" /\ path = <<"apis">>
  <2>1. \A e : Home(e) # path
    BY <1>3, PathsDiffer DEF Home, VersionPath, Roots
  <2>2. Finds(path) \subseteq VersionPaths
    <3> SUFFICES ASSUME NEW x \in Finds(path) PROVE x \in VersionPaths
      OBVIOUS
    <3>1. PICK g \in Groups : \E v \in Versions(g) : x = <<"apis", g, v>>
      BY <1>3, FromGroups
    <3>2. PICK v \in Versions(g) : x = <<"apis", g, v>>
      BY <3>1
    <3>3. PICK e \in cluster : e.group = g /\ e.version = v
      BY <3>2 DEF Versions
    <3> QED
      BY <3>1, <3>2, <3>3 DEF VersionPaths, VersionPath, Groups
  <2>3. ASSUME NEW e \in cluster, cfg.mode # Strict \/ Fits(e), e.group # ""
        PROVE  Home(e) \in Finds(path)
    <3>1. e.group \in Groups /\ e.version \in Versions(e.group)
      BY <2>3 DEF Groups, Versions
    <3>2. PermitsGroup(cfg, e.group)
      <4>1. CASE cfg.mode # Strict
        BY <4>1 DEF PermitsGroup
      <4>2. CASE Fits(e)
        BY <4>2, GroupKept DEF Fits
      <4> QED
        BY <2>3, <4>1, <4>2
    <3>3. Home(e) = <<"apis", e.group, e.version>>
      BY <1>3, <2>3 DEF Home, VersionPath
    <3> QED
      BY <1>3, <3>1, <3>2, <3>3, FromGroups
  <2>4. Answer(path).ok /\ Learns(path) = {}
    BY <1>3, FromGroups
  <2>5. Finds(path) \subseteq Walk
    BY <1>3, <2>2 DEF Walk
  <2> QED
    BY <2>1, <2>3, <2>4, <2>5
<1>4. ASSUME style = "flat", NEW g, NEW v, DocumentAt(path) = ResourceList(g, v), path # <<"apis">>,
             \A e \in cluster : path = Home(e) => e.group = g /\ e.version = v
      PROVE  /\ Answer(path).ok
             /\ Finds(path) \subseteq Walk
             /\ \A e \in Learns(path) : e \in cluster /\ (cfg.mode # Strict \/ Fits(e))
             /\ \A e \in cluster :
                  (cfg.mode # Strict \/ (Fits(e) /\ Fits(Whole(e)))) =>
                    (path = Home(e) => e \in Learns(path))
  <2>1. IsDiscoveryPath(path)
    BY WalkDiscovers
  <2> QED
    BY <1>4, <2>1, FromVersion
<1>5. CASE style = "flat" /\ path = <<"api", "v1">>
  <2>1. DocumentAt(path) = ResourceList("", "v1")
    BY <1>5, Documents
  <2>2. \A e \in cluster : path = Home(e) => e.group = "" /\ e.version = "v1"
    BY <1>5, PathsDiffer, EntryFacts DEF Home, VersionPath
  <2>3. path # <<"apis">>
    BY <1>5
  <2> QED
    BY <1>4, <1>5, <2>1, <2>2, <2>3
<1>6. CASE style = "flat" /\ path \in VersionPaths
  <2>1. PICK f \in cluster : f.group # "" /\ path = <<"apis", f.group, f.version>>
    BY <1>6 DEF VersionPaths, VersionPath
  <2>2. DocumentAt(path) = ResourceList(f.group, f.version)
    BY <1>6, <2>1, Documents
  <2>3. ASSUME NEW e \in cluster, path = Home(e) PROVE e.group = f.group /\ e.version = f.version
    <3>1. e.group # ""
      BY <1>6, <2>1, <2>3, PathsDiffer DEF Home
    <3>2. path = <<"apis", e.group, e.version>>
      BY <1>6, <2>3, <3>1 DEF Home, VersionPath
    <3>3. /\ path[2] = e.group /\ path[3] = e.version
      BY <3>2
    <3>4. path[2] = f.group /\ path[3] = f.version
      BY <2>1
    <3> QED
      BY <3>3, <3>4
  <2>4. path # <<"apis">>
    BY <2>1, PathsDiffer DEF Roots
  <2> QED
    BY <1>4, <1>6, <2>2, <2>3, <2>4
<1> QED
  BY <1>1, <1>2, <1>3, <1>5, <1>6 DEF Walk, Roots

LEMMA WalkStarts == Init => WalkInv
<1> SUFFICES ASSUME Init PROVE WalkInv
  OBVIOUS
<1>1. todo \subseteq Walk
  BY DEF Init, Walk
<1>2. \A e \in cluster : Ahead(e)
  BY DEF Init, Ahead, Home, Roots
<1> QED
  BY <1>1, <1>2 DEF Init, WalkInv

LEMMA WalkStep == WalkInv /\ [Next]_vars => WalkInv'
<1> SUFFICES ASSUME WalkInv, [Next]_vars PROVE WalkInv'
  OBVIOUS
<1>0. CASE UNCHANGED vars
  BY <1>0 DEF vars, WalkInv, Walk, VersionPaths, VersionPath, Groups, Ahead, Home, Fits, Whole
<1>s. ASSUME UNCHANGED <<cfg, cluster, style>>
      PROVE  /\ Walk' = Walk /\ Groups' = Groups
             /\ \A e : (Fits(e)' <=> Fits(e)) /\ Home(e)' = Home(e)
  BY <1>s DEF Walk, VersionPaths, VersionPath, Groups, Home, Fits
<1>1. ASSUME NEW path \in todo, Fetch(path) PROVE WalkInv'
  <2>1. path \in Walk
    BY DEF WalkInv
  <2>2. /\ todo' = (todo \ {path}) \union Finds(path)
        /\ shown' = shown \union Learns(path)
        /\ UNCHANGED <<failed, cfg, cluster, style>>
    BY <1>1, <2>1, OneDocument DEF WalkInv, Fetch, Answer, Learns, Finds
  <2>3. todo' \subseteq Walk /\ shown' \subseteq cluster
        /\ \A e \in shown' : cfg.mode # Strict \/ Fits(e)
    BY <2>1, <2>2, OneDocument DEF WalkInv
  <2>4. ASSUME NEW e \in cluster, cfg.mode # Strict \/ (Fits(e) /\ Fits(Whole(e)))
        PROVE  e \in shown' \/ Ahead(e)'
    <3>1. CASE e \in shown
      BY <2>2, <3>1
    <3>2. CASE Home(e) \in todo
      <4>1. path = Home(e) => e \in Learns(path)
        BY <2>1, <2>4, OneDocument DEF WalkInv
      <4> QED
        BY <1>s, <2>2, <3>2, <4>1 DEF Ahead
    <3>3. CASE style = "flat" /\ e.group # "" /\ <<"apis">> \in todo
      <4>1. path = <<"apis">> => Home(e) \in Finds(path)
        BY <2>1, <2>4, <3>3, OneDocument DEF WalkInv
      <4> QED
        BY <1>s, <2>2, <3>3, <4>1 DEF Ahead
    <3> QED
      BY <2>4, <3>1, <3>2, <3>3 DEF WalkInv, Ahead
  <2> QED
    BY <1>s, <2>2, <2>3, <2>4 DEF WalkInv, Whole
<1>2. ASSUME NEW group \in Groups, AskForGroup(group) PROVE WalkInv'
  <2>1. /\ failed' = failed \union {<<"apis", group>>}
        /\ UNCHANGED <<cfg, cluster, style, todo, shown>>
    BY <1>2 DEF AskForGroup
  <2>2. \A e : Ahead(e)' <=> Ahead(e)
    BY <1>s, <2>1 DEF Ahead
  <2> QED
    BY <1>s, <2>1, <2>2 DEF WalkInv, Whole
<1> QED
  BY <1>0, <1>1, <1>2 DEF Next

LEMMA WalkHolds == Spec => []WalkInv
  BY WalkStarts, WalkStep, PTL DEF Spec

\* Every path of a walk, and every group's own, is spelled with names of the catalogue.
LEMMA WalkSpelled ==
  /\ Walk \subseteq Seq(Segments)
  /\ \A g \in Groups : <<"apis", g>> \in Seq(Segments) /\ IsDiscoveryPath(<<"apis", g>>)
<1>1. Roots \union {<<"api", "v1">>} \subseteq Seq(Segments)
  <2>1. "api" \in Segments /\ "apis" \in Segments /\ "v1" \in Segments
    BY DEF Segments
  <2> HIDE DEF Segments
  <2> QED
    BY <2>1 DEF Roots
<1>2. ASSUME NEW e \in cluster, e.group # "" PROVE VersionPath(e) \in Seq(Segments)
  <2>1. e.group \in Groups /\ e.version \in Versions(e.group)
    BY <1>2 DEF Groups, Versions
  <2>2. "apis" \in Segments /\ e.group \in Segments /\ e.version \in Segments
    BY <2>1 DEF Segments
  <2> QED
    BY <2>2 DEF VersionPath
<1>3. ASSUME NEW g \in Groups
      PROVE  <<"apis", g>> \in Seq(Segments) /\ IsDiscoveryPath(<<"apis", g>>)
  <2>1. "apis" \in Segments /\ g \in Segments
    BY DEF Segments
  <2> QED
    BY <2>1 DEF IsDiscoveryPath
<1> QED
  BY <1>1, <1>2, <1>3 DEF Walk, VersionPaths

\* A client asks only for discovery documents of groups and versions the cluster
\* has, and is shown only what is in the catalogue.
THEOREM AdvertiseTypes == Spec => []TypeOK
<1>1. (cfg \in Configs) /\ [Next]_vars => (cfg \in Configs)'
  BY DEF Next, vars, Fetch, AskForGroup
<1>2. Init => cfg \in Configs
  BY DEF Init
<1>3. WalkInv /\ cfg \in Configs => TypeOK
  BY WalkSpelled, WalkDiscovers DEF WalkInv, TypeOK
<1> QED
  BY <1>1, <1>2, <1>3, WalkHolds, PTL DEF Spec

-----------------------------------------------------------------------------
\* A client is never shown a resource it cannot read.
THEOREM ShownWorksHolds == Spec => []ShownWorks
<1>1. WalkInv => ShownWorks
  <2> SUFFICES ASSUME WalkInv, NEW e \in shown, cfg.mode = Strict PROVE Lists(e) \/ Gets(e)
    BY DEF ShownWorks
  <2>1. Fits(e)
    BY DEF WalkInv
  <2> QED
    BY <2>1, Probes
<1> QED
  BY <1>1, WalkHolds, PTL

\* However a walk is ordered, it ends with everything shown that can be listed,
\* and every readable subresource of that.
THEOREM WorksShownHolds == Spec => []WorksShown
<1>1. WalkInv => WorksShown
  <2> SUFFICES ASSUME WalkInv, Done, NEW e \in cluster,
                      Lists(e) \/ (Gets(e) /\ Lists([e EXCEPT !.sub = ""]))
               PROVE  e \in shown
    BY DEF WorksShown, WalkInv
  <2>1. CASE Lists(e)
    <3>1. e.sub = "" /\ Fits(e)
      BY <2>1, Probes
    <3>2. Fits(Whole(e))
      BY <3>1, EntryFacts DEF Fits, WalkInv
    <3> QED
      BY <3>1, <3>2 DEF WalkInv, Done, Ahead
  <2>2. CASE Gets(e) /\ Lists(Whole(e))
    <3>1. Fits(e) /\ Fits(Whole(e))
      BY <2>2, Probes
    <3> QED
      BY <3>1 DEF WalkInv, Done, Ahead
  <2> QED
    BY <2>1, <2>2 DEF Whole
<1> QED
  BY <1>1, WalkHolds, PTL

\* In the denylist modes the whole catalogue is shown.
THEOREM LooseUntouchedHolds == Spec => []LooseUntouched
<1>1. WalkInv => LooseUntouched
  BY DEF WalkInv, LooseUntouched, Done, Ahead
<1> QED
  BY <1>1, WalkHolds, PTL
=============================================================================
