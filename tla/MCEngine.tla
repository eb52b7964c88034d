------------------------------ MODULE MCEngine ------------------------------
(***************************************************************************)
(* Engine on a small instance: extension files good and bad, and requests  *)
(* parsed from paths of every shape the URL grammar knows.                 *)
(***************************************************************************)
EXTENDS Engine, ReqInfo

E(res, sub) == [res |-> res, sub |-> sub]

\* One rule per way an extension file can be right or wrong.
MCRules ==
    { Rule({"ext.io"}, {E("widgets", "")}, {"get", "list"}),
      Rule({"ext.io", "apps"}, {E("widgets", "status"), E("pods", "eviction")}, {"get"}),
      Rule({"ext.io"}, {E("serviceaccounts", "token"), E("certificatesigningrequests", "")},
           readVerbs),
      Rule({""}, {E("endpoints", ""), E("services", "status")}, {"watch"}),
      Rule({""}, {E("serviceaccounts", "token")}, {"get"}),
      Rule({"ext.io"}, {E("widgets", "exec")}, {"get"}),
      Rule({""}, {E("secrets", "")}, {"list"}),
      Rule({"ext.io"}, {E("secrets", "status")}, {"get"}),
      Rule({"*"}, {E("widgets", "")}, {"get"}),
      Rule({"ext.io"}, {E("*", "")}, {"get"}),
      Rule({"ext.io"}, {E("widgets", "*")}, {"get"}),
      Rule({"certificates.k8s.io"}, {E("certificatesigningrequests", "")}, {"get"}),
      Rule({"ext.io"}, {E("widgets", "")}, {"get", "create"}),
      Rule({"ext.io"}, {E("widgets", "")}, {}),
      Rule({"ext.io"}, {}, {"get"}) }

MCFiles == { {r} : r \in MCRules } \union
           { {}, {Rule({"ext.io"}, {E("widgets", "")}, {"get", "list"}),
                  Rule({""}, {E("secrets", "")}, {"list"})} }

MCScoper ==
    [k \in {<<"", "v1", "pods">>, <<"", "v1", "secrets">>, <<"", "v1", "nodes">>,
            <<"ext.io", "v1", "widgets">>} |-> k[3] # "nodes"]

MCOptions ==
    { [mode |-> m, namespaces |-> n, policy |-> FALSE, rules |-> {}, scoper |-> MCScoper] :
        m \in Modes \union {"bogus"}, n \in {{}, {"app"}} } \union
    { [mode |-> m, namespaces |-> {}, policy |-> TRUE, rules |-> f, scoper |-> MCScoper] :
        m \in {Strict, "rw"}, f \in MCFiles }

Roots == { <<"api", "v1">>, <<"apis", "apps", "v1">>, <<"apis", "ext.io", "v1">>,
           <<"apis", "certificates.k8s.io", "v1">> }
Prefixes == { <<>>, <<"watch">>, <<"proxy">> }
Scopes == { <<>>, <<"namespaces", "app">>, <<"namespaces", "other">> }
Kinds == { "pods", "secrets", "serviceaccounts", "nodes", "widgets",
           "certificatesigningrequests", "" }
Tails == { <<>>, <<"x">> } \union
         { <<"x", s>> : s \in {"log", "exec", "proxy", "token", "status", "approval"} }
ResourcePaths == { r \o p \o s \o <<k>> \o t :
                     r \in Roots, p \in Prefixes, s \in Scopes, k \in Kinds, t \in Tails }

Words == { "api", "apis", "v1", "apps", "openapi", "v3", "version", "logs", "" }
ShortPaths == { <<a>> : a \in Words } \union { <<a, b>> : a, b \in Words } \union
              { <<a, b, c>> : a, b, c \in Words } \union
              { <<"openapi", "v3", a, b>> : a, b \in Words } \union
              { <<"apis", a, b, c>> : a, b, c \in Words }

Queries == [method : {"GET"}, path : ShortPaths \union ResourcePaths, watch : BOOLEAN]
           \union [method : {"POST", "DELETE", "OPTIONS"}, path : ResourcePaths,
                   watch : {FALSE}]

MCRequests == {Parse(q) : q \in {k \in Queries : Parse(k) # Unparsable}}
=============================================================================
