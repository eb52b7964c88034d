----------------------------- MODULE MCAdvertise -----------------------------
(* Advertise on small catalogues, with extension files that grant a whole   *)
(* resource, a subresource, or a get alone.                                 *)
EXTENDS Advertise

C(group, res, sub) == [group |-> group, version |-> "v1", res |-> res, sub |-> sub]

Core == { C("", "pods", ""), C("", "pods", "log"), C("", "pods", "exec"),
          C("", "secrets", ""), C("", "serviceaccounts", ""),
          C("", "serviceaccounts", "token") }
Apps == { C("apps", "deployments", ""), C("apps", "deployments", "status"),
          C("apps", "deployments", "scale") }
Rbac == { C("rbac.authorization.k8s.io", "roles", "") }
Ext == { C("ext.io", "widgets", ""), C("ext.io", "widgets", "status"),
         C("ext.io", "gadgets", "") }
ExtV2 == { [e EXCEPT !.version = "v2"] : e \in Ext }

MCClusters == { Core, Core \union Apps \union Rbac,
                Core \union Apps \union Rbac \union Ext \union ExtV2 }

Extension(resources, verbs) == {Rule({"ext.io"}, resources, verbs)}
Widgets == [res |-> "widgets", sub |-> ""]
Status == [res |-> "widgets", sub |-> "status"]

Config(mode, extra) ==
    [mode |-> mode, namespaces |-> {"app"}, extra |-> extra, scoper |-> <<>>]

MCConfigs == { Config(m, {}) : m \in Modes } \union
             { Config(Strict, Extension({Widgets, Status}, readVerbs)),
               Config(Strict, Extension({Widgets}, {"list"})),
               Config(Strict, Extension({Widgets, Status}, {"get"})),
               Config(Strict, Extension({Status}, {"get"})) }

ASSUME AllAccepted ==
    \A c \in MCConfigs : c.extra = {} \/ ValidateExtension(c.extra)
=============================================================================
