------------------------------- MODULE ReqInfo -------------------------------
(***************************************************************************)
(* How an HTTP request becomes a policy.Request.  internal/reqinfo hands   *)
(* the parsing to the apiserver's RequestInfoFactory, configured with the  *)
(* prefixes api (groupless) and apis; the factory is a library outside     *)
(* this repository and is modelled from its documented URL grammar and     *)
(* from the shapes internal/reqinfo's tests and the policy comments record.*)
(*                                                                         *)
(* A query is [method, path, watch]: the HTTP method, the path's segments  *)
(* and whether ?watch is set.                                              *)
(***************************************************************************)
EXTENDS Integers, Sequences

Unparsable == [unparsable |-> TRUE]

\* splitPath drops leading and trailing slashes, and keeps inner doubled ones.
Parts(path) ==
    LET named == {i \in DOMAIN path : path[i] # ""}
        first == CHOOSE i \in named : \A j \in named : i <= j
        last  == CHOOSE i \in named : \A j \in named : i >= j
    IN  IF named = {} THEN <<>> ELSE SubSeq(path, first, last)

MethodVerb(method) ==
    CASE method = "POST" -> "create"
      [] method \in {"GET", "HEAD"} -> "get"
      [] method = "PUT" -> "update"
      [] method = "PATCH" -> "patch"
      [] method = "DELETE" -> "delete"
      [] OTHER -> ""

specialVerbs == {"proxy", "watch"}

\* A named object keeps its verb; a collection is listed, watched or deleted whole.
CollectionVerb(verb, watch) ==
    CASE verb = "get" -> IF watch THEN "watch" ELSE "list"
      [] verb = "delete" -> "deletecollection"
      [] OTHER -> verb

\* rest is what follows /api/<version> or /apis/<group>/<version>.
ParseResource(q, group, version, rest) ==
    LET special == rest[1] \in specialVerbs
        verb == IF special THEN rest[1] ELSE MethodVerb(q.method)
        rel == IF special THEN Tail(rest) ELSE rest
        scoped == rel[1] = "namespaces" /\ Len(rel) > 1
        object == IF scoped /\ Len(rel) > 2 /\ rel[3] \notin {"status", "finalize"}
                  THEN SubSeq(rel, 3, Len(rel)) ELSE rel
        name == IF Len(object) >= 2 THEN object[2] ELSE ""
    IN  [isResource |-> TRUE, path |-> q.path,
         verb |-> IF name = "" THEN CollectionVerb(verb, q.watch) ELSE verb,
         group |-> group, version |-> version, resource |-> object[1],
         sub |-> IF Len(object) >= 3 /\ verb # "proxy" THEN object[3] ELSE "",
         ns |-> IF scoped THEN rel[2] ELSE ""]

NonResource(q) ==
    [isResource |-> FALSE, path |-> q.path, verb |-> MethodVerb(q.method), group |-> "",
     version |-> "", resource |-> "", sub |-> "", ns |-> ""]

Parse(q) ==
    LET parts == Parts(q.path)
        grouped == parts[1] = "apis"
        rest == SubSeq(parts, IF grouped THEN 4 ELSE 3, Len(parts))
    IN  IF Len(parts) < 3 \/ parts[1] \notin {"api", "apis"} \/ (grouped /\ Len(parts) < 4)
        THEN NonResource(q)
        ELSE IF Len(rest) = 1 /\ rest[1] \in specialVerbs THEN Unparsable
        ELSE IF grouped THEN ParseResource(q, parts[2], parts[3], rest)
        ELSE ParseResource(q, "", parts[2], rest)
=============================================================================
