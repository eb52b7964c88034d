----------------------------- MODULE MCHandler -----------------------------
(***************************************************************************)
(* Handler with one slot that meets every kind of request and response,    *)
(* and a second one that competes with it for the audit log.               *)
(***************************************************************************)
EXTENDS Handler, ReqInfo

Cfg(mode) == [mode |-> mode, namespaces |-> {}, extra |-> {}, scoper |-> <<>>]
MCConfigs == { Cfg(Strict), Cfg("rw") }

Get(path, watch) == [method |-> "GET", path |-> path, watch |-> watch]
Post(path) == [method |-> "POST", path |-> path, watch |-> FALSE]

\* An ordinary client: the token, plain headers, no body.
Ask(q) == [upgrade |-> FALSE, token |-> TRUE, parsed |-> Parse(q) # Unparsable,
           req |-> IF Parse(q) = Unparsable THEN NonResource(q) ELSE Parse(q),
           watch |-> q.watch, follow |-> FALSE, headers |-> {"authorization", "user-agent"},
           accept |-> {"json"}, declared |-> 0, size |-> 0]

Pods == <<"api", "v1", "namespaces", "app", "pods">>
ListPods == Ask(Get(Pods, FALSE))

MCInputs(s) ==
    IF s = "a" THEN
      { ListPods,
        [ListPods EXCEPT !.upgrade = TRUE],
        [ListPods EXCEPT !.token = FALSE],
        [ListPods EXCEPT !.accept = {"yaml", "protobuf"}],
        [ListPods EXCEPT !.accept = {"*/*", "yaml"},
                         !.headers = @ \union {"impersonate-user", "x-remote-user"}],
        [ListPods EXCEPT !.accept = {}],
        Ask(Get(Pods, TRUE)),
        [Ask(Get(Pods, TRUE)) EXCEPT !.accept = {"json;as=Table", "json"}],
        [ListPods EXCEPT !.accept = {"json;as=Table", "json"}],
        Ask(Get(<<"api", "v1", "watch">>, FALSE)),
        Ask(Get(<<"api", "v1", "secrets">>, FALSE)),
        Ask(Get(<<"api", "v1", "namespaces", "app", "services", "x", "proxy">>, FALSE)),
        Ask(Get(<<"apis">>, TRUE)),
        Ask(Get(<<"openapi", "v3">>, FALSE)),
        [Ask(Get(Pods \o <<"x", "log">>, FALSE)) EXCEPT !.follow = TRUE],
        [Ask(Post(Pods)) EXCEPT !.declared = BodyCap, !.size = BodyCap],
        [Ask(Post(Pods)) EXCEPT !.declared = BodyCap + 1, !.size = BodyCap + 1],
        [Ask(Post(Pods)) EXCEPT !.declared = -1, !.size = BodyCap + 1] }
    ELSE { ListPods, [ListPods EXCEPT !.token = FALSE] }

R(code, json, body) == [code |-> code, json |-> json, body |-> body]

MCReplies(s) ==
    IF s = "a" THEN
      { R(200, TRUE, <<"clean", "dirty">>),
        R(200, TRUE, <<"dirty", "bad">>),
        R(200, TRUE, <<"rows", "dirty">>),
        R(200, TRUE, <<"clean", "clean", "dirty">>),
        R(200, TRUE, <<"dirty", "cut">>),
        R(200, TRUE, <<"clean", "clean", "clean", "cut">>),
        R(200, FALSE, <<"dirty">>),
        R(429, FALSE, <<"clean">>),
        R(401, TRUE, <<"bad">>),
        R(429, TRUE, <<"clean", "clean", "clean">>) }
    ELSE { R(200, TRUE, <<"dirty">>) }

InputsOf == [s \in Slots |-> MCInputs(s)]
RepliesOf == [s \in Slots |-> MCReplies(s)]
=============================================================================
