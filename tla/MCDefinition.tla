---------------------------- MODULE MCDefinition ----------------------------
(***************************************************************************)
(* An instance of Definition: one parameter "p" of any type or none, an    *)
(* optional step "a", and a step "b" whose params refer to either in every *)
(* way; and the definition it may be edited to, which wants a parameter    *)
(* nobody supplies.                                                        *)
(***************************************************************************)
EXTENDS Definition

MCStrings == {"", "true", "app", "service", "job", "OnDemand", "Cron", "serviceAccount", "oidc", "filtered",
              "[]", "[entrypoints]", "[objects]", "x", "80", "img:1", "made"}
MCEntrypointName == [s \in MCStrings |-> IF s = "oidc" THEN "job" ELSE s]
MCMade == [k \in {"name", "buildId", "artifactName", "artifactId", "version", "tag", "runnerImage"} |->
            IF k \in {"buildId", "artifactId"} THEN "80" ELSE IF k = "runnerImage" THEN "img:1" ELSE "made"]

Object(k, f, v) == [key |-> k, fields |-> [g \in {"key", f} |-> IF g = f THEN v ELSE k]]
Bare(k) == [key |-> k, fields |-> <<>>]
Scalar(s) == [json |-> "string", items |-> <<Bare(s)>>]
Strings2(s, t) == [json |-> "strings", items |-> <<Bare(s), Bare(t)>>]
Objects2(s, t, f, v) == [json |-> "objects", items |-> <<Object(s, f, v), Object(t, f, v)>>]

MCInputs == {<<>>} \cup {[p \in {"p"} |-> v] : v \in
    {Null, Scalar("job"), Strings2("job", "oidc"), Strings2("job", "job"),
     Objects2("job", "app", "port", "80"), Objects2("job", "oidc", "type", "OnDemand")}}

Ref(kind, name, key, filtered) == [kind |-> kind, name |-> name, key |-> key, filtered |-> filtered]
P == Ref("params", "p", "", FALSE)
AName == Ref("steps", "a", "name", FALSE)
AArtifact == Ref("steps", "a", "artifactName", FALSE)
Item == Ref("item", "", "", FALSE)
Templates == {P, [P EXCEPT !.filtered = TRUE], AName, AArtifact, Ref("config", "runnerImage", "", FALSE),
              Item, [Item EXCEPT !.name = "port"], Literal("x"), Literal("oidc")}

Parameter(type, required, default) ==
    [name |-> "p", type |-> type, required |-> required, default |-> default, pattern |-> MCStrings \ {"x"}]
Parameters == {<<>>} \cup {<<Parameter("string", r, Null)>> : r \in BOOLEAN}
              \cup {<<Parameter(t, FALSE, Null)>> : t \in {"stringList", "objectList"}}
              \cup {<<Parameter("string", FALSE, Scalar(""))>>}

MCStep(n, type, forEach, params) == [name |-> n, type |-> type, forEach |-> forEach, params |-> params]
First == {<<>>} \cup {<<MCStep("a", "waitBuild", f, [k \in {"watcher"} |-> Literal("x")])>> : f \in {NoForEach, P}}

With(params, keys, t) == [k \in DOMAIN params \cup keys |-> IF k \in keys THEN t ELSE params[k]]
App(type) == [k \in {"name", "type", "image"} |->
    IF k = "type" THEN type ELSE IF k = "image" THEN Literal("img:1") ELSE Literal("b")]
AppParams(templates) ==
    {App(t) : t \in templates}
    \cup {With(App(Literal("job")), ks, t) : t \in templates,
            ks \in {{"image"}, {"artifactName"}, {"artifactName", "tag"}, {"port"}, {"entrypoints"},
                    {"externalAuthMode"}, {"externalAuthMode", "externalAuthName"}}}
    \cup {With(App(Literal("service")), ks, t) : t \in templates, ks \in {{"port"}, {"fireOnCreate"}}}
ChainParams == {With([k \in {"name", "jobTemplate"} |-> Literal("b")], ks, t) : t \in Templates,
                  ks \in {{"externalAuthMode"}, {"externalAuthMode", "externalAuthName"}, {"serviceTemplate"}}}
TagParams == {[k \in {"artifactId", "artifactName", "version"} |-> IF k = "artifactId" THEN t ELSE AArtifact] : t \in Templates}

Second == {<<MCStep("b", "app", NoForEach, ps)>> : ps \in AppParams(Templates)}
          \cup {<<MCStep("b", "app", P, ps)>> : ps \in AppParams({Item, [Item EXCEPT !.name = "port"], AName})}
          \cup {<<MCStep("b", "chain", NoForEach, ps)>> : ps \in ChainParams}
          \cup {<<MCStep("b", "tag", NoForEach, ps)>> : ps \in TagParams}

MCDefinitions == {[parameters |-> ps, steps |-> f \o s] : ps \in Parameters, f \in First, s \in Second}
MCEdits == {[parameters |-> <<[Parameter("string", TRUE, Null) EXCEPT !.name = "q"]>>, steps |-> <<>>]}
=============================================================================
