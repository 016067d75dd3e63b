---------------------------- MODULE MCProvision ----------------------------
(***************************************************************************)
(* Instances of Provision for TLC, with the recipes of the real steps and  *)
(* instance configurations parsed from two ConfigMaps.                     *)
(***************************************************************************)
EXTENDS Provision, Recipes, InstanceConfig, TLC

CONSTANTS runA, runB, stepA, stepB, watcherA, buildA, tagA, watcherB, buildB, tagB,
          shared, watcher, artifact, tag

MCStrings == {"", "true", "app", "service", "job", "OnDemand", "Cron", "serviceAccount", "oidc",
              "80", "[]", "[entrypoints]", "[objects]", "x", "y"}
MCEntrypointName == [v \in MCStrings |-> v]
MCNumeral == [v \in {"80"} |-> v]
MCDefaults == [pollInterval |-> "5s", buildTimeout |-> "10m", tagName |-> "stable",
               artifactPrefix |-> "app.", chainStepName |-> "run", defaultResources |-> "small"]
MCBaseUrl == [u \in {"http://f/", "http://i", "http://w"} |-> IF u = "http://f/" THEN "http://f" ELSE u]
MCWritten == [d \in {"5s", "10m"} |-> IF d = "10m" THEN "10m0s" ELSE d]

ConfigMap == [runnerImage |-> "runner:1", forgeURL |-> "http://f/", indexURL |-> "http://i",
              weaveURL |-> "http://w"]
OtherConfigMap == [ConfigMap EXCEPT !.runnerImage = "runner:2"]
                      @@ [chainStepName |-> "main", tagName |-> "prod", defaultResources |-> "big"]
OneConfig == {Parse(ConfigMap)}
TwoConfigs == {Parse(ConfigMap), Parse(OtherConfigMap)}

MCObject(a, c) == ObjectOf(a.type, a.params, c)
MCIdentity(a, c) == IdentityOf(a.type, a.params, c)
MCSame(a, c, object) == SameAs(a.type, a.params, c, object)
MCTwoCalls(a) == CallFollows(a.type, a.params)
MCFiresAtOnce(a) == FiresWithCreate(a.type, a.params)
MCOnlyDefaults(a) ==
    \/ a.type \in {"jobTemplate", "serviceTemplate"}
    \/ a.type = "app" /\ ArtifactMode(a.params)

Ask(type, params) == [type |-> type, params |-> params]
Both(a, b) == (stepA :> a) @@ (stepB :> b)
Twice(a) == Both(a, a)

\* Two runs with one step each want the same resource: a watcher, of another
\* ref or of the same one, ...
Watcher == [repoUrl |-> "x", repoRef |-> "x"]
HiddenCase == Both(Ask("gitWatcher", Watcher), Ask("gitWatcher", [Watcher EXCEPT !.repoRef = "y"]))
\* ... a template or app with other defaults, another artifact, ...
Template == [artifactName |-> "x", tag |-> "x"]
OwnImage == Template @@ [image |-> "y"]
ServiceApp == Template @@ [type |-> "service", port |-> "80"]
JobApp == Template @@ [type |-> "job", fireOnCreate |-> "true"]
\* ... a chain, a trigger that fires when it is created, or a batch of jobs.
Chain == [jobTemplate |-> "x"]
Trigger == [chain |-> "x", fireOnCreate |-> "true"]
Batch == [chain |-> "x", jobs |-> "x"]

\* Batches of other jobs, which only the hash shows.
OtherJobs == Both(Ask("batchTrigger", Batch), Ask("batchTrigger", [Batch EXCEPT !.jobs = "y"]))

SharedCases ==
    {Both(Ask("jobTemplate", Template), Ask("jobTemplate", OwnImage)),
     Both(Ask("serviceTemplate", Template @@ [port |-> "80"]), Ask("serviceTemplate", [port |-> "80"])),
     Both(Ask("app", JobApp), Ask("app", ServiceApp)),
     Both(Ask("chain", Chain), Ask("chain", Chain @@ [stepName |-> "x"])),
     Twice(Ask("trigger", Trigger)),
     OtherJobs}
EffectCases == {Twice(Ask("trigger", Trigger)), Twice(Ask("batchTrigger", Batch))}

\* A run creates a watcher, claims the artifact forge builds for it and tags it, ...
TagAsk == Ask("tag", [version |-> "x"])
TagCase == (watcherA :> Ask("gitWatcher", Watcher)) @@ (buildA :> Ask("waitBuild", <<>>)) @@ (tagA :> TagAsk)
\* ... and another run does the same with the same repository.
BuildCase == TagCase @@ (watcherB :> Ask("gitWatcher", Watcher)) @@ (buildB :> Ask("waitBuild", <<>>))
                     @@ (tagB :> TagAsk)

HiddenCases == {HiddenCase}
SharedAndBuild == SharedCases \cup {BuildCase}
TagCases == {TagCase}
JobsCases == {OtherJobs}

\* Two faults for a watcher, none for a build, one for all else.
MCMaxFaults(case) ==
    IF case = HiddenCase THEN 2 ELSE IF case = BuildCase THEN 0 ELSE 1

\* People make something else under the name, or exactly what a step wants.
ByPeople(object) == [maker |-> "people", object |-> object, id |-> NoId, effects |-> 0]
WatcherByPeople == {ByPeople(ObjectOf("gitWatcher", Watcher, Parse(ConfigMap)))}
ObjectsByPeople == {ByPeople(ObjectOf("jobTemplate", Template, Parse(ConfigMap))),
                    ByPeople(ObjectOf("trigger", Trigger, Parse(ConfigMap)))}

\* Asks with the same hash never conflict upstream either, whatever the
\* configurations they were made with.
ASSUME EqualHashesAgree ==
    \A a, b \in Asks, c, d \in Configs :
        a.type = b.type /\ Identity(a, c) = Identity(b, d) => Same(a, c, Object(b, d))

\* What ProvisionUpstreamProofs needs to know of the recipes: a create that fires needs
\* no call after it, a tag takes one call, and what a step makes is what its next Get
\* looks for.
ASSUME RecipesAreAsProved ==
    \A case \in Cases : \A t \in DOMAIN case :
        LET a == case[t] IN
        /\ FiresAtOnce(a) => ~TwoCalls(a) /\ KindOf[KeyOf[t]] = "named"
        /\ KindOf[KeyOf[t]] = "tag" => ~TwoCalls(a) /\ ~OnlyDefaults(a)
        /\ KindOf[KeyOf[t]] = "named" => \A c \in Configs : Same(a, c, Object(a, c))

\* Watchers have a lower undoRank than the artifacts forge builds for them.
ASSUME WatchersComeFirst ==
    \A k \in Keys : KindOf[k] = "artifact" => KindOf[Feeder[k]] = "named" /\ Rank[Feeder[k]] < Rank[k]

MCRunOf == [t \in Steps |-> IF t \in {stepA, watcherA, buildA, tagA} THEN runA ELSE runB]
MCKeyOf == [t \in Steps |-> CASE t \in {stepA, stepB} -> shared
                              [] t \in {watcherA, watcherB} -> watcher
                              [] t \in {buildA, buildB} -> artifact
                              [] OTHER -> tag]
MCAfter == [t \in Steps |-> CASE t = buildA -> {watcherA} [] t = tagA -> {buildA}
                              [] t = buildB -> {watcherB} [] t = tagB -> {buildB} [] OTHER -> {}]
MCKind == [k \in Keys |-> IF k = artifact THEN "artifact" ELSE IF k = tag THEN "tag" ELSE "named"]
MCRank == [k \in Keys |-> CASE k = shared -> 10 [] k = watcher -> 40 [] k = tag -> 50 [] OTHER -> 60]
MCFeeder == [k \in Keys |-> IF k = artifact THEN watcher ELSE k]
MCArtifactOf == [k \in Keys |-> IF k = tag THEN artifact ELSE k]
=============================================================================
