----------------------------- MODULE Catalogue -----------------------------
(***************************************************************************)
(* The step catalogue (src/internal/steps): the types in their order, the  *)
(* params and outputs of each, and which values of the params a step        *)
(* refuses.  A value is a member of Strings; what the checks look at inside *)
(* one is a set of them.                                                   *)
(***************************************************************************)
EXTENDS Integers, FiniteSets, Sequences

CONSTANTS Strings,           \* the values of step params
          Pending,           \* the mark of a value that is not known yet
          Numbers, Ports,    \* the values that are whole numbers; those in 1..65535
          PinnedImages,      \* images with an explicit tag other than latest, or a digest
          EntrypointName     \* the entrypoint name weave gets for a file

\* The text a list of objects renders to: empty, entrypoints an app can have, or else.
JsonTexts == {"[]", "[entrypoints]", "[objects]"}

ASSUME CatalogueAssumption ==
    /\ Pending \notin Strings
    /\ {"", "true", "app", "service", "job", "OnDemand", "Cron", "serviceAccount", "oidc"} \subseteq Strings
    /\ JsonTexts \subseteq Strings
    /\ Ports \subseteq Numbers /\ Numbers \subseteq Strings /\ "" \notin Numbers
    /\ PinnedImages \subseteq Strings \ {""}
    /\ EntrypointName \in [Strings -> Strings]

catalogueOrder == <<"gitWatcher", "waitBuild", "tag", "app", "jobTemplate", "serviceTemplate",
                    "chain", "trigger", "batchTrigger">>

StepTypes == {catalogueOrder[i] : i \in DOMAIN catalogueOrder}

\* Type s does not come after type t.
InOrder(s, t) == \E i, j \in DOMAIN catalogueOrder :
                    i <= j /\ catalogueOrder[i] = s /\ catalogueOrder[j] = t

Required ==
    [gitWatcher |-> {"name", "repoUrl"},
     waitBuild |-> {"watcher"},
     tag |-> {"artifactId", "artifactName", "version"},
     app |-> {"name", "type"},
     jobTemplate |-> {"name"},
     serviceTemplate |-> {"name", "port"},
     chain |-> {"name"},
     trigger |-> {"name", "chain"},
     batchTrigger |-> {"name", "chain", "jobs"}]

\* One "override." key stands for all.
Optional ==
    [gitWatcher |-> {"repoRef", "projectDir", "autoPromote", "tag"},
     waitBuild |-> {},
     tag |-> {"tag"},
     app |-> {"image", "artifactName", "tag", "port", "ingressName", "schedule", "entrypoints",
              "fireOnCreate", "externalAuthMode", "externalAuthName"},
     jobTemplate |-> {"artifactName", "tag", "image"},
     serviceTemplate |-> {"artifactName", "tag", "image", "ingressName"},
     chain |-> {"jobTemplate", "serviceTemplate", "stepName", "externalAuthMode", "externalAuthName"},
     trigger |-> {"type", "schedule", "fireOnCreate", "externalAuthOverrideMode",
                  "externalAuthOverrideName", "override.ENTRYPOINT"},
     batchTrigger |-> {}]

Allowed(type) == Required[type] \cup Optional[type]

Outputs(type) ==
    CASE type = "waitBuild" -> {"buildId", "name", "artifactName", "artifactId", "version"}
      [] type = "tag" -> {"tag", "version"}
      [] OTHER -> {"name"}

-----------------------------------------------------------------------------
(* What a step refuses, given its params p: a function from the keys that  *)
(* are set to values.  An unset param reads as empty.                      *)

Param(p, k) == IF k \in DOMAIN p THEN p[k] ELSE ""
IsSet(p, k) == Param(p, k) # ""

\* Exactly one of the two is set, or the mode is neither of weave's.
BadAuth(mode, name) ==
    \/ (mode = "") # (name = "")
    \/ mode \notin {"", "serviceAccount", "oidc"}

BadAuthPair(p, mode, name) == BadAuth(Param(p, mode), Param(p, name))

\* An artifact without a tag, or a tag without an artifact.
HalfArtifact(p) == IsSet(p, "artifactName") # IsSet(p, "tag")

\* (mutant) Every value counts as known.
EverythingKnown(p, keys) == TRUE

Known(p, keys) == \A k \in keys : Param(p, k) # Pending

\* The checks of ValidateAppParams, each on known values only.
BadImage(p) ==
    /\ Known(p, {"artifactName", "tag"})
    /\ \/ HalfArtifact(p)
       \/ ~IsSet(p, "artifactName") /\ Known(p, {"image"}) /\ Param(p, "image") \notin PinnedImages

BadAppAuth(p) ==
    /\ Known(p, {"externalAuthMode", "externalAuthName"})
    /\ \/ BadAuthPair(p, "externalAuthMode", "externalAuthName")
       \/ IsSet(p, "externalAuthMode") /\ Param(p, "type") = "service"

SetOneOf(p, keys) == \E k \in keys : Known(p, {k}) /\ IsSet(p, k)

BadService(p) ==
    \/ SetOneOf(p, {"entrypoints", "schedule", "fireOnCreate"})
    \/ Known(p, {"port"}) /\ IsSet(p, "port") /\ Param(p, "port") \notin Ports

BadJob(p) ==
    \/ SetOneOf(p, {"port", "ingressName"})
    \/ /\ Known(p, {"entrypoints", "schedule", "fireOnCreate"})
       /\ IsSet(p, "entrypoints")
       /\ \/ IsSet(p, "schedule") \/ Param(p, "fireOnCreate") = "true"
          \/ Param(p, "entrypoints") # "[entrypoints]"

BadApp(p) ==
    /\ Known(p, {"type"})
    /\ \/ Param(p, "type") \notin {"service", "job"}
       \/ BadImage(p)
       \/ BadAppAuth(p)
       \/ Param(p, "type") = "service" /\ BadService(p)
       \/ Param(p, "type") = "job" /\ BadJob(p)

BadChain(p) ==
    \/ IsSet(p, "jobTemplate") = IsSet(p, "serviceTemplate")
    \/ BadAuthPair(p, "externalAuthMode", "externalAuthName")
    \/ IsSet(p, "externalAuthMode") /\ IsSet(p, "serviceTemplate")

BadTrigger(p) ==
    \/ Param(p, "type") \notin {"", "OnDemand", "Cron"}
    \/ (Param(p, "type") = "Cron") # IsSet(p, "schedule")
    \/ BadAuthPair(p, "externalAuthOverrideMode", "externalAuthOverrideName")

\* What Ensure refuses before it asks any service.
Refuses(type, p) ==
    CASE type = "tag" -> Param(p, "artifactId") \notin Numbers
      [] type = "app" -> BadApp(p)
      [] type = "jobTemplate" -> HalfArtifact(p)
      [] type = "serviceTemplate" -> Param(p, "port") \notin Numbers \/ HalfArtifact(p)
      [] type = "chain" -> BadChain(p)
      [] type = "trigger" -> BadTrigger(p)
      [] OTHER -> FALSE

\* The params the API looks at when a run is created, ...
ValidatesEarly(type) ==
    CASE type = "chain" -> {"externalAuthMode", "externalAuthName"}
      [] type = "trigger" -> {"externalAuthOverrideMode", "externalAuthOverrideName"}
      [] type = "app" -> Allowed("app") \ {"name"}
      [] OTHER -> {}

\* ... and what it refuses of them.
RefusesEarly(type, p) ==
    CASE type = "chain" -> BadAuthPair(p, "externalAuthMode", "externalAuthName")
      [] type = "trigger" -> BadAuthPair(p, "externalAuthOverrideMode", "externalAuthOverrideName")
      [] type = "app" -> BadApp(p)
      [] OTHER -> FALSE

\* The entries of a list that an app takes as its entrypoints.
Field(item, f) == IF f \in DOMAIN item.fields THEN item.fields[f] ELSE ""

AreEntrypoints(items) ==
    /\ \A i \in DOMAIN items :
          /\ Field(items[i], "type") \in {"", "OnDemand", "Cron"}
          /\ (Field(items[i], "type") = "Cron") = (Field(items[i], "schedule") # "")
    /\ \A i, j \in DOMAIN items :
          EntrypointName[items[i].key] = EntrypointName[items[j].key] => i = j

Json(items) ==
    IF items = <<>> THEN "[]" ELSE IF AreEntrypoints(items) THEN "[entrypoints]" ELSE "[objects]"
=============================================================================
