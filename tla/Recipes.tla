------------------------------ MODULE Recipes ------------------------------
(***************************************************************************)
(* What each step asks of ensure (src/internal/steps): the object its      *)
(* create makes, the parts its spec hash is made of, and how it compares   *)
(* an object that is there with what it wants.  A step is its type and its *)
(* resolved params; cfg is the instance configuration.                     *)
(*                                                                         *)
(* An object is a function from the fields of its spec that are set to     *)
(* values, with nested fields flattened.  A hash is the sequence of its    *)
(* parts.  The entrypoints of an app are one value.                        *)
(***************************************************************************)
EXTENDS Catalogue

CONSTANTS Numeral   \* how a number reads back from a service: without leading zeros

override == "override.ENTRYPOINT"   \* stands for all keys with the prefix

Or(value, default) == IF value # "" THEN value ELSE default

\* Fields that are empty are not sent.
Sent(fields) == [f \in {g \in DOMAIN fields : fields[g] # ""} |-> fields[f]]

ArtifactMode(p) == IsSet(p, "artifactName")

Image(p, cfg) == Or(Param(p, "image"), cfg.runnerImage)

AutoTag(p, cfg) ==
    IF Param(p, "autoPromote") = "true" THEN Or(Param(p, "tag"), cfg.tagName) ELSE ""

Port(p) == IF Param(p, "port") \in Numbers THEN Numeral[Param(p, "port")] ELSE ""

\* The template of a chain: the name of the field that refers to it.
TemplateRef(p) == IF IsSet(p, "jobTemplate") THEN "jobTemplate" ELSE "serviceTemplate"

StepName(p, cfg) == Or(Param(p, "stepName"), cfg.chainStepName)

TriggerType(p) == Or(Param(p, "type"), "OnDemand")

\* A job app without a list has the single entrypoint "main".
Entrypoints(p) ==
    IF Param(p, "type") = "service" THEN "" ELSE Or(Param(p, "entrypoints"), "main")

AuthParts(mode, name) == IF mode = "" THEN <<>> ELSE <<"externalAuth", mode, name>>

-----------------------------------------------------------------------------
(* Per step type, the object its create makes and the parts of its hash.   *)

WatcherObject(p, cfg) ==
    Sent([buildType |-> "app", repoUrl |-> Param(p, "repoUrl"), repoRef |-> Param(p, "repoRef"),
          projectDir |-> Param(p, "projectDir"), autoTag |-> AutoTag(p, cfg)])

WatcherIdentity(p, cfg) ==
    <<"gitWatcher", Param(p, "repoUrl"), Param(p, "repoRef"), Param(p, "projectDir")>>
        \o (IF AutoTag(p, cfg) = "" THEN <<>> ELSE <<"autoTag=", AutoTag(p, cfg)>>)

JobTemplateObject(p, cfg) ==
    Sent([image |-> Image(p, cfg), artifactName |-> Param(p, "artifactName"),
          tag |-> Param(p, "tag"), resources |-> cfg.defaultResources])

JobTemplateIdentity(p) ==
    IF ArtifactMode(p) THEN <<"jobTemplate", Param(p, "artifactName"), Param(p, "tag")>>
    ELSE <<"jobTemplate", "image-only">>

ServiceTemplateObject(p, cfg) ==
    Sent([image |-> Image(p, cfg), artifactName |-> Param(p, "artifactName"),
          tag |-> Param(p, "tag"), resources |-> cfg.defaultResources,
          port |-> Port(p), ingressName |-> Param(p, "ingressName")])

ServiceTemplateIdentity(p) ==
    <<"serviceTemplate">>
        \o (IF ArtifactMode(p) THEN <<Param(p, "artifactName"), Param(p, "tag")>> ELSE <<"image-only">>)
        \o <<Param(p, "port"), Param(p, "ingressName")>>

ChainObject(p, cfg) ==
    Sent([stepName |-> StepName(p, cfg), jobTemplate |-> Param(p, "jobTemplate"),
          serviceTemplate |-> Param(p, "serviceTemplate"),
          authMode |-> Param(p, "externalAuthMode"), authName |-> Param(p, "externalAuthName")])

ChainIdentity(p, cfg) ==
    <<"chain", TemplateRef(p), Param(p, TemplateRef(p)), StepName(p, cfg)>>
        \o AuthParts(Param(p, "externalAuthMode"), Param(p, "externalAuthName"))

\* An override is sent even when it is empty.
TriggerObject(p) ==
    LET fields == Sent([type |-> TriggerType(p), chain |-> Param(p, "chain"),
                        schedule |-> Param(p, "schedule"),
                        authMode |-> Param(p, "externalAuthOverrideMode"),
                        authName |-> Param(p, "externalAuthOverrideName")])
    IN  [f \in DOMAIN fields \cup (DOMAIN p \cap {override}) |-> IF f = override THEN p[f] ELSE fields[f]]

TriggerIdentity(p) ==
    <<"trigger", Param(p, "chain"), TriggerType(p), Param(p, "schedule")>>
        \o (IF override \in DOMAIN p THEN <<override, p[override]>> ELSE <<>>)
        \o AuthParts(Param(p, "externalAuthOverrideMode"), Param(p, "externalAuthOverrideName"))

BatchTriggerObject(p) ==
    Sent([type |-> "BatchCron", chain |-> Param(p, "chain"), jobs |-> Param(p, "jobs")])

AppObject(p, cfg) ==
    Sent([type |-> Param(p, "type"),
          image |-> IF ArtifactMode(p) THEN Image(p, cfg) ELSE Param(p, "image"),
          artifactName |-> Param(p, "artifactName"), tag |-> Param(p, "tag"),
          resources |-> cfg.defaultResources,
          port |-> Port(p), ingressName |-> Param(p, "ingressName"),
          entrypoints |-> Entrypoints(p), schedule |-> Param(p, "schedule"),
          authMode |-> Param(p, "externalAuthMode"), authName |-> Param(p, "externalAuthName")])

AppIdentity(p) ==
    <<"app", Param(p, "type"), Param(p, "artifactName"), Param(p, "tag")>>
        \o (IF ArtifactMode(p) THEN <<>> ELSE <<"image", Param(p, "image")>>)
        \o (IF Param(p, "type") = "service" THEN <<Param(p, "port"), Param(p, "ingressName")>>
            ELSE <<Entrypoints(p), Param(p, "schedule")>>)
        \o AuthParts(Param(p, "externalAuthMode"), Param(p, "externalAuthName"))

ObjectOf(type, p, cfg) ==
    CASE type = "gitWatcher" -> WatcherObject(p, cfg)
      [] type = "jobTemplate" -> JobTemplateObject(p, cfg)
      [] type = "serviceTemplate" -> ServiceTemplateObject(p, cfg)
      [] type = "chain" -> ChainObject(p, cfg)
      [] type = "trigger" -> TriggerObject(p)
      [] type = "batchTrigger" -> BatchTriggerObject(p)
      [] type = "app" -> AppObject(p, cfg)
      [] type = "tag" -> Sent([version |-> Param(p, "version")])
      [] OTHER -> <<>>

\* (mutant) The image that is used is part of the identity.
IdentityWithImage(type, p, cfg) == <<type, Image(p, cfg), p>>

\* Tags and artifacts have no hash.
IdentityOf(type, p, cfg) ==
    CASE type = "gitWatcher" -> WatcherIdentity(p, cfg)
      [] type = "jobTemplate" -> JobTemplateIdentity(p)
      [] type = "serviceTemplate" -> ServiceTemplateIdentity(p)
      [] type = "chain" -> ChainIdentity(p, cfg)
      [] type = "trigger" -> TriggerIdentity(p)
      [] type = "batchTrigger" -> <<"batchTrigger", Param(p, "chain"), Param(p, "jobs")>>
      [] type = "app" -> AppIdentity(p)
      [] OTHER -> <<>>

-----------------------------------------------------------------------------
(* Comparison with an object that is there, and what goes with a create.   *)

\* The fields that Get compares.
Compared(type, p) ==
    CASE type = "gitWatcher" -> {"buildType", "repoUrl", "projectDir", "autoTag"}
      [] type = "jobTemplate" -> {"artifactName", "tag"}
      [] type = "serviceTemplate" -> {"artifactName", "tag", "port", "ingressName"}
      [] type = "chain" -> {TemplateRef(p), "authMode", "authName"}
      [] type = "trigger" -> {"chain", "type", "schedule", "authMode", "authName", override}
      [] type = "batchTrigger" -> {"type", "chain"}
      [] type = "app" ->
            {"type", "artifactName", "tag"} \cup (IF ArtifactMode(p) THEN {} ELSE {"image"})
                \cup (IF Param(p, "type") = "service" THEN {"port", "ingressName"}
                      ELSE {"entrypoints", "schedule", "authMode", "authName"})
      [] OTHER -> {}

\* What Get compares a field with; a port as the params spell it.
Expected(type, p, cfg, f) ==
    IF f = "port" THEN Param(p, f) ELSE Param(ObjectOf(type, p, cfg), f)

\* Get's verdict on an object that is there.
SameAs(type, p, cfg, object) ==
    /\ \A f \in Compared(type, p) : Param(object, f) = Expected(type, p, cfg, f)
    /\ type = "trigger" => (override \in DOMAIN object) = (override \in DOMAIN p)

\* A call follows the create: the first firing, or the labels of a batch trigger.
CallFollows(type, p) ==
    \/ type = "trigger" /\ Param(p, "fireOnCreate") = "true"
    \/ type = "batchTrigger"

\* The create itself asks for the first firing.
FiresWithCreate(type, p) == type = "app" /\ Param(p, "fireOnCreate") = "true"
=============================================================================
