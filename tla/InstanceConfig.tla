-------------------------- MODULE InstanceConfig --------------------------
(***************************************************************************)
(* The instance configuration (src/internal/instancecfg): the keys of a    *)
(* ConfigMap, what makes it invalid, and the values steps read.  A         *)
(* ConfigMap is a function from the keys it has to values, without the     *)
(* white space around them; which values parse, and what becomes of them,  *)
(* is a constant per kind.                                                 *)
(***************************************************************************)
CONSTANTS Urls, Durations, ResourceTexts,  \* values that parse as each
          BaseUrl,     \* a URL without the slashes at its end
          Written,     \* how a duration is written for steps to read
          DefaultOf,   \* the default of each optional key
          Invalid      \* a ConfigMap that does not parse

requiredKeys == {"runnerImage", "forgeURL", "indexURL", "weaveURL"}
urlKeys == {"forgeURL", "indexURL", "weaveURL"}
durationKeys == {"pollInterval", "buildTimeout"}
optionalKeys == durationKeys \cup {"tagName", "artifactPrefix", "chainStepName", "defaultResources"}
knownKeys == requiredKeys \cup optionalKeys

\* What ${config.<key>} may refer to.
scalarKeys == knownKeys \ {"defaultResources"}

ASSUME InstanceConfigAssumption ==
    /\ "" \notin Urls \cup Durations \cup ResourceTexts
    /\ DOMAIN BaseUrl = Urls /\ \A u \in Urls : BaseUrl[u] # ""
    /\ DOMAIN Written = Durations /\ \A d \in Durations : Written[d] # ""
    /\ DOMAIN DefaultOf = optionalKeys
    /\ \A k \in optionalKeys : DefaultOf[k] # ""
    /\ \A k \in durationKeys : DefaultOf[k] \in Durations

Given(data, k) == IF k \in DOMAIN data THEN data[k] ELSE ""

\* The keys Parse complains about: unknown, missing, or with a value of the
\* wrong kind.
Problems(data) ==
    {k \in DOMAIN data \cup requiredKeys :
        \/ k \notin knownKeys
        \/ k \in requiredKeys /\ Given(data, k) = ""
        \/ k \in urlKeys /\ Given(data, k) \notin Urls
        \/ k \in durationKeys /\ Given(data, k) \notin Durations \cup {""}
        \/ k = "defaultResources" /\ Given(data, k) \notin ResourceTexts \cup {""}}

Parsed(k, v) == IF k \in urlKeys THEN BaseUrl[v] ELSE v

\* Parse: the value of every known key, or nothing when there is any problem.
Parse(data) ==
    IF Problems(data) # {} THEN Invalid
    ELSE [k \in knownKeys |-> IF Given(data, k) = "" THEN DefaultOf[k] ELSE Parsed(k, Given(data, k))]

\* Values: what placeholders see of a configuration.
Values(cfg) == [k \in scalarKeys |-> IF k \in durationKeys THEN Written[cfg[k]] ELSE cfg[k]]
=============================================================================
