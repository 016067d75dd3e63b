---------------------------- MODULE RecipesProofs ----------------------------
(***************************************************************************)
(* Theorems about the recipes of the steps and the configuration they      *)
(* read: what Provision takes for granted of Object, Identity and Same,    *)
(* for all params and all configurations.                                  *)
(***************************************************************************)
EXTENDS Recipes, InstanceConfig, SequenceTheorems, TLAPS

-----------------------------------------------------------------------------
(* The instance configuration. *)

\* A parsed configuration has a value for every known key: the one that was
\* given, or the default.
LEMMA ParsedValues ==
    ASSUME NEW data, Problems(data) = {}, NEW k \in knownKeys
    PROVE  /\ Parse(data)[k] # ""
           /\ k \in durationKeys => Parse(data)[k] \in Durations
<1>1. Parse(data)[k] = IF Given(data, k) = "" THEN DefaultOf[k] ELSE Parsed(k, Given(data, k))
  BY DEF Parse
<1>2. CASE Given(data, k) = ""
  <2>1. k \notin requiredKeys
    BY <1>2 DEF Problems
  <2>2. k \in optionalKeys
    BY <2>1 DEF knownKeys
  <2>. QED BY <1>1, <1>2, <2>2, InstanceConfigAssumption DEF durationKeys
<1>3. CASE Given(data, k) # ""
  <2>1. k \in DOMAIN data
    BY <1>3 DEF Given
  <2>2. /\ k \in urlKeys => Given(data, k) \in Urls
        /\ k \in durationKeys => Given(data, k) \in Durations
    BY <1>3, <2>1 DEF Problems
  <2>3. k \in urlKeys => k \notin durationKeys
    BY DEF urlKeys, durationKeys
  <2>. QED BY <1>1, <1>3, <2>2, <2>3, InstanceConfigAssumption DEF Parsed
<1>. QED BY <1>2, <1>3

\* Every ${config.<key>} that validation lets through has a value when a step
\* runs, whatever the ConfigMap left out (config.go:25-26, 164-165).
THEOREM ConfigComplete ==
    ASSUME NEW data, Parse(data) # Invalid, NEW k \in scalarKeys
    PROVE  k \in DOMAIN Values(Parse(data)) /\ Values(Parse(data))[k] # ""
<1>1. Problems(data) = {}
  BY DEF Parse
<1>2. k \in knownKeys
  BY DEF scalarKeys
<1>3. /\ Parse(data)[k] # ""
      /\ k \in durationKeys => Parse(data)[k] \in Durations
  BY <1>1, <1>2, ParsedValues
<1>. QED BY <1>3, InstanceConfigAssumption DEF Values

-----------------------------------------------------------------------------
(* Objects and hashes. *)

\* A field that is not sent reads as empty, like one that is.
LEMMA SentReads ==
    ASSUME NEW fields, NEW object, object = Sent(fields)
    PROVE  \A g \in DOMAIN fields : Param(object, g) = fields[g]
BY DEF Sent, Param

\* Of two equal sequences with fronts of one length the fronts are equal, and the rests.
LEMMA SameFront ==
    ASSUME NEW S, NEW s \in Seq(S), NEW t \in Seq(S), NEW u \in Seq(S), NEW v \in Seq(S),
           Len(s) = Len(u), s \o t = u \o v
    PROVE  s = u /\ t = v
<1>1. Len(s) \in Nat /\ Len(t) \in Nat /\ Len(v) \in Nat
  BY LenProperties
<1>2. Len(t) = Len(v)
  <2>1. Len(s \o t) = Len(s) + Len(t)
    BY ConcatProperties
  <2>2. Len(u \o v) = Len(u) + Len(v)
    BY ConcatProperties
  <2>. QED
    BY <1>1, <2>1, <2>2
<1>3. ASSUME NEW i \in 1..Len(s) PROVE s[i] = u[i]
  <2>1. i \in 1..(Len(s) + Len(t)) /\ i <= Len(s)
    BY <1>1
  <2>2. (s \o t)[i] = s[i] /\ (u \o v)[i] = u[i]
    BY <1>1, <2>1, ConcatProperties
  <2>. QED
    BY <2>2
<1>4. ASSUME NEW i \in 1..Len(t) PROVE t[i] = v[i]
  <2>1. Len(s) + i \in 1..(Len(s) + Len(t)) /\ ~(Len(s) + i <= Len(s)) /\ (Len(s) + i) - Len(s) = i
    BY <1>1
  <2>2. (s \o t)[Len(s) + i] = t[i]
    BY <1>1, <2>1, ConcatProperties
  <2>3. (u \o v)[Len(s) + i] = v[i]
    BY <1>1, <1>2, <2>1, ConcatProperties
  <2>. QED
    BY <2>2, <2>3
<1>. QED
  BY <1>2, <1>3, <1>4, SeqEqual

LEMMA SameRear ==
    ASSUME NEW S, NEW s \in Seq(S), NEW t \in Seq(S), NEW u \in Seq(S), NEW v \in Seq(S),
           Len(t) = Len(v), s \o t = u \o v
    PROVE  s = u /\ t = v
<1>1. Len(s) \in Nat /\ Len(t) \in Nat /\ Len(u) \in Nat
  BY LenProperties
<1>2. Len(s \o t) = Len(s) + Len(t)
  BY ConcatProperties
<1>3. Len(u \o v) = Len(u) + Len(v)
  BY ConcatProperties
<1>4. Len(s) = Len(u)
  BY <1>1, <1>2, <1>3
<1>. QED
  BY <1>4, SameFront

\* Concatenation, for steps that need no more of it than these lemmas.
Cat(s, t) == s \o t

LEMMA CatRegroups ==
    ASSUME NEW S, NEW s \in Seq(S), NEW t \in Seq(S), NEW w \in Seq(S)
    PROVE  Cat(t, w) \in Seq(S) /\ Cat(Cat(s, t), w) = Cat(s, Cat(t, w))
BY DEF Cat

LEMMA CatFront ==
    ASSUME NEW S, NEW s \in Seq(S), NEW t \in Seq(S), NEW u \in Seq(S), NEW v \in Seq(S),
           Len(s) = Len(u), Cat(s, t) = Cat(u, v)
    PROVE  s = u /\ t = v
BY SameFront DEF Cat

\* Two optional parts of different lengths.
LEMMA LengthsTell ==
    ASSUME NEW S, NEW s \in Seq(S), NEW t \in Seq(S), NEW u \in Seq(S), NEW v \in Seq(S),
           Len(s) \in {0, 2}, Len(u) \in {0, 2}, Len(t) \in {0, 3}, Len(v) \in {0, 3},
           Cat(s, t) = Cat(u, v)
    PROVE  s = u /\ t = v
<1>1. Len(Cat(s, t)) = Len(s) + Len(t)
  BY ConcatProperties DEF Cat
<1>2. Len(Cat(u, v)) = Len(u) + Len(v)
  BY ConcatProperties DEF Cat
<1>3. \A a, b \in {0, 2} : \A c, d \in {0, 3} : a + c = b + d => a = b
  OBVIOUS
<1>4. Len(s) = Len(u)
  BY <1>1, <1>2, <1>3, Zenon
<1>. QED
  BY <1>4, CatFront

\* Two identities that end in their auth parts and are otherwise of one length are equal.
EqualWithAuth(S, s, mode, name, u, mode2, name2) ==
    /\ s \in Seq(S) /\ u \in Seq(S) /\ Len(s) = Len(u)
    /\ {"externalAuth", mode, name, mode2, name2} \subseteq S
    /\ ~BadAuth(mode, name) /\ ~BadAuth(mode2, name2)
    /\ s \o AuthParts(mode, name) = u \o AuthParts(mode2, name2)

LEMMA AuthPartsAgree ==
    ASSUME NEW S, NEW mode, NEW name, NEW mode2, NEW name2, NEW s, NEW u,
           EqualWithAuth(S, s, mode, name, u, mode2, name2)
    PROVE  s = u /\ mode = mode2 /\ name = name2
<1>1. \A m, n \in S : AuthParts(m, n) \in Seq(S)
  <2>. SUFFICES ASSUME NEW m \in S, NEW n \in S PROVE AuthParts(m, n) \in Seq(S)
    OBVIOUS
  <2>1. <<"externalAuth", m, n>> \in Seq(S) /\ <<>> \in Seq(S)
    BY DEF EqualWithAuth
  <2>. QED
    BY <2>1 DEF AuthParts
<1>2. PICK v, w : v = AuthParts(mode, name) /\ w = AuthParts(mode2, name2)
  OBVIOUS
<1>3. s \in Seq(S) /\ u \in Seq(S) /\ v \in Seq(S) /\ w \in Seq(S) /\ Len(s) = Len(u) /\ s \o v = u \o w
  BY <1>1, <1>2 DEF EqualWithAuth
<1>4. s = u /\ v = w
  BY <1>3, SameFront
<1>5. AuthParts(mode, name) = AuthParts(mode2, name2)
  BY <1>2, <1>4
<1>6. ~BadAuth(mode, name) /\ ~BadAuth(mode2, name2)
  BY DEF EqualWithAuth
<1>7. (mode = "") = (mode2 = "")
  BY <1>5 DEF AuthParts
<1>. QED
  BY <1>4, <1>5, <1>6, <1>7 DEF AuthParts, BadAuth

-----------------------------------------------------------------------------
(* Equal hashes, equal wishes. *)

LEMMA WatchersAgree ==
    ASSUME NEW p, NEW c, NEW q, NEW d, WatcherIdentity(p, c) = WatcherIdentity(q, d)
    PROVE  /\ Param(p, "repoUrl") = Param(q, "repoUrl") /\ Param(p, "projectDir") = Param(q, "projectDir")
           /\ AutoTag(p, c) = AutoTag(q, d)
<1> DEFINE front(x) == <<"gitWatcher", Param(x, "repoUrl"), Param(x, "repoRef"), Param(x, "projectDir")>>
           rest(x, e) == IF AutoTag(x, e) = "" THEN <<>> ELSE <<"autoTag=", AutoTag(x, e)>>
<1>1. PICK S : {"gitWatcher", "autoTag=", AutoTag(p, c), AutoTag(q, d), Param(p, "repoUrl"), Param(p, "repoRef"),
                Param(p, "projectDir"), Param(q, "repoUrl"), Param(q, "repoRef"), Param(q, "projectDir")} \subseteq S
  OBVIOUS
<1>2. front(p) \in Seq(S) /\ front(q) \in Seq(S) /\ Len(front(p)) = Len(front(q))
  BY <1>1
<1>3. rest(p, c) \in Seq(S) /\ rest(q, d) \in Seq(S)
  <2>1. <<>> \in Seq(S) /\ <<"autoTag=", AutoTag(p, c)>> \in Seq(S) /\ <<"autoTag=", AutoTag(q, d)>> \in Seq(S)
    BY <1>1
  <2>. QED
    BY <2>1
<1>4. front(p) \o rest(p, c) = front(q) \o rest(q, d)
  BY DEF WatcherIdentity
<1>5. front(p) = front(q) /\ rest(p, c) = rest(q, d)
  <2>. HIDE DEF front, rest
  <2>. QED
    BY <1>2, <1>3, <1>4, SameFront
<1>. QED
  BY <1>5

LEMMA ServiceTemplatesAgree ==
    ASSUME NEW p, NEW q, ServiceTemplateIdentity(p) = ServiceTemplateIdentity(q),
           ~HalfArtifact(p), ~HalfArtifact(q)
    PROVE  \A f \in {"artifactName", "tag", "port", "ingressName"} : Param(p, f) = Param(q, f)
<1> DEFINE front == <<"serviceTemplate">>
           mid(x) == IF ArtifactMode(x) THEN <<Param(x, "artifactName"), Param(x, "tag")>> ELSE <<"image-only">>
           rear(x) == <<Param(x, "port"), Param(x, "ingressName")>>
<1>1. PICK S : {"serviceTemplate", "image-only", Param(p, "artifactName"), Param(p, "tag"), Param(p, "port"),
                Param(p, "ingressName"), Param(q, "artifactName"), Param(q, "tag"), Param(q, "port"),
                Param(q, "ingressName")} \subseteq S
  OBVIOUS
<1>2. /\ front \in Seq(S) /\ rear(p) \in Seq(S) /\ rear(q) \in Seq(S) /\ Len(rear(p)) = Len(rear(q))
  BY <1>1
<1>3. mid(p) \in Seq(S) /\ mid(q) \in Seq(S)
  <2>1. /\ <<"image-only">> \in Seq(S) /\ <<Param(p, "artifactName"), Param(p, "tag")>> \in Seq(S)
        /\ <<Param(q, "artifactName"), Param(q, "tag")>> \in Seq(S)
    BY <1>1
  <2>. QED
    BY <2>1
<1>4. (front \o mid(p)) \o rear(p) = (front \o mid(q)) \o rear(q)
  BY DEF ServiceTemplateIdentity
<1>5. mid(p) = mid(q) /\ rear(p) = rear(q)
  <2>. HIDE DEF front, mid, rear
  <2>1. PICK l : l = front \o mid(p)
    OBVIOUS
  <2>2. PICK m : m = front \o mid(q)
    OBVIOUS
  <2>3. l \in Seq(S) /\ m \in Seq(S) /\ l \o rear(p) = m \o rear(q)
    BY <1>2, <1>3, <1>4, <2>1, <2>2, ConcatProperties
  <2>4. l = m /\ rear(p) = rear(q)
    <3>1. PICK v, w : v = rear(p) /\ w = rear(q)
      OBVIOUS
    <3>2. v \in Seq(S) /\ w \in Seq(S) /\ Len(v) = Len(w) /\ l \o v = m \o w
      BY <1>2, <2>3, <3>1
    <3>3. l = m /\ v = w
      BY <2>3, <3>2, SameRear
    <3>. QED
      BY <3>1, <3>3
  <2>. QED
    BY <1>2, <1>3, <2>1, <2>2, <2>4, SameFront
<1>6. ArtifactMode(p) <=> ArtifactMode(q)
  <2>1. Len(mid(p)) = (IF ArtifactMode(p) THEN 2 ELSE 1) /\ Len(mid(q)) = (IF ArtifactMode(q) THEN 2 ELSE 1)
    OBVIOUS
  <2>2. Len(mid(p)) = Len(mid(q))
    BY <1>5
  <2>. QED
    BY <2>1, <2>2
<1>. QED
  BY <1>5, <1>6 DEF HalfArtifact, ArtifactMode, IsSet

LEMMA ChainsAgree ==
    ASSUME NEW p, NEW c, NEW q, NEW d, ChainIdentity(p, c) = ChainIdentity(q, d),
           ~BadChain(p), ~BadChain(q)
    PROVE  /\ TemplateRef(p) = TemplateRef(q) /\ Param(p, TemplateRef(p)) = Param(q, TemplateRef(q))
           /\ \A f \in {"externalAuthMode", "externalAuthName"} : Param(p, f) = Param(q, f)
<1> DEFINE mode(x) == Param(x, "externalAuthMode")
           name(x) == Param(x, "externalAuthName")
           front(x, e) == <<"chain", TemplateRef(x), Param(x, TemplateRef(x)), StepName(x, e)>>
<1>1. PICK S : {"chain", "externalAuth", TemplateRef(p), TemplateRef(q), Param(p, TemplateRef(p)),
                Param(q, TemplateRef(q)), StepName(p, c), StepName(q, d), mode(p), name(p), mode(q),
                name(q)} \subseteq S
  OBVIOUS
<1>2. front(p, c) \in Seq(S) /\ front(q, d) \in Seq(S) /\ Len(front(p, c)) = Len(front(q, d))
  BY <1>1
<1>3. ~BadAuth(mode(p), name(p)) /\ ~BadAuth(mode(q), name(q))
  BY DEF BadChain, BadAuthPair
<1>4. front(p, c) \o AuthParts(mode(p), name(p)) = front(q, d) \o AuthParts(mode(q), name(q))
  BY DEF ChainIdentity
<1>5. front(p, c) = front(q, d) /\ mode(p) = mode(q) /\ name(p) = name(q)
  <2>. HIDE DEF front, mode, name
  <2>1. PICK s, m, n : s = front(p, c) /\ m = mode(p) /\ n = name(p)
    OBVIOUS
  <2>2. PICK u, m2, n2 : u = front(q, d) /\ m2 = mode(q) /\ n2 = name(q)
    OBVIOUS
  <2>3. /\ s \in Seq(S) /\ u \in Seq(S) /\ Len(s) = Len(u)
        /\ {"externalAuth", m, n, m2, n2} \subseteq S
    BY <1>1, <1>2, <2>1, <2>2
  <2>4. EqualWithAuth(S, s, m, n, u, m2, n2)
    BY <1>3, <1>4, <2>1, <2>2, <2>3 DEF EqualWithAuth
  <2>5. s = u /\ m = m2 /\ n = n2
    BY <2>4, AuthPartsAgree
  <2>. QED
    BY <2>1, <2>2, <2>5
<1>. QED
  BY <1>5

LEMMA TriggersAgree ==
    ASSUME NEW p, NEW q, TriggerIdentity(p) = TriggerIdentity(q), ~BadTrigger(p), ~BadTrigger(q)
    PROVE  /\ Param(p, "chain") = Param(q, "chain") /\ TriggerType(p) = TriggerType(q)
           /\ \A f \in {"schedule", "externalAuthOverrideMode", "externalAuthOverrideName"} :
                 Param(p, f) = Param(q, f)
           /\ (override \in DOMAIN p) = (override \in DOMAIN q) /\ Param(p, override) = Param(q, override)
<1> DEFINE mode(x) == Param(x, "externalAuthOverrideMode")
           name(x) == Param(x, "externalAuthOverrideName")
           front(x) == <<"trigger", Param(x, "chain"), TriggerType(x), Param(x, "schedule")>>
           mid(x) == IF override \in DOMAIN x THEN <<override, x[override]>> ELSE <<>>
           rear(x) == AuthParts(mode(x), name(x))
<1>1. PICK S : {"trigger", "externalAuth", override, p[override], q[override], Param(p, "chain"),
                Param(q, "chain"), TriggerType(p), TriggerType(q), Param(p, "schedule"), Param(q, "schedule"),
                mode(p), name(p), mode(q), name(q)} \subseteq S
  OBVIOUS
<1>2. front(p) \in Seq(S) /\ front(q) \in Seq(S) /\ Len(front(p)) = Len(front(q))
  BY <1>1
<1>3. /\ mid(p) \in Seq(S) /\ Len(mid(p)) = (IF override \in DOMAIN p THEN 2 ELSE 0)
      /\ mid(q) \in Seq(S) /\ Len(mid(q)) = (IF override \in DOMAIN q THEN 2 ELSE 0)
  <2>1. <<override, p[override]>> \in Seq(S) /\ <<override, q[override]>> \in Seq(S) /\ <<>> \in Seq(S)
    BY <1>1
  <2>2. Len(<<override, p[override]>>) = 2 /\ Len(<<override, q[override]>>) = 2 /\ Len(<<>>) = 0
    OBVIOUS
  <2>. QED
    BY <2>1, <2>2
<1>4. /\ rear(p) \in Seq(S) /\ Len(rear(p)) \in {0, 3}
      /\ rear(q) \in Seq(S) /\ Len(rear(q)) \in {0, 3}
  <2>1. /\ <<"externalAuth", mode(p), name(p)>> \in Seq(S) /\ Len(<<"externalAuth", mode(p), name(p)>>) = 3
        /\ <<"externalAuth", mode(q), name(q)>> \in Seq(S) /\ Len(<<"externalAuth", mode(q), name(q)>>) = 3
        /\ <<>> \in Seq(S) /\ Len(<<>>) = 0
    BY <1>1
  <2>. HIDE DEF mode, name
  <2>. QED
    BY <2>1 DEF AuthParts
<1>5. Cat(Cat(front(p), mid(p)), rear(p)) = Cat(Cat(front(q), mid(q)), rear(q))
  BY DEF TriggerIdentity, Cat
<1>6. front(p) = front(q) /\ mid(p) = mid(q) /\ rear(p) = rear(q)
  <2>. HIDE DEF front, mid, rear
  <2>1. PICK s, t, w : s = front(p) /\ t = mid(p) /\ w = rear(p)
    OBVIOUS
  <2>2. PICK u, v, x : u = front(q) /\ v = mid(q) /\ x = rear(q)
    OBVIOUS
  <2>3. /\ s \in Seq(S) /\ t \in Seq(S) /\ w \in Seq(S) /\ u \in Seq(S) /\ v \in Seq(S) /\ x \in Seq(S)
        /\ Len(s) = Len(u) /\ Len(t) \in {0, 2} /\ Len(v) \in {0, 2} /\ Len(w) \in {0, 3} /\ Len(x) \in {0, 3}
    BY <1>2, <1>3, <1>4, <2>1, <2>2
  <2>4. Cat(s, Cat(t, w)) = Cat(u, Cat(v, x)) /\ Cat(t, w) \in Seq(S) /\ Cat(v, x) \in Seq(S)
    BY <1>5, <2>1, <2>2, <2>3, CatRegroups
  <2>5. s = u /\ Cat(t, w) = Cat(v, x)
    BY <2>3, <2>4, CatFront
  <2>. QED
    BY <2>1, <2>2, <2>3, <2>5, LengthsTell
<1>7. override \in DOMAIN p <=> override \in DOMAIN q
  <2>1. Len(mid(p)) = Len(mid(q))
    BY <1>6
  <2>. HIDE DEF mid
  <2>. QED
    BY <1>3, <2>1
<1>8. Param(p, override) = Param(q, override)
  BY <1>6, <1>7 DEF Param
<1>9. mode(p) = mode(q) /\ name(p) = name(q)
  <2>1. ~BadAuth(mode(p), name(p)) /\ ~BadAuth(mode(q), name(q))
    BY DEF BadTrigger, BadAuthPair
  <2>2. PICK e : e = <<>>
    OBVIOUS
  <2>3. e \in Seq(S) /\ {"externalAuth", mode(p), name(p), mode(q), name(q)} \subseteq S
    BY <1>1, <2>2
  <2>4. e \o AuthParts(mode(p), name(p)) = e \o AuthParts(mode(q), name(q))
    BY <1>6
  <2>. HIDE DEF mode, name
  <2>5. EqualWithAuth(S, e, mode(p), name(p), e, mode(q), name(q))
    BY <2>1, <2>3, <2>4 DEF EqualWithAuth
  <2>. QED
    BY <2>5, AuthPartsAgree
<1>. QED
  BY <1>6, <1>7, <1>8, <1>9

\* Params at the time a step runs: every value is known.
Resolved(p) == \A k \in DOMAIN p : p[k] \in Strings

LEMMA ResolvedIsKnown == ASSUME NEW p, Resolved(p) PROVE \A keys : Known(p, keys)
BY CatalogueAssumption DEF Resolved, Known, Param

LEMMA AppsAgree ==
    ASSUME NEW p, NEW q, AppIdentity(p) = AppIdentity(q), Resolved(p), Resolved(q), ~BadApp(p), ~BadApp(q)
    PROVE  /\ \A f \in {"type", "artifactName", "tag", "externalAuthMode", "externalAuthName"} :
                 Param(p, f) = Param(q, f)
           /\ ~ArtifactMode(p) => Param(p, "image") = Param(q, "image")
           /\ IF Param(p, "type") = "service"
                THEN Param(p, "port") = Param(q, "port") /\ Param(p, "ingressName") = Param(q, "ingressName")
                ELSE Entrypoints(p) = Entrypoints(q) /\ Param(p, "schedule") = Param(q, "schedule")
<1> DEFINE mode(x) == Param(x, "externalAuthMode")
           name(x) == Param(x, "externalAuthName")
           front(x) == <<"app", Param(x, "type"), Param(x, "artifactName"), Param(x, "tag")>>
           image(x) == IF ArtifactMode(x) THEN <<>> ELSE <<"image", Param(x, "image")>>
           serves(x) == <<Param(x, "port"), Param(x, "ingressName")>>
           starts(x) == <<Entrypoints(x), Param(x, "schedule")>>
           kind(x) == IF Param(x, "type") = "service" THEN serves(x) ELSE starts(x)
           auth(x) == AuthParts(mode(x), name(x))
<1>1. PICK S : {"app", "image", "externalAuth", Param(p, "type"), Param(p, "artifactName"), Param(p, "tag"),
                Param(p, "image"), Param(p, "port"), Param(p, "ingressName"), Entrypoints(p),
                Param(p, "schedule"), mode(p), name(p), Param(q, "type"), Param(q, "artifactName"),
                Param(q, "tag"), Param(q, "image"), Param(q, "port"), Param(q, "ingressName"),
                Entrypoints(q), Param(q, "schedule"), mode(q), name(q)} \subseteq S
  OBVIOUS
<1>2. front(p) \in Seq(S) /\ front(q) \in Seq(S) /\ Len(front(p)) = Len(front(q))
  BY <1>1
<1>3. /\ image(p) \in Seq(S) /\ Len(image(p)) = (IF ArtifactMode(p) THEN 0 ELSE 2)
      /\ image(q) \in Seq(S) /\ Len(image(q)) = (IF ArtifactMode(q) THEN 0 ELSE 2)
  <2>1. <<"image", Param(p, "image")>> \in Seq(S) /\ <<"image", Param(q, "image")>> \in Seq(S) /\ <<>> \in Seq(S)
    BY <1>1
  <2>2. Len(<<"image", Param(p, "image")>>) = 2 /\ Len(<<"image", Param(q, "image")>>) = 2 /\ Len(<<>>) = 0
    OBVIOUS
  <2>. QED
    BY <2>1, <2>2
<1>4. kind(p) \in Seq(S) /\ kind(q) \in Seq(S) /\ Len(kind(p)) = Len(kind(q))
  <2>1. /\ serves(p) \in Seq(S) /\ starts(p) \in Seq(S) /\ serves(q) \in Seq(S) /\ starts(q) \in Seq(S)
        /\ Len(serves(p)) = 2 /\ Len(starts(p)) = 2 /\ Len(serves(q)) = 2 /\ Len(starts(q)) = 2
    BY <1>1
  <2>. HIDE DEF serves, starts
  <2>. QED
    BY <2>1
<1>5. auth(p) \in Seq(S) /\ auth(q) \in Seq(S)
  <2>1. /\ <<"externalAuth", mode(p), name(p)>> \in Seq(S) /\ <<"externalAuth", mode(q), name(q)>> \in Seq(S)
        /\ <<>> \in Seq(S)
    BY <1>1
  <2>. HIDE DEF mode, name
  <2>. QED
    BY <2>1 DEF AuthParts
<1>6. Cat(Cat(Cat(front(p), image(p)), kind(p)), auth(p)) = Cat(Cat(Cat(front(q), image(q)), kind(q)), auth(q))
  BY DEF AppIdentity, Cat
<1>7. front(p) = front(q) /\ Cat(image(p), Cat(kind(p), auth(p))) = Cat(image(q), Cat(kind(q), auth(q)))
  <2>. HIDE DEF front, image, kind, auth
  <2>1. PICK s, i, t, w : s = front(p) /\ i = image(p) /\ t = kind(p) /\ w = auth(p)
    OBVIOUS
  <2>2. PICK u, j, v, x : u = front(q) /\ j = image(q) /\ v = kind(q) /\ x = auth(q)
    OBVIOUS
  <2>3. /\ s \in Seq(S) /\ i \in Seq(S) /\ t \in Seq(S) /\ w \in Seq(S)
        /\ u \in Seq(S) /\ j \in Seq(S) /\ v \in Seq(S) /\ x \in Seq(S) /\ Len(s) = Len(u)
    BY <1>2, <1>3, <1>4, <1>5, <2>1, <2>2
  <2>4. /\ Cat(i, t) \in Seq(S) /\ Cat(Cat(s, i), t) = Cat(s, Cat(i, t))
        /\ Cat(j, v) \in Seq(S) /\ Cat(Cat(u, j), v) = Cat(u, Cat(j, v))
    BY <2>3, CatRegroups
  <2>5. /\ Cat(Cat(s, Cat(i, t)), w) = Cat(s, Cat(Cat(i, t), w)) /\ Cat(Cat(i, t), w) \in Seq(S)
        /\ Cat(Cat(u, Cat(j, v)), x) = Cat(u, Cat(Cat(j, v), x)) /\ Cat(Cat(j, v), x) \in Seq(S)
    BY <2>3, <2>4, CatRegroups
  <2>6. Cat(Cat(i, t), w) = Cat(i, Cat(t, w)) /\ Cat(Cat(j, v), x) = Cat(j, Cat(v, x))
    BY <2>3, CatRegroups
  <2>7. Cat(s, Cat(Cat(i, t), w)) = Cat(u, Cat(Cat(j, v), x))
    BY <1>6, <2>1, <2>2, <2>4, <2>5
  <2>8. s = u /\ Cat(Cat(i, t), w) = Cat(Cat(j, v), x)
    BY <2>3, <2>5, <2>7, CatFront
  <2>. QED
    BY <2>1, <2>2, <2>6, <2>8
<1>8. \A f \in {"type", "artifactName", "tag"} : Param(p, f) = Param(q, f)
  BY <1>7
<1>9. ArtifactMode(p) <=> ArtifactMode(q)
  BY <1>8 DEF ArtifactMode, IsSet
<1>10. image(p) = image(q) /\ kind(p) = kind(q) /\ auth(p) = auth(q)
  <2>. HIDE DEF image, kind, auth
  <2>1. Len(image(p)) = Len(image(q))
    BY <1>3, <1>9
  <2>2. Cat(kind(p), auth(p)) \in Seq(S) /\ Cat(kind(q), auth(q)) \in Seq(S)
    BY <1>4, <1>5, CatRegroups
  <2>3. image(p) = image(q) /\ Cat(kind(p), auth(p)) = Cat(kind(q), auth(q))
    BY <1>3, <1>7, <2>1, <2>2, CatFront
  <2>. QED
    BY <1>4, <1>5, <2>3, CatFront
<1>11. mode(p) = mode(q) /\ name(p) = name(q)
  <2>1. ~BadAuth(mode(p), name(p)) /\ ~BadAuth(mode(q), name(q))
    BY ResolvedIsKnown DEF BadApp, BadAppAuth, BadAuthPair
  <2>2. PICK e : e = <<>>
    OBVIOUS
  <2>3. e \in Seq(S) /\ {"externalAuth", mode(p), name(p), mode(q), name(q)} \subseteq S
    BY <1>1, <2>2
  <2>4. e \o AuthParts(mode(p), name(p)) = e \o AuthParts(mode(q), name(q))
    BY <1>10
  <2>. HIDE DEF mode, name
  <2>5. EqualWithAuth(S, e, mode(p), name(p), e, mode(q), name(q))
    BY <2>1, <2>3, <2>4 DEF EqualWithAuth
  <2>. QED
    BY <2>5, AuthPartsAgree
<1>12. ~ArtifactMode(p) => Param(p, "image") = Param(q, "image")
  BY <1>9, <1>10
<1>13. IF Param(p, "type") = "service" THEN serves(p) = serves(q) ELSE starts(p) = starts(q)
  BY <1>8, <1>10
<1>. QED
  BY <1>8, <1>11, <1>12, <1>13

LEMMA JobTemplatesAgree ==
    ASSUME NEW p, NEW q, JobTemplateIdentity(p) = JobTemplateIdentity(q), ~HalfArtifact(p), ~HalfArtifact(q)
    PROVE  Param(p, "artifactName") = Param(q, "artifactName") /\ Param(p, "tag") = Param(q, "tag")
<1> DEFINE id(x) == <<"jobTemplate", Param(x, "artifactName"), Param(x, "tag")>>
           bare == <<"jobTemplate", "image-only">>
<1>1. Len(id(p)) = 3 /\ Len(id(q)) = 3 /\ Len(bare) = 2
  OBVIOUS
<1>2. id(p) # bare /\ id(q) # bare
  <2>. HIDE DEF id, bare
  <2>. QED
    BY <1>1
<1>3. /\ JobTemplateIdentity(p) = IF ArtifactMode(p) THEN id(p) ELSE bare
      /\ JobTemplateIdentity(q) = IF ArtifactMode(q) THEN id(q) ELSE bare
  BY DEF JobTemplateIdentity
<1>4. CASE ArtifactMode(p) /\ ArtifactMode(q)
  <2>1. id(p) = id(q)
    BY <1>3, <1>4
  <2>. QED
    BY <2>1
<1>5. CASE ~ArtifactMode(p) /\ ~ArtifactMode(q)
  BY <1>5 DEF HalfArtifact, ArtifactMode, IsSet
<1>6. (ArtifactMode(p) /\ ArtifactMode(q)) \/ (~ArtifactMode(p) /\ ~ArtifactMode(q))
  <2>. HIDE DEF id, bare
  <2>. QED
    BY <1>2, <1>3
<1>. QED
  BY <1>4, <1>5, <1>6

-----------------------------------------------------------------------------
(* What Get reads of what a create sent. *)

LEMMA WatcherReads ==
    ASSUME NEW p, NEW c
    PROVE  /\ Param(WatcherObject(p, c), "buildType") = "app"
           /\ \A f \in {"repoUrl", "projectDir"} : Param(WatcherObject(p, c), f) = Param(p, f)
           /\ Param(WatcherObject(p, c), "autoTag") = AutoTag(p, c)
<1> DEFINE fields == [buildType |-> "app", repoUrl |-> Param(p, "repoUrl"), repoRef |-> Param(p, "repoRef"),
                   projectDir |-> Param(p, "projectDir"), autoTag |-> AutoTag(p, c)]
<1>1. WatcherObject(p, c) = Sent(fields)
  BY DEF WatcherObject
<1>2. \A f \in DOMAIN fields : Param(WatcherObject(p, c), f) = fields[f]
  <2>. HIDE DEF fields
  <2>. QED
    BY <1>1, SentReads
<1>. QED
  BY <1>2

LEMMA JobTemplateReads ==
    ASSUME NEW p, NEW c, NEW f \in {"artifactName", "tag"}
    PROVE  Param(JobTemplateObject(p, c), f) = Param(p, f)
<1> DEFINE fields == [image |-> Image(p, c), artifactName |-> Param(p, "artifactName"),
                   tag |-> Param(p, "tag"), resources |-> c.defaultResources]
<1>1. JobTemplateObject(p, c) = Sent(fields)
  BY DEF JobTemplateObject
<1>2. \A g \in DOMAIN fields : Param(JobTemplateObject(p, c), g) = fields[g]
  <2>. HIDE DEF fields
  <2>. QED
    BY <1>1, SentReads
<1>. QED
  BY <1>2

LEMMA ServiceTemplateReads ==
    ASSUME NEW p, NEW c
    PROVE  /\ \A f \in {"artifactName", "tag", "ingressName"} :
                 Param(ServiceTemplateObject(p, c), f) = Param(p, f)
           /\ Param(ServiceTemplateObject(p, c), "port") = Port(p)
<1> DEFINE fields == [image |-> Image(p, c), artifactName |-> Param(p, "artifactName"),
                   tag |-> Param(p, "tag"), resources |-> c.defaultResources,
                   port |-> Port(p), ingressName |-> Param(p, "ingressName")]
<1>1. ServiceTemplateObject(p, c) = Sent(fields)
  BY DEF ServiceTemplateObject
<1>2. \A f \in DOMAIN fields : Param(ServiceTemplateObject(p, c), f) = fields[f]
  <2>. HIDE DEF fields
  <2>. QED
    BY <1>1, SentReads
<1>. QED
  BY <1>2

LEMMA ChainReads ==
    ASSUME NEW p, NEW c
    PROVE  /\ \A f \in {"jobTemplate", "serviceTemplate"} : Param(ChainObject(p, c), f) = Param(p, f)
           /\ Param(ChainObject(p, c), "authMode") = Param(p, "externalAuthMode")
           /\ Param(ChainObject(p, c), "authName") = Param(p, "externalAuthName")
<1> DEFINE fields == [stepName |-> StepName(p, c), jobTemplate |-> Param(p, "jobTemplate"),
                   serviceTemplate |-> Param(p, "serviceTemplate"),
                   authMode |-> Param(p, "externalAuthMode"), authName |-> Param(p, "externalAuthName")]
<1>1. ChainObject(p, c) = Sent(fields)
  BY DEF ChainObject
<1>2. \A f \in DOMAIN fields : Param(ChainObject(p, c), f) = fields[f]
  <2>. HIDE DEF fields
  <2>. QED
    BY <1>1, SentReads
<1>. QED
  BY <1>2

LEMMA BatchTriggerReads ==
    ASSUME NEW p
    PROVE  /\ Param(BatchTriggerObject(p), "type") = "BatchCron"
           /\ Param(BatchTriggerObject(p), "chain") = Param(p, "chain")
<1> DEFINE fields == [type |-> "BatchCron", chain |-> Param(p, "chain"), jobs |-> Param(p, "jobs")]
<1>1. BatchTriggerObject(p) = Sent(fields)
  BY DEF BatchTriggerObject
<1>2. \A f \in DOMAIN fields : Param(BatchTriggerObject(p), f) = fields[f]
  <2>. HIDE DEF fields
  <2>. QED
    BY <1>1, SentReads
<1>. QED
  BY <1>2

LEMMA AppReads ==
    ASSUME NEW p, NEW c
    PROVE  /\ \A f \in {"type", "artifactName", "tag", "ingressName", "schedule"} :
                 Param(AppObject(p, c), f) = Param(p, f)
           /\ ~ArtifactMode(p) => Param(AppObject(p, c), "image") = Param(p, "image")
           /\ Param(AppObject(p, c), "port") = Port(p)
           /\ Param(AppObject(p, c), "entrypoints") = Entrypoints(p)
           /\ Param(AppObject(p, c), "authMode") = Param(p, "externalAuthMode")
           /\ Param(AppObject(p, c), "authName") = Param(p, "externalAuthName")
<1> DEFINE fields == [type |-> Param(p, "type"),
                   image |-> IF ArtifactMode(p) THEN Image(p, c) ELSE Param(p, "image"),
                   artifactName |-> Param(p, "artifactName"), tag |-> Param(p, "tag"),
                   resources |-> c.defaultResources,
                   port |-> Port(p), ingressName |-> Param(p, "ingressName"),
                   entrypoints |-> Entrypoints(p), schedule |-> Param(p, "schedule"),
                   authMode |-> Param(p, "externalAuthMode"), authName |-> Param(p, "externalAuthName")]
<1>1. AppObject(p, c) = Sent(fields)
  BY DEF AppObject
<1>2. \A f \in DOMAIN fields : Param(AppObject(p, c), f) = fields[f]
  <2>. HIDE DEF fields
  <2>. QED
    BY <1>1, SentReads
<1>. QED
  BY <1>2

LEMMA TriggerReads ==
    ASSUME NEW p
    PROVE  /\ \A f \in {"chain", "schedule"} : Param(TriggerObject(p), f) = Param(p, f)
           /\ Param(TriggerObject(p), "type") = TriggerType(p)
           /\ Param(TriggerObject(p), "authMode") = Param(p, "externalAuthOverrideMode")
           /\ Param(TriggerObject(p), "authName") = Param(p, "externalAuthOverrideName")
           /\ override \in DOMAIN TriggerObject(p) <=> override \in DOMAIN p
           /\ Param(TriggerObject(p), override) = Param(p, override)
<1> DEFINE set == [type |-> TriggerType(p), chain |-> Param(p, "chain"), schedule |-> Param(p, "schedule"),
                   authMode |-> Param(p, "externalAuthOverrideMode"),
                   authName |-> Param(p, "externalAuthOverrideName")]
<1>1. TriggerObject(p) = [f \in DOMAIN Sent(set) \cup (DOMAIN p \cap {override}) |->
                             IF f = override THEN p[f] ELSE Sent(set)[f]]
  BY DEF TriggerObject
<1>2. override \notin DOMAIN Sent(set)
  BY DEF Sent, override
<1>3. \A f : f # override => Param(TriggerObject(p), f) = Param(Sent(set), f)
  <2>. HIDE DEF set
  <2>. QED
    BY <1>1 DEF Param
<1>4. override \in DOMAIN TriggerObject(p) <=> override \in DOMAIN p
  <2>. HIDE DEF set
  <2>. QED
    BY <1>1, <1>2
<1>5. Param(TriggerObject(p), override) = Param(p, override)
  <2>. HIDE DEF set
  <2>. QED
    BY <1>1, <1>4 DEF Param
<1>6. \A f \in DOMAIN set : Param(Sent(set), f) = set[f]
  BY SentReads
<1>7. \A f \in {"type", "chain", "schedule", "authMode", "authName"} : f # override /\ f \in DOMAIN set
  BY DEF override
<1>8. \A f \in {"type", "chain", "schedule", "authMode", "authName"} : Param(TriggerObject(p), f) = set[f]
  <2>. HIDE DEF set
  <2>. QED
    BY <1>3, <1>6, <1>7
<1>. QED
  BY <1>4, <1>5, <1>8

-----------------------------------------------------------------------------
(* The theorems. *)

\* A port reads back as the params spell it.
PortReadsBack(p) == Port(p) = Param(p, "port")

\* Two steps of one type whose params both pass the step's own checks and whose spec
\* hashes are equal never conflict upstream, whatever the configurations they ran
\* under: the hash covers all that Get compares (ensure.go:23-26).  The exception is a
\* port that is spelled unlike the number it is.
THEOREM EqualHashesServe ==
    ASSUME NEW type, NEW p, NEW c, NEW q, NEW d,
           Resolved(p), Resolved(q), ~Refuses(type, p), ~Refuses(type, q),
           type \in {"serviceTemplate", "app"} => PortReadsBack(q),
           IdentityOf(type, p, c) = IdentityOf(type, q, d)
    PROVE  SameAs(type, p, c, ObjectOf(type, q, d))
<1> DEFINE made == ObjectOf(type, q, d)
           wanted == ObjectOf(type, p, c)
<1>1. SUFFICES /\ \A f \in Compared(type, p) :
                     Param(made, f) = IF f = "port" THEN Param(p, "port") ELSE Param(wanted, f)
               /\ type = "trigger" => (override \in DOMAIN made) = (override \in DOMAIN p)
  BY DEF SameAs, Expected
<1>2. CASE type = "gitWatcher"
  <2>1. made = WatcherObject(q, d) /\ wanted = WatcherObject(p, c)
    BY <1>2 DEF ObjectOf
  <2>2. WatcherIdentity(p, c) = WatcherIdentity(q, d)
    BY <1>2 DEF IdentityOf
  <2>3. Compared(type, p) = {"buildType", "repoUrl", "projectDir", "autoTag"}
    BY <1>2 DEF Compared
  <2>. HIDE DEF made, wanted
  <2>. QED
    BY <1>2, <2>1, <2>2, <2>3, WatchersAgree, WatcherReads
<1>3. CASE type = "jobTemplate"
  <2>1. made = JobTemplateObject(q, d) /\ wanted = JobTemplateObject(p, c)
    BY <1>3 DEF ObjectOf
  <2>2. JobTemplateIdentity(p) = JobTemplateIdentity(q) /\ ~HalfArtifact(p) /\ ~HalfArtifact(q)
    BY <1>3 DEF IdentityOf, Refuses
  <2>3. Compared(type, p) = {"artifactName", "tag"}
    BY <1>3 DEF Compared
  <2>. HIDE DEF made, wanted
  <2>. QED
    BY <1>3, <2>1, <2>2, <2>3, JobTemplatesAgree, JobTemplateReads
<1>4. CASE type = "serviceTemplate"
  <2>1. made = ServiceTemplateObject(q, d) /\ wanted = ServiceTemplateObject(p, c)
    BY <1>4 DEF ObjectOf
  <2>2. ServiceTemplateIdentity(p) = ServiceTemplateIdentity(q) /\ ~HalfArtifact(p) /\ ~HalfArtifact(q)
    BY <1>4 DEF IdentityOf, Refuses
  <2>3. Compared(type, p) = {"artifactName", "tag", "port", "ingressName"}
    BY <1>4 DEF Compared
  <2>. HIDE DEF made, wanted
  <2>. QED
    BY <1>4, <2>1, <2>2, <2>3, ServiceTemplatesAgree, ServiceTemplateReads DEF PortReadsBack
<1>5. CASE type = "chain"
  <2>1. made = ChainObject(q, d) /\ wanted = ChainObject(p, c)
    BY <1>5 DEF ObjectOf
  <2>2. ChainIdentity(p, c) = ChainIdentity(q, d) /\ ~BadChain(p) /\ ~BadChain(q)
    BY <1>5 DEF IdentityOf, Refuses
  <2>3. Compared(type, p) = {TemplateRef(p), "authMode", "authName"}
    BY <1>5 DEF Compared
  <2>4. TemplateRef(p) \in {"jobTemplate", "serviceTemplate"}
    BY DEF TemplateRef
  <2>. HIDE DEF made, wanted
  <2>. QED
    BY <1>5, <2>1, <2>2, <2>3, <2>4, ChainsAgree, ChainReads
<1>6. CASE type = "trigger"
  <2>1. made = TriggerObject(q) /\ wanted = TriggerObject(p)
    BY <1>6 DEF ObjectOf
  <2>2. TriggerIdentity(p) = TriggerIdentity(q) /\ ~BadTrigger(p) /\ ~BadTrigger(q)
    BY <1>6 DEF IdentityOf, Refuses
  <2>3. Compared(type, p) = {"chain", "type", "schedule", "authMode", "authName", override}
    BY <1>6 DEF Compared
  <2>4. override # "port"
    BY DEF override
  <2>. HIDE DEF made, wanted
  <2>. QED
    BY <1>6, <2>1, <2>2, <2>3, <2>4, TriggersAgree, TriggerReads
<1>7. CASE type = "batchTrigger"
  <2>1. made = BatchTriggerObject(q) /\ wanted = BatchTriggerObject(p)
    BY <1>7 DEF ObjectOf
  <2>2. <<"batchTrigger", Param(p, "chain"), Param(p, "jobs")>> = <<"batchTrigger", Param(q, "chain"), Param(q, "jobs")>>
    BY <1>7 DEF IdentityOf
  <2>3. Compared(type, p) = {"type", "chain"}
    BY <1>7 DEF Compared
  <2>. HIDE DEF made, wanted
  <2>. QED
    BY <1>7, <2>1, <2>2, <2>3, BatchTriggerReads
<1>8. CASE type = "app"
  <2>1. made = AppObject(q, d) /\ wanted = AppObject(p, c)
    BY <1>8 DEF ObjectOf
  <2>2. AppIdentity(p) = AppIdentity(q) /\ ~BadApp(p) /\ ~BadApp(q)
    BY <1>8 DEF IdentityOf, Refuses
  <2>3. Compared(type, p) =
            {"type", "artifactName", "tag"} \cup (IF ArtifactMode(p) THEN {} ELSE {"image"})
                \cup (IF Param(p, "type") = "service" THEN {"port", "ingressName"}
                      ELSE {"entrypoints", "schedule", "authMode", "authName"})
    BY <1>8 DEF Compared
  <2>4. ArtifactMode(p) = ArtifactMode(q)
    BY <2>2, AppsAgree DEF ArtifactMode, IsSet
  <2>. HIDE DEF made, wanted
  <2>. QED
    BY <1>8, <2>1, <2>2, <2>3, <2>4, AppsAgree, AppReads DEF PortReadsBack
<1>9. CASE type \notin {"gitWatcher", "jobTemplate", "serviceTemplate", "chain", "trigger", "batchTrigger", "app"}
  BY <1>9 DEF Compared
<1>. QED
  BY <1>2, <1>3, <1>4, <1>5, <1>6, <1>7, <1>8, <1>9

\* The runner image and resources are instance defaults and no part of the identity:
\* a template or app made before an edit of the configuration is not in conflict with
\* the same step after it (weavesteps.go:85-87, appstep.go:96-97).
THEOREM DefaultsAreNoIdentity ==
    ASSUME NEW type \in {"jobTemplate", "serviceTemplate", "app"}, NEW p, NEW c, NEW d,
           Resolved(p), ~Refuses(type, p), PortReadsBack(p)
    PROVE  /\ IdentityOf(type, p, c) = IdentityOf(type, p, d)
           /\ SameAs(type, p, c, ObjectOf(type, p, d))
<1>1. IdentityOf(type, p, c) = IdentityOf(type, p, d)
  BY DEF IdentityOf
<1>. QED
  BY <1>1, EqualHashesServe
=============================================================================
