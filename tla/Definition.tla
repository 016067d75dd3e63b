----------------------------- MODULE Definition -----------------------------
(***************************************************************************)
(* From a wizard definition to the calls of its steps: validation          *)
(* (src/internal/steps/catalog.go), parameters and placeholders            *)
(* (src/internal/params), expansion (src/internal/plan), creation of a run *)
(* (src/internal/apiserver/runs.go) and its reconcile, instance by         *)
(* instance, while the definition may be edited.  What a step does upstream *)
(* is left to Provision: here it succeeds unless it refuses its params.    *)
(***************************************************************************)
EXTENDS Catalogue

CONSTANTS Definitions,     \* the definitions the cluster may hold at first
          Edits,           \* and those it may be edited to
          Inputs,          \* the parameters a client may supply
          ConfigKeys,      \* the keys of ${config.x}
          Made,            \* the values of outputs that no param gives
          NoDefinition, NoRun, NoItem

\* A parameter's JSON value, as a list of items: a scalar is one item.  An
\* object's fields include its key.
Null == [json |-> "null", items |-> <<>>]
JsonOf == [string |-> "string", number |-> "number", boolean |-> "boolean",
           stringList |-> "strings", objectList |-> "objects"]
ListTypes == {"stringList", "objectList"}

\* A step param's template: a literal, or one reference; "broken" does not parse.
Literal(s) == [kind |-> "text", name |-> s, key |-> "", filtered |-> FALSE]
NoForEach == Literal("")

IsList(items) == DOMAIN items \subseteq Nat \ {0} /\ \A j \in DOMAIN items : items[j] # NoItem

\* What decoding the custom resource makes of any definition.
WellFormed(def) ==
    /\ \A i \in DOMAIN def.parameters :
          def.parameters[i].type \in DOMAIN JsonOf /\ IsList(def.parameters[i].default.items)
    /\ Len(def.steps) \in Nat /\ DOMAIN def.steps = 1..Len(def.steps)
    /\ \A i \in DOMAIN def.steps : \A k \in DOMAIN def.steps[i].params :
          def.steps[i].params[k].kind \in {"text", "params", "config", "steps", "item", "broken"}

ASSUME DefinitionAssumption ==
    /\ NoDefinition \notin Definitions \cup Edits
    /\ \A def \in Definitions \cup Edits : WellFormed(def)
    /\ \A supplied \in Inputs : \A n \in DOMAIN supplied : IsList(supplied[n].items)

VARIABLES definition,   \* the WizardDefinition
          run           \* the WizardRun: spec and status, or NoRun

vars == <<definition, run>>

-----------------------------------------------------------------------------
(* Parameters. *)

Names(def) == {def.parameters[i].name : i \in DOMAIN def.parameters}
Declared(def, n) == CHOOSE p \in {def.parameters[i] : i \in DOMAIN def.parameters} : p.name = n

Fits(type, raw) ==
    \/ raw.json = JsonOf[type]
    \/ type \in ListTypes /\ raw.json \in {"strings", "objects"} /\ raw.items = <<>>

\* A pattern is the set of strings it matches; one that does not compile is empty.
MatchesPattern(p, raw) ==
    p.type \in {"string", "stringList", "objectList"}
        => \A i \in DOMAIN raw.items : raw.items[i].key \in p.pattern

NotEmpty(p, raw) ==
    CASE p.type = "string" -> raw.items[1].key # ""
      [] p.type \in ListTypes -> raw.items # <<>>
      [] OTHER -> TRUE

UniqueKeys(items) ==
    /\ \A i \in DOMAIN items : items[i].key # ""
    /\ \A i, j \in DOMAIN items : items[i].key = items[j].key => i = j

\* decode: the value is one for this parameter.
Decodes(p, raw) ==
    /\ p.pattern # {}
    /\ Fits(p.type, raw)
    /\ p.required => NotEmpty(p, raw)
    /\ p.type = "objectList" => UniqueKeys(raw.items)
    /\ MatchesPattern(p, raw)

\* The supplied value or else the default; null stands for none.
Given(p, supplied) ==
    IF p.name \in DOMAIN supplied /\ supplied[p.name] # Null THEN supplied[p.name] ELSE p.default

ParametersOK(def, supplied) ==
    /\ DOMAIN supplied \subseteq Names(def)
    /\ \A i \in DOMAIN def.parameters :
          LET p == def.parameters[i] raw == Given(p, supplied)
          IN IF raw = Null THEN ~p.required ELSE Decodes(p, raw)

\* ResolveParameters: the typed values of the parameters that have one.
Values(def, supplied) ==
    [n \in {m \in Names(def) : Given(Declared(def, m), supplied) # Null} |->
        [type |-> Declared(def, n).type, items |-> Given(Declared(def, n), supplied).items]]

-----------------------------------------------------------------------------
(* Validation of a definition. *)

\* (mutant) Outputs of a forEach step are taken for those of a step.
RunsBeforeOften(def, i, name) ==
    {j \in 1..(i - 1) : def.steps[j].name = name}

\* The step of that name before step i, if it runs just once.
RunsBefore(def, i, name) ==
    {j \in 1..(i - 1) : def.steps[j].name = name /\ def.steps[j].forEach = NoForEach}

RefOK(def, i, r) ==
    CASE r.kind = "text" -> TRUE
      [] r.kind = "params" ->
            /\ r.name \in Names(def)
            /\ Declared(def, r.name).type # "stringList"
            /\ Declared(def, r.name).type = "objectList" => ~r.filtered
      [] r.kind = "config" -> r.name \in ConfigKeys
      [] r.kind = "steps" -> \E j \in RunsBefore(def, i, r.name) : r.key \in Outputs(def.steps[j].type)
      [] r.kind = "item" -> def.steps[i].forEach # NoForEach
      [] OTHER -> FALSE

\* ListRef: a forEach is one reference to a parameter and nothing else.
IsListRef(r) == r.kind = "params" /\ ~r.filtered

ForEachOK(def, r) ==
    IsListRef(r) /\ r.name \in Names(def) /\ Declared(def, r.name).type \in ListTypes

StepOK(def, i) ==
    LET st == def.steps[i] IN
    /\ st.type \in StepTypes
    /\ \A j \in 1..(i - 1) : def.steps[j].name # st.name /\ InOrder(def.steps[j].type, st.type)
    /\ Required[st.type] \subseteq DOMAIN st.params
    /\ DOMAIN st.params \subseteq Allowed(st.type)
    /\ \A k \in DOMAIN st.params : RefOK(def, i, st.params[k])
    /\ st.forEach # NoForEach => ForEachOK(def, st.forEach)

ValidateDefinition(def) ==
    /\ \A i, j \in DOMAIN def.parameters : def.parameters[i].name = def.parameters[j].name => i = j
    /\ \A i \in DOMAIN def.parameters :
          LET p == def.parameters[i] IN
          /\ p.pattern # {}
          /\ p.default # Null => Decodes([p EXCEPT !.required = FALSE], p.default)
    /\ \A i \in DOMAIN def.steps : StepOK(def, i)

-----------------------------------------------------------------------------
(* Expansion: instance <<i, j>> is step i for item j of its list; <<i, 0>> *)
(* is a step without forEach.                                              *)

Items(st, values) == values[st.forEach.name].items

Expandable(def, values) ==
    \A i \in DOMAIN def.steps :
        LET st == def.steps[i] IN
        st.forEach # NoForEach =>
            /\ IsListRef(st.forEach) /\ st.forEach.name \in DOMAIN values
            /\ values[st.forEach.name].type \in ListTypes
            /\ UniqueKeys(Items(st, values))

Plan(def, values) ==
    UNION {IF def.steps[i].forEach = NoForEach THEN {<<i, 0>>}
           ELSE {<<i, j>> : j \in DOMAIN Items(def.steps[i], values)} : i \in DOMAIN def.steps}

Before(p, q) == p[1] < q[1] \/ (p[1] = q[1] /\ p[2] < q[2])

-----------------------------------------------------------------------------
(* Placeholders, in a context c: values, config keys, outputs and an item. *)

Context(def, values, config, outputs, p) ==
    [values |-> values, config |-> config, outputs |-> outputs,
     item |-> IF p[2] = 0 THEN NoItem ELSE Items(def.steps[p[1]], values)[p[2]],
     \* only an object's fields can be asked for
     fields |-> IF p[2] = 0 THEN {}
                ELSE IF values[def.steps[p[1]].forEach.name].type = "objectList"
                     THEN DOMAIN Items(def.steps[p[1]], values)[p[2]].fields ELSE {}]

HasValue(r, c) ==
    CASE r.kind = "text" -> TRUE
      [] r.kind = "params" -> r.name \in DOMAIN c.values /\ c.values[r.name].type # "stringList"
      [] r.kind = "config" -> r.name \in c.config
      [] r.kind = "steps" -> r.name \in DOMAIN c.outputs /\ r.key \in DOMAIN c.outputs[r.name]
      [] r.kind = "item" -> c.item # NoItem /\ (r.name = "" \/ r.name \in c.fields)
      [] OTHER -> FALSE

Value(r, c) ==
    CASE r.kind = "text" -> r.name
      [] r.kind = "params" -> IF c.values[r.name].type = "objectList" THEN Json(c.values[r.name].items)
                              ELSE c.values[r.name].items[1].key
      [] r.kind = "steps" -> c.outputs[r.name][r.key]
      [] r.kind = "item" -> IF r.name = "" THEN c.item.key ELSE c.item.fields[r.name]
      [] OTHER -> Made[r.name]

\* A filter makes some other value of it.
Render(r, c) == IF r.filtered THEN "filtered" ELSE Value(r, c)

Resolvable(params, c) == \A k \in DOMAIN params : HasValue(params[k], c)
ResolveMap(params, c) == [k \in DOMAIN params |-> Render(params[k], c)]

-----------------------------------------------------------------------------
(* Creation of a run. *)

\* What the API knows of an instance's params: no config, no outputs.
EarlyContext(def, values, p) == Context(def, values, {}, <<>>, p)

\* validateStepParams: an app is checked as far as its params are known, a
\* chain or trigger when they all are.
EarlyParams(def, values, p) ==
    LET st == def.steps[p[1]]
        c == EarlyContext(def, values, p)
    IN [k \in DOMAIN st.params \cap ValidatesEarly(st.type) |->
            IF HasValue(st.params[k], c) THEN Render(st.params[k], c) ELSE Pending]

RefusedInstance(def, values, p) ==
    LET type == def.steps[p[1]].type
        early == EarlyParams(def, values, p)
    IN /\ type = "app" \/ \A k \in DOMAIN early : early[k] # Pending
       /\ RefusesEarly(type, early)

RefusedEarly(def, values) == \E p \in Plan(def, values) : RefusedInstance(def, values, p)

Accepts(def, supplied) ==
    /\ ValidateDefinition(def)
    /\ ParametersOK(def, supplied)
    /\ Expandable(def, Values(def, supplied))
    /\ ~RefusedEarly(def, Values(def, supplied))

NewRun(snapshot, supplied, creator) ==
    [snapshot |-> snapshot, supplied |-> supplied, creator |-> creator,
     phase |-> "Pending", problem |-> "", done |-> {}, outputs |-> <<>>]

\* (mutant) The API leaves the snapshot to the reconciler.
SnapshotLater(def) == NoDefinition

Snapshot(def) == def

Init ==
    /\ definition \in Definitions
    /\ run = NoRun

CreateRun ==
    /\ run = NoRun
    /\ \E supplied \in Inputs :
          /\ Accepts(definition, supplied)
          /\ run' = NewRun(Snapshot(definition), supplied, "api")
    /\ UNCHANGED definition

\* Somebody applies a run with kubectl: nothing is checked.
ApplyRun ==
    /\ run = NoRun
    /\ \E supplied \in Inputs : run' = NewRun(NoDefinition, supplied, "kubectl")
    /\ UNCHANGED definition

EditDefinition == definition' \in Edits /\ UNCHANGED run

-----------------------------------------------------------------------------
(* The reconciler. *)

Alive == run # NoRun /\ run.phase = "Pending"
Prepared == Alive /\ run.snapshot # NoDefinition
RunValues == Values(run.snapshot, run.supplied)

Fail(problem) == run' = [run EXCEPT !.phase = "Failed", !.problem = problem]

TakeSnapshot ==
    /\ Alive /\ run.snapshot = NoDefinition
    /\ IF ValidateDefinition(definition) THEN run' = [run EXCEPT !.snapshot = definition] ELSE Fail("definition")
    /\ UNCHANGED definition

CanStart == ParametersOK(run.snapshot, run.supplied) /\ Expandable(run.snapshot, RunValues)

Reject ==
    /\ Prepared /\ ~CanStart
    /\ Fail("parameters")
    /\ UNCHANGED definition

IsNext(p) ==
    /\ p \in Plan(run.snapshot, RunValues) \ run.done
    /\ \A q \in Plan(run.snapshot, RunValues) : Before(q, p) => q \in run.done

RunContext(p) == Context(run.snapshot, RunValues, ConfigKeys, run.outputs, p)

\* What a finished step provides: a param of that name, or what it made.
OutputsOf(type, params) ==
    [k \in Outputs(type) |-> IF IsSet(params, k) THEN params[k] ELSE Made[k]]

\* (mutant) The outputs of a forEach instance are kept as well.
WithAllOutputs(p, params) ==
    LET st == run.snapshot.steps[p[1]] IN
    [n \in DOMAIN run.outputs \cup {st.name} |->
        IF n = st.name THEN OutputsOf(st.type, params) ELSE run.outputs[n]]

\* Outputs of completed steps without forEach.
WithOutputs(p, params) ==
    LET st == run.snapshot.steps[p[1]] IN
    IF p[2] # 0 THEN run.outputs
    ELSE [n \in DOMAIN run.outputs \cup {st.name} |->
            IF n = st.name THEN OutputsOf(st.type, params) ELSE run.outputs[n]]

Unresolvable ==
    /\ Prepared /\ CanStart
    /\ \E p \in Plan(run.snapshot, RunValues) :
          IsNext(p) /\ ~Resolvable(run.snapshot.steps[p[1]].params, RunContext(p))
    /\ Fail("resolving")
    /\ UNCHANGED definition

\* The next instance runs, and refuses its params or succeeds.
RunStep ==
    /\ Prepared /\ CanStart
    /\ \E p \in Plan(run.snapshot, RunValues) :
          LET st == run.snapshot.steps[p[1]]
              params == ResolveMap(st.params, RunContext(p))
          IN /\ IsNext(p) /\ Resolvable(st.params, RunContext(p))
             /\ IF Refuses(st.type, params) THEN Fail("refused")
                ELSE run' = [run EXCEPT !.done = @ \cup {p}, !.outputs = WithOutputs(p, params)]
    /\ UNCHANGED definition

Finish ==
    /\ Prepared /\ CanStart
    /\ Plan(run.snapshot, RunValues) = run.done
    /\ run' = [run EXCEPT !.phase = "Ready"]
    /\ UNCHANGED definition

Next == CreateRun \/ ApplyRun \/ EditDefinition \/ TakeSnapshot \/ Reject \/ Unresolvable \/ RunStep \/ Finish

Spec == Init /\ [][Next]_vars

-----------------------------------------------------------------------------
(* Properties. *)

\* The definition and the run are well formed; a run has a step's outputs when
\* that step has no forEach and is done.
TypeOK ==
    /\ definition \in Definitions \cup Edits
    /\ run # NoRun =>
          /\ run.snapshot \in Definitions \cup Edits \cup {NoDefinition}
          /\ run.supplied \in Inputs
          /\ run.phase \in {"Pending", "Failed", "Ready"}
          /\ run.problem \in {"", "definition", "parameters", "resolving", "refused"}
          /\ (run.problem # "") = (run.phase = "Failed")
          /\ run.snapshot = NoDefinition => run.done = {} /\ run.outputs = <<>>
          /\ run.snapshot # NoDefinition =>
                /\ run.done # {} => run.done \subseteq Plan(run.snapshot, RunValues)
                /\ DOMAIN run.outputs = {run.snapshot.steps[p[1]].name : p \in {q \in run.done : q[2] = 0}}

\* A run the API accepted is never rejected by the reconciler before its steps
\* run, even when the definition is edited in between (runs.go:82-83,
\* run_controller.go:118-138).
CreateAgrees ==
    run # NoRun /\ run.creator = "api" => run.problem \notin {"definition", "parameters"}

\* A parameter that was left out, or a field of an item.
MayLackValue(r) ==
    \/ /\ r.kind = "params" /\ r.name \in Names(run.snapshot)
       /\ Given(Declared(run.snapshot, r.name), run.supplied) = Null
    \/ r.kind = "item" /\ r.name # ""

\* When a step of a validated definition is about to run, nothing else it
\* refers to is missing: every other parameter, config key, item and output of
\* an earlier step has its value (catalog.go:67-70, run_controller.go:270-274).
OnlyOmittedLack ==
    Prepared /\ CanStart =>
        \A p \in Plan(run.snapshot, RunValues) : IsNext(p) =>
            LET params == run.snapshot.steps[p[1]].params IN
            \A k \in DOMAIN params : HasValue(params[k], RunContext(p)) \/ MayLackValue(params[k])

\* The API refuses for its step params only what a step would refuse itself: a
\* run that gets ready is one it would have accepted (appstep.go:36-38,
\* runs.go:404-433).
RefusalsAreRight ==
    run # NoRun /\ run.phase = "Ready" => ~RefusedEarly(run.snapshot, RunValues)
=============================================================================
