-------------------------- MODULE DefinitionProofs --------------------------
(***************************************************************************)
(* Theorems about Definition, for any definitions, edits and inputs.       *)
(***************************************************************************)
EXTENDS Definition, TLAPS

AnyDefinition == Definitions \cup Edits

\* A run is the record NewRun makes.
IsRun ==
    run = [snapshot |-> run.snapshot, supplied |-> run.supplied, creator |-> run.creator,
           phase |-> run.phase, problem |-> run.problem, done |-> run.done, outputs |-> run.outputs]

\* Only a validated definition becomes a snapshot, and no step runs without one.
Snapshots ==
    run # NoRun =>
        /\ IsRun
        /\ run.supplied \in Inputs
        /\ run.snapshot # NoDefinition => run.snapshot \in AnyDefinition /\ ValidateDefinition(run.snapshot)
        /\ run.snapshot = NoDefinition => run.done = {}

\* A step without forEach that is done has left all its outputs.
OutputsThere ==
    run # NoRun =>
        \A p \in run.done :
            /\ p[1] \in DOMAIN run.snapshot.steps
            /\ p[2] = 0 =>
                /\ run.snapshot.steps[p[1]].name \in DOMAIN run.outputs
                /\ Outputs(run.snapshot.steps[p[1]].type) \subseteq
                       DOMAIN run.outputs[run.snapshot.steps[p[1]].name]

\* What the API has checked of a run.
ApiChecked ==
    run # NoRun /\ run.creator = "api" => run.snapshot # NoDefinition /\ CanStart

DefInv ==
    /\ definition \in AnyDefinition
    /\ Snapshots
    /\ OutputsThere
    /\ ApiChecked
    /\ CreateAgrees

-----------------------------------------------------------------------------
(* The shape of definitions and of instances. *)

\* The steps of a definition are numbered from one.
LEMMA StepNumbers ==
    ASSUME NEW def \in AnyDefinition
    PROVE  /\ Len(def.steps) \in Nat
           /\ DOMAIN def.steps = 1..Len(def.steps)
BY DefinitionAssumption DEF AnyDefinition, WellFormed

\* Items of a list are numbered from one, and none is the absence of an item.
LEMMA ItemNumbers ==
    ASSUME NEW def \in AnyDefinition, NEW supplied \in Inputs,
           NEW n \in DOMAIN Values(def, supplied),
           NEW j \in DOMAIN Values(def, supplied)[n].items
    PROVE  /\ j \in Nat \ {0}
           /\ Values(def, supplied)[n].items[j] # NoItem
<1> DEFINE p == Declared(def, n)
<1>1. n \in Names(def)
  BY DEF Values
<1>2. PICK i \in DOMAIN def.parameters : def.parameters[i].name = n
  BY <1>1 DEF Names
<1>3. p \in {def.parameters[h] : h \in DOMAIN def.parameters} /\ p.name = n
  BY <1>2 DEF Declared
<1>4. Values(def, supplied)[n].items = Given(p, supplied).items
  BY DEF Values
<1>5. IsList(Given(p, supplied).items)
  BY <1>3, DefinitionAssumption DEF Given, AnyDefinition, WellFormed
<1> QED
  BY <1>4, <1>5 DEF IsList

\* Every instance of the plan is of a step, and has an item exactly if that step
\* has a forEach.
LEMMA InstanceShape ==
    ASSUME NEW def \in AnyDefinition, NEW supplied \in Inputs,
           Expandable(def, Values(def, supplied)),
           NEW p \in Plan(def, Values(def, supplied))
    PROVE  /\ p = <<p[1], p[2]>>
           /\ p[1] \in DOMAIN def.steps
           /\ p[2] \in Nat
           /\ (p[2] = 0) = (def.steps[p[1]].forEach = NoForEach)
           /\ p[2] # 0 => Items(def.steps[p[1]], Values(def, supplied))[p[2]] # NoItem
<1> DEFINE values == Values(def, supplied)
<1>1. PICK i \in DOMAIN def.steps :
        p \in IF def.steps[i].forEach = NoForEach THEN {<<i, 0>>}
              ELSE {<<i, j>> : j \in DOMAIN Items(def.steps[i], values)}
  BY DEF Plan
<1>2. CASE def.steps[i].forEach = NoForEach
  BY <1>1, <1>2
<1>3. CASE def.steps[i].forEach # NoForEach
  <2>1. PICK j \in DOMAIN Items(def.steps[i], values) : p = <<i, j>>
    BY <1>1, <1>3
  <2>2. def.steps[i].forEach.name \in DOMAIN values
    BY <1>3 DEF Expandable
  <2>3. j \in Nat \ {0} /\ Items(def.steps[i], values)[j] # NoItem
    BY <2>1, <2>2, ItemNumbers DEF Items
  <2> QED
    BY <1>3, <2>1, <2>3
<1> QED
  BY <1>2, <1>3

\* A step without forEach is one instance of the plan.
LEMMA SingleInstance ==
    ASSUME NEW def, NEW values, NEW i \in DOMAIN def.steps, def.steps[i].forEach = NoForEach
    PROVE  <<i, 0>> \in Plan(def, values)
BY DEF Plan

\* Two steps of a valid definition have different names.
LEMMA DifferentNames ==
    ASSUME NEW def \in AnyDefinition, ValidateDefinition(def),
           NEW i \in DOMAIN def.steps, NEW j \in DOMAIN def.steps, i # j
    PROVE  def.steps[i].name # def.steps[j].name
<1>1. CASE j < i
  BY <1>1, StepNumbers DEF ValidateDefinition, StepOK
<1>2. CASE i < j
  BY <1>2, StepNumbers DEF ValidateDefinition, StepOK
<1> QED
  BY <1>1, <1>2, StepNumbers

-----------------------------------------------------------------------------
(* The invariant. *)

LEMMA InitInv == Init => DefInv
BY DEF Init, DefInv, AnyDefinition, Snapshots, OutputsThere, ApiChecked, CreateAgrees

\* A created run has no step done yet.
LEMMA CreateRunInv == DefInv /\ CreateRun => DefInv'
<1> SUFFICES ASSUME DefInv, CreateRun PROVE DefInv'
  OBVIOUS
<1>1. PICK supplied \in Inputs :
        Accepts(definition, supplied) /\ run' = NewRun(Snapshot(definition), supplied, "api")
  BY DEF CreateRun
<1>2. definition' = definition /\ definition \in AnyDefinition /\ definition # NoDefinition
  BY DefinitionAssumption DEF CreateRun, DefInv, AnyDefinition
<1>3. /\ run'.snapshot = definition /\ run'.supplied = supplied /\ run'.done = {} /\ run'.problem = ""
      /\ IsRun'
  BY <1>1 DEF NewRun, Snapshot, IsRun
<1>4. Snapshots'
  BY <1>1, <1>2, <1>3 DEF Snapshots, Accepts
<1>5. OutputsThere'
  BY <1>3 DEF OutputsThere
<1>6. ApiChecked' /\ CreateAgrees'
  BY <1>1, <1>2, <1>3 DEF ApiChecked, CreateAgrees, CanStart, RunValues, Accepts
<1> QED
  BY <1>2, <1>4, <1>5, <1>6 DEF DefInv

LEMMA ApplyRunInv == DefInv /\ ApplyRun => DefInv'
<1> SUFFICES ASSUME DefInv, ApplyRun PROVE DefInv'
  OBVIOUS
<1>1. PICK supplied \in Inputs : run' = NewRun(NoDefinition, supplied, "kubectl")
  BY DEF ApplyRun
<1>2. /\ run'.snapshot = NoDefinition /\ run'.supplied = supplied /\ run'.done = {}
      /\ run'.creator = "kubectl" /\ IsRun'
  BY <1>1 DEF NewRun, IsRun
<1> QED
  BY <1>1, <1>2 DEF ApplyRun, DefInv, Snapshots, OutputsThere, ApiChecked, CreateAgrees

LEMMA EditDefinitionInv == DefInv /\ EditDefinition => DefInv'
BY DEF EditDefinition, DefInv, AnyDefinition, Snapshots, IsRun, OutputsThere, ApiChecked, CreateAgrees, CanStart, RunValues

\* A run that fails changes its phase and problem only.
LEMMA FailKeeps ==
    ASSUME DefInv, run # NoRun, NEW problem, Fail(problem), UNCHANGED definition,
           run.creator = "api" => problem \notin {"definition", "parameters"}
    PROVE  DefInv'
<1>1. /\ run'.snapshot = run.snapshot /\ run'.supplied = run.supplied /\ run'.done = run.done
      /\ run'.outputs = run.outputs /\ run'.creator = run.creator /\ run'.problem = problem /\ IsRun'
  BY DEF DefInv, Snapshots, IsRun, Fail
<1> QED
  BY <1>1 DEF DefInv, Snapshots, OutputsThere, ApiChecked, CreateAgrees, CanStart, RunValues

LEMMA TakeSnapshotInv == DefInv /\ TakeSnapshot => DefInv'
<1> SUFFICES ASSUME DefInv, TakeSnapshot PROVE DefInv'
  OBVIOUS
<1>1. run # NoRun /\ run.snapshot = NoDefinition /\ run.creator # "api" /\ definition' = definition
  BY DEF TakeSnapshot, Alive, DefInv, ApiChecked
<1>2. CASE ValidateDefinition(definition)
  <2>1. run' = [run EXCEPT !.snapshot = definition]
    BY <1>2 DEF TakeSnapshot
  <2>2. /\ run'.snapshot = definition /\ run'.supplied = run.supplied /\ run'.done = run.done
        /\ run'.outputs = run.outputs /\ run'.creator = run.creator /\ run'.problem = run.problem /\ IsRun'
    BY <1>1, <2>1 DEF DefInv, Snapshots, IsRun
  <2>3. run'.done = {}
    BY <1>1, <2>2 DEF DefInv, Snapshots
  <2> QED
    BY <1>1, <1>2, <2>2, <2>3 DEF DefInv, Snapshots, OutputsThere, ApiChecked, CreateAgrees
<1>3. CASE ~ValidateDefinition(definition)
  BY <1>1, <1>3, FailKeeps DEF TakeSnapshot
<1> QED
  BY <1>2, <1>3

LEMMA RejectInv == DefInv /\ Reject => DefInv'
<1> SUFFICES ASSUME DefInv, Reject PROVE DefInv'
  OBVIOUS
<1>1. run # NoRun /\ run.creator # "api" /\ UNCHANGED definition
  BY DEF Reject, Prepared, Alive, DefInv, ApiChecked
<1> QED
  BY <1>1, FailKeeps DEF Reject

LEMMA UnresolvableInv == DefInv /\ Unresolvable => DefInv'
BY FailKeeps DEF Unresolvable, Prepared, Alive

\* A finished instance adds itself and, without forEach, its outputs.
LEMMA RunStepInv == DefInv /\ RunStep => DefInv'
<1> SUFFICES ASSUME DefInv, RunStep PROVE DefInv'
  OBVIOUS
<1> DEFINE def == run.snapshot
<1>1. run # NoRun /\ def # NoDefinition /\ CanStart /\ UNCHANGED definition
  BY DEF RunStep, Prepared, Alive
<1>2. def \in AnyDefinition /\ ValidateDefinition(def) /\ run.supplied \in Inputs /\ IsRun
  BY <1>1 DEF DefInv, Snapshots
<1>3. PICK p \in Plan(def, RunValues) :
        LET st == def.steps[p[1]]
            params == ResolveMap(st.params, RunContext(p))
        IN IF Refuses(st.type, params) THEN Fail("refused")
           ELSE run' = [run EXCEPT !.done = @ \cup {p}, !.outputs = WithOutputs(p, params)]
  BY DEF RunStep
<1> DEFINE st == def.steps[p[1]]
           params == ResolveMap(st.params, RunContext(p))
<1>4. CASE Refuses(st.type, params)
  BY <1>1, <1>3, <1>4, FailKeeps
<1>5. CASE ~Refuses(st.type, params)
  <2>1. run' = [run EXCEPT !.done = @ \cup {p}, !.outputs = WithOutputs(p, params)]
    BY <1>3, <1>5
  <2>2. /\ run'.snapshot = def /\ run'.supplied = run.supplied /\ run'.creator = run.creator
        /\ run'.problem = run.problem /\ run'.done = run.done \cup {p}
        /\ run'.outputs = WithOutputs(p, params) /\ IsRun'
    BY <1>2, <2>1 DEF IsRun
  <2>3. p[1] \in DOMAIN def.steps
    BY <1>1, <1>2, InstanceShape DEF CanStart, RunValues
  <2>4. OutputsThere'
    <3> SUFFICES ASSUME NEW q \in run.done \cup {p}
                 PROVE  /\ q[1] \in DOMAIN def.steps
                        /\ q[2] = 0 =>
                            /\ def.steps[q[1]].name \in DOMAIN WithOutputs(p, params)
                            /\ Outputs(def.steps[q[1]].type) \subseteq
                                   DOMAIN WithOutputs(p, params)[def.steps[q[1]].name]
      BY <2>2 DEF OutputsThere
    <3>1. q[1] \in DOMAIN def.steps
      BY <1>1, <2>3 DEF DefInv, OutputsThere
    <3>2. CASE p[2] # 0
      BY <1>1, <2>3, <3>2 DEF WithOutputs, DefInv, OutputsThere
    <3>3. CASE p[2] = 0
      <4>1. /\ DOMAIN WithOutputs(p, params) = DOMAIN run.outputs \cup {st.name}
            /\ \A n \in DOMAIN run.outputs \cup {st.name} :
                  WithOutputs(p, params)[n] = IF n = st.name THEN OutputsOf(st.type, params) ELSE run.outputs[n]
        BY <3>3 DEF WithOutputs
      <4>2. DOMAIN OutputsOf(st.type, params) = Outputs(st.type)
        BY DEF OutputsOf
      <4>3. CASE q[1] = p[1]
        BY <3>1, <4>1, <4>2, <4>3
      <4>4. CASE q[1] # p[1]
        <5>1. def.steps[q[1]].name # st.name
          BY <1>2, <2>3, <3>1, <4>4, DifferentNames
        <5>2. q \in run.done
          BY <4>4
        <5> QED
          BY <1>1, <3>1, <4>1, <5>1, <5>2 DEF DefInv, OutputsThere
      <4> QED
        BY <4>3, <4>4
    <3> QED
      BY <3>2, <3>3
  <2> QED
    BY <1>1, <1>2, <2>2, <2>4 DEF DefInv, Snapshots, ApiChecked, CreateAgrees, CanStart, RunValues
<1> QED
  BY <1>4, <1>5

LEMMA FinishInv == DefInv /\ Finish => DefInv'
<1> SUFFICES ASSUME DefInv, Finish PROVE DefInv'
  OBVIOUS
<1>1. run # NoRun /\ UNCHANGED definition /\ run' = [run EXCEPT !.phase = "Ready"]
  BY DEF Finish, Prepared, Alive
<1>2. /\ run'.snapshot = run.snapshot /\ run'.supplied = run.supplied /\ run'.done = run.done
      /\ run'.outputs = run.outputs /\ run'.creator = run.creator /\ run'.problem = run.problem /\ IsRun'
  BY <1>1 DEF DefInv, Snapshots, IsRun
<1> QED
  BY <1>1, <1>2 DEF DefInv, Snapshots, OutputsThere, ApiChecked, CreateAgrees, CanStart, RunValues

LEMMA StutterInv == DefInv /\ UNCHANGED vars => DefInv'
BY DEF vars, DefInv, Snapshots, IsRun, OutputsThere, ApiChecked, CreateAgrees, CanStart, RunValues

LEMMA Invariance == Spec => []DefInv
<1>1. DefInv /\ [Next]_vars => DefInv'
  BY CreateRunInv, ApplyRunInv, EditDefinitionInv, TakeSnapshotInv, RejectInv, UnresolvableInv,
     RunStepInv, FinishInv, StutterInv DEF Next
<1> QED
  BY <1>1, InitInv, PTL DEF Spec

-----------------------------------------------------------------------------
(* The theorems. *)

\* A run the API accepted is never rejected before its steps run
\* (runs.go:82-83), however the definition is edited.
THEOREM AcceptedIsNotRejected == Spec => []CreateAgrees
<1>1. DefInv => CreateAgrees
  BY DEF DefInv
<1> QED
  BY <1>1, Invariance, PTL

\* In a reachable state only omitted values are missing.
LEMMA OnlyOmitted == DefInv => OnlyOmittedLack
<1> SUFFICES ASSUME DefInv, Prepared, CanStart,
                    NEW p \in Plan(run.snapshot, RunValues), IsNext(p),
                    NEW k \in DOMAIN run.snapshot.steps[p[1]].params,
                    ~MayLackValue(run.snapshot.steps[p[1]].params[k])
             PROVE  HasValue(run.snapshot.steps[p[1]].params[k], RunContext(p))
  BY DEF OnlyOmittedLack
<1> DEFINE def == run.snapshot
           r == def.steps[p[1]].params[k]
           c == RunContext(p)
<1>1. run # NoRun /\ def \in AnyDefinition /\ ValidateDefinition(def) /\ run.supplied \in Inputs
  BY DEF Prepared, Alive, DefInv, Snapshots
<1>2. /\ p[1] \in DOMAIN def.steps
      /\ (p[2] = 0) = (def.steps[p[1]].forEach = NoForEach)
      /\ p[2] # 0 => Items(def.steps[p[1]], RunValues)[p[2]] # NoItem
  BY <1>1, InstanceShape DEF CanStart, RunValues
<1>3. RefOK(def, p[1], r)
  BY <1>1, <1>2 DEF ValidateDefinition, StepOK
<1>4. CASE r.kind = "text"
  BY <1>4 DEF HasValue
<1>5. CASE r.kind = "params"
  <2>1. r.name \in Names(def) /\ Declared(def, r.name).type # "stringList"
    BY <1>3, <1>5 DEF RefOK
  <2>2. Given(Declared(def, r.name), run.supplied) # Null
    BY <1>5, <2>1 DEF MayLackValue
  <2>3. r.name \in DOMAIN RunValues /\ RunValues[r.name].type = Declared(def, r.name).type
    BY <2>1, <2>2 DEF RunValues, Values
  <2> QED
    BY <1>5, <2>1, <2>3 DEF HasValue, RunContext, Context
<1>6. CASE r.kind = "config"
  BY <1>3, <1>6 DEF RefOK, HasValue, RunContext, Context
<1>7. CASE r.kind = "steps"
  <2>1. PICK j \in RunsBefore(def, p[1], r.name) : r.key \in Outputs(def.steps[j].type)
    BY <1>3, <1>7 DEF RefOK
  <2>2. /\ j \in DOMAIN def.steps /\ j < p[1]
        /\ def.steps[j].name = r.name /\ def.steps[j].forEach = NoForEach
    BY <1>1, <1>2, StepNumbers DEF RunsBefore
  <2>3. <<j, 0>> \in run.done
    BY <2>2, SingleInstance DEF IsNext, Before
  <2>4. r.name \in DOMAIN run.outputs /\ r.key \in DOMAIN run.outputs[r.name]
    BY <1>1, <2>1, <2>2, <2>3 DEF DefInv, OutputsThere
  <2> QED
    BY <1>7, <2>4 DEF HasValue, RunContext, Context
<1>8. CASE r.kind = "item"
  <2>1. p[2] # 0 /\ r.name = ""
    BY <1>2, <1>3, <1>8 DEF RefOK, MayLackValue
  <2> QED
    BY <1>2, <1>8, <2>1 DEF HasValue, RunContext, Context
<1> QED
  BY <1>3, <1>4, <1>5, <1>6, <1>7, <1>8 DEF RefOK

\* When a step of a validated definition is about to run, only an omitted
\* parameter or a field of its item can be missing (catalog.go:67-70).
THEOREM ValidatedResolves == Spec => []OnlyOmittedLack
BY Invariance, OnlyOmitted, PTL

-----------------------------------------------------------------------------
(* What the API refuses, a step refuses. *)

\* No step that is done would have been refused when the run was created, and
\* every step of a ready run is done.
RightInv ==
    run # NoRun =>
        /\ \A p \in run.done : ~RefusedInstance(run.snapshot, RunValues, p)
        /\ run.phase = "Ready" => Plan(run.snapshot, RunValues) \subseteq run.done

\* Where the API knows a value, the step finds the same.
LEMMA EarlyIsLate ==
    ASSUME NEW p, NEW k \in ValidatesEarly(run.snapshot.steps[p[1]].type)
    PROVE  LET st == run.snapshot.steps[p[1]]
               early == EarlyParams(run.snapshot, RunValues, p)
               late == ResolveMap(st.params, RunContext(p))
           IN /\ DOMAIN early = DOMAIN st.params \cap ValidatesEarly(st.type)
              /\ Param(early, k) = Pending \/ Param(early, k) = Param(late, k)
<1> DEFINE st == run.snapshot.steps[p[1]]
           early == EarlyParams(run.snapshot, RunValues, p)
           late == ResolveMap(st.params, RunContext(p))
           c == EarlyContext(run.snapshot, RunValues, p)
<1>1. /\ DOMAIN early = DOMAIN st.params \cap ValidatesEarly(st.type)
      /\ DOMAIN late = DOMAIN st.params
  BY DEF EarlyParams, ResolveMap
<1>2. CASE k \notin DOMAIN st.params
  BY <1>1, <1>2 DEF Param
<1>3. CASE k \in DOMAIN st.params /\ ~HasValue(st.params[k], c)
  BY <1>1, <1>3 DEF Param, EarlyParams
<1>4. CASE k \in DOMAIN st.params /\ HasValue(st.params[k], c)
  <2> DEFINE r == st.params[k]
  <2>1. c.config = {} /\ DOMAIN c.outputs = {}
    <3>1. c.config = {} /\ c.outputs = <<>>
      BY DEF EarlyContext, Context
    <3>2. DOMAIN <<>> = {}
      OBVIOUS
    <3> QED
      BY <3>1, <3>2
  <2>2. /\ RunContext(p).values = c.values /\ RunContext(p).item = c.item
        /\ RunContext(p).fields = c.fields
    BY DEF RunContext, EarlyContext, Context
  <2>3. r.kind \notin {"config", "steps"}
    BY <1>4, <2>1 DEF HasValue
  <2>4. r.kind \in {"text", "params", "item"}
    BY <1>4, <2>3 DEF HasValue
  <2>5. Value(r, c) = Value(r, RunContext(p))
    BY <2>2, <2>4 DEF Value
  <2>6. Render(r, c) = Render(r, RunContext(p))
    BY <2>5 DEF Render
  <2> QED
    BY <1>1, <1>4, <2>6 DEF Param, EarlyParams, ResolveMap
<1> QED
  BY <1>1, <1>2, <1>3, <1>4

\* The checks of an app look at known values only, so what they refuse with some
\* values unknown they refuse whatever those turn out to be.
LEMMA AppMonotone ==
    ASSUME NEW p, NEW q,
           \A k \in ValidatesEarly("app") : Param(p, k) = Pending \/ Param(p, k) = Param(q, k),
           BadApp(p)
    PROVE  BadApp(q)
<1>1. ValidatesEarly("app") = {"type", "image", "artifactName", "tag", "port", "ingressName", "schedule",
                               "entrypoints", "fireOnCreate", "externalAuthMode", "externalAuthName"}
  BY DEF ValidatesEarly, Allowed, Required, Optional
<1>2. \A k \in ValidatesEarly("app") : Param(p, k) # Pending => Param(q, k) = Param(p, k)
  OBVIOUS
<1>3. Param(p, "type") = Param(q, "type") /\ Known(q, {"type"})
  BY <1>1, <1>2 DEF BadApp, Known
<1>4. CASE Param(p, "type") \notin {"service", "job"}
  BY <1>3, <1>4 DEF BadApp
<1>5. CASE BadImage(p)
  <2>1. BadImage(q)
    BY <1>1, <1>2, <1>5 DEF BadImage, Known, HalfArtifact, IsSet
  <2> QED
    BY <1>3, <2>1 DEF BadApp
<1>6. CASE BadAppAuth(p)
  <2>1. BadAppAuth(q)
    BY <1>1, <1>2, <1>3, <1>6 DEF BadAppAuth, Known, BadAuthPair, IsSet
  <2> QED
    BY <1>3, <2>1 DEF BadApp
<1>7. CASE Param(p, "type") = "service" /\ BadService(p)
  <2>1. BadService(q)
    BY <1>1, <1>2, <1>7 DEF BadService, SetOneOf, Known, IsSet
  <2> QED
    BY <1>3, <1>7, <2>1 DEF BadApp
<1>8. CASE Param(p, "type") = "job" /\ BadJob(p)
  <2>1. BadJob(q)
    BY <1>1, <1>2, <1>8 DEF BadJob, SetOneOf, Known, IsSet
  <2> QED
    BY <1>3, <1>8, <2>1 DEF BadApp
<1> QED
  BY <1>4, <1>5, <1>6, <1>7, <1>8 DEF BadApp

\* A step whose params the API would refuse refuses them itself.
LEMMA RefusedEarlyIsRefused ==
    ASSUME NEW p, RefusedInstance(run.snapshot, RunValues, p)
    PROVE  LET st == run.snapshot.steps[p[1]]
           IN Refuses(st.type, ResolveMap(st.params, RunContext(p)))
<1> DEFINE type == run.snapshot.steps[p[1]].type
           early == EarlyParams(run.snapshot, RunValues, p)
           late == ResolveMap(run.snapshot.steps[p[1]].params, RunContext(p))
<1>1. /\ type = "app" \/ \A k \in DOMAIN early : early[k] # Pending
      /\ RefusesEarly(type, early)
  BY DEF RefusedInstance
<1>2. \A k \in ValidatesEarly(type) : Param(early, k) = Pending \/ Param(early, k) = Param(late, k)
  BY EarlyIsLate
<1>3. CASE type = "app"
  <2>1. BadApp(late)
    BY <1>1, <1>2, <1>3, AppMonotone DEF RefusesEarly
  <2> QED
    BY <1>3, <2>1 DEF Refuses
<1>4. CASE type \in {"chain", "trigger"}
  <2>1. \A k \in ValidatesEarly(type) : Param(early, k) # Pending
    BY <1>1, <1>4, CatalogueAssumption DEF Param
  <2>2. \A k \in ValidatesEarly(type) : Param(early, k) = Param(late, k)
    BY <1>2, <2>1
  <2>3. CASE type = "chain"
    BY <1>1, <2>2, <2>3 DEF ValidatesEarly, RefusesEarly, Refuses, BadChain, BadAuthPair
  <2>4. CASE type = "trigger"
    BY <1>1, <2>2, <2>4 DEF ValidatesEarly, RefusesEarly, Refuses, BadTrigger, BadAuthPair
  <2> QED
    BY <1>4, <2>3, <2>4
<1> QED
  BY <1>1, <1>3, <1>4 DEF RefusesEarly

\* Every step keeps RightInv: a finished instance has not refused its params.
LEMMA RightStep == DefInv /\ RightInv /\ [Next]_vars => RightInv'
<1> SUFFICES ASSUME DefInv, RightInv, [Next]_vars PROVE RightInv'
  OBVIOUS
<1>1. CASE CreateRun
  <2>1. PICK supplied \in Inputs : run' = NewRun(Snapshot(definition), supplied, "api")
    BY <1>1 DEF CreateRun
  <2>2. run'.done = {} /\ run'.phase = "Pending"
    BY <2>1 DEF NewRun
  <2> QED
    BY <2>2 DEF RightInv
<1>2. CASE ApplyRun
  <2>1. PICK supplied \in Inputs : run' = NewRun(NoDefinition, supplied, "kubectl")
    BY <1>2 DEF ApplyRun
  <2>2. run'.done = {} /\ run'.phase = "Pending"
    BY <2>1 DEF NewRun
  <2> QED
    BY <2>2 DEF RightInv
<1>3. CASE EditDefinition
  BY <1>3 DEF EditDefinition, RightInv, RunValues
<1>4. CASE TakeSnapshot
  <2>1. run # NoRun /\ run.phase = "Pending" /\ run.done = {} /\ IsRun
    BY <1>4 DEF TakeSnapshot, Alive, DefInv, Snapshots
  <2>2. run'.done = {} /\ run'.phase # "Ready"
    BY <1>4, <2>1 DEF TakeSnapshot, IsRun, Fail
  <2> QED
    BY <2>2 DEF RightInv
<1>5. ASSUME run # NoRun, NEW problem, Fail(problem) PROVE RightInv'
  <2>1. /\ run'.snapshot = run.snapshot /\ run'.supplied = run.supplied
        /\ run'.done = run.done /\ run'.phase = "Failed"
    BY <1>5 DEF Fail, DefInv, Snapshots, IsRun
  <2> QED
    BY <1>5, <2>1 DEF RightInv, RunValues
<1>6. CASE Reject
  BY <1>5, <1>6 DEF Reject, Prepared, Alive
<1>7. CASE Unresolvable
  BY <1>5, <1>7 DEF Unresolvable, Prepared, Alive
<1>8. CASE RunStep
  <2>1. run # NoRun /\ run.phase = "Pending" /\ IsRun
    BY <1>8 DEF RunStep, Prepared, Alive, DefInv, Snapshots
  <2>2. PICK p \in Plan(run.snapshot, RunValues) :
          LET st == run.snapshot.steps[p[1]]
              params == ResolveMap(st.params, RunContext(p))
          IN IF Refuses(st.type, params) THEN Fail("refused")
             ELSE run' = [run EXCEPT !.done = @ \cup {p}, !.outputs = WithOutputs(p, params)]
    BY <1>8 DEF RunStep
  <2> DEFINE st == run.snapshot.steps[p[1]]
             params == ResolveMap(st.params, RunContext(p))
  <2>3. CASE Refuses(st.type, params)
    BY <1>5, <2>1, <2>2, <2>3
  <2>4. CASE ~Refuses(st.type, params)
    <3>1. run' = [run EXCEPT !.done = @ \cup {p}, !.outputs = WithOutputs(p, params)]
      BY <2>2, <2>4
    <3>2. /\ run'.snapshot = run.snapshot /\ run'.supplied = run.supplied
          /\ run'.done = run.done \cup {p} /\ run'.phase = "Pending"
      BY <2>1, <3>1 DEF IsRun
    <3>3. ~RefusedInstance(run.snapshot, RunValues, p)
      BY <2>4, RefusedEarlyIsRefused
    <3> QED
      BY <2>1, <3>2, <3>3 DEF RightInv, RunValues
  <2> QED
    BY <2>3, <2>4
<1>9. CASE Finish
  <2>1. run # NoRun /\ IsRun /\ Plan(run.snapshot, RunValues) = run.done
    BY <1>9 DEF Finish, Prepared, Alive, DefInv, Snapshots
  <2>2. /\ run'.snapshot = run.snapshot /\ run'.supplied = run.supplied /\ run'.done = run.done
    BY <1>9, <2>1 DEF Finish, IsRun
  <2> QED
    BY <2>1, <2>2 DEF RightInv, RunValues
<1>10. CASE UNCHANGED vars
  BY <1>10 DEF vars, RightInv, RunValues
<1> QED
  BY <1>1, <1>2, <1>3, <1>4, <1>6, <1>7, <1>8, <1>9, <1>10 DEF Next

\* The API refuses no run whose steps would all have succeeded
\* (appstep.go:36-38, runs.go:404-433).
THEOREM RefusalsRight == Spec => []RefusalsAreRight
<1>1. Init => RightInv
  BY DEF Init, RightInv
<1>2. RightInv => RefusalsAreRight
  BY DEF RightInv, RefusalsAreRight, RefusedEarly
<1> QED
  BY <1>1, <1>2, RightStep, Invariance, PTL DEF Spec

\* A new run has no step done and no outputs.
LEMMA NewRunTyped ==
    ASSUME DefInv, NEW snapshot \in AnyDefinition \cup {NoDefinition}, NEW supplied \in Inputs, NEW creator,
           run' = NewRun(snapshot, supplied, creator), definition' = definition
    PROVE  TypeOK'
<1>1. /\ run'.snapshot = snapshot /\ run'.supplied = supplied /\ run'.phase = "Pending"
      /\ run'.problem = "" /\ run'.done = {} /\ run'.outputs = <<>>
  BY DEF NewRun
<1>2. DOMAIN <<>> = {}
  OBVIOUS
<1>. QED
  BY <1>1, <1>2 DEF TypeOK, DefInv, AnyDefinition

\* A run that ends keeps all but its phase and its problem.
LEMMA EndTyped ==
    ASSUME DefInv, TypeOK, run # NoRun, UNCHANGED definition,
           NEW phase, NEW problem,
           run' = [run EXCEPT !.phase = phase, !.problem = problem],
           \/ phase = "Ready" /\ problem = ""
           \/ phase = "Failed" /\ problem \in {"definition", "parameters", "resolving", "refused"}
    PROVE  TypeOK'
<1> DEFINE names(snapshot, done) == {snapshot.steps[p[1]].name : p \in {q \in done : q[2] = 0}}
<1>1. /\ run'.snapshot = run.snapshot /\ run'.supplied = run.supplied /\ run'.done = run.done
      /\ run'.outputs = run.outputs /\ run'.phase = phase /\ run'.problem = problem
  BY DEF DefInv, Snapshots, IsRun
<1>2. (problem # "") <=> (phase = "Failed")
  OBVIOUS
<1>3. Plan(run'.snapshot, RunValues') = Plan(run.snapshot, RunValues)
  BY <1>1 DEF RunValues
<1>4. DOMAIN run'.outputs = DOMAIN run.outputs
  BY <1>1
<1>5. /\ run.snapshot \in Definitions \cup Edits \cup {NoDefinition} /\ run.supplied \in Inputs
      /\ run.snapshot = NoDefinition => run.done = {} /\ run.outputs = <<>>
      /\ run.snapshot # NoDefinition =>
            /\ run.done # {} => run.done \subseteq Plan(run.snapshot, RunValues)
            /\ DOMAIN run.outputs = names(run.snapshot, run.done)
  BY DEF TypeOK
<1>6. names(run'.snapshot, run'.done) = names(run.snapshot, run.done)
  BY <1>1, Zenon
<1> HIDE DEF names
<1>7. /\ run'.snapshot = NoDefinition => run'.done = {} /\ run'.outputs = <<>>
      /\ run'.snapshot # NoDefinition =>
            /\ run'.done # {} => run'.done \subseteq Plan(run'.snapshot, RunValues')
            /\ DOMAIN run'.outputs = names(run'.snapshot, run'.done)
  BY <1>1, <1>3, <1>5, <1>6
<1>8. /\ run'.phase \in {"Pending", "Failed", "Ready"}
      /\ run'.problem \in {"", "definition", "parameters", "resolving", "refused"}
      /\ (run'.problem # "") = (run'.phase = "Failed")
  BY <1>1, <1>2
<1>9. definition' \in Definitions \cup Edits
  BY DEF TypeOK
<1>. QED
  BY <1>1, <1>5, <1>7, <1>8, <1>9 DEF TypeOK, names

LEMMA RunStepTyped == DefInv /\ TypeOK /\ RunStep => TypeOK'
<1>. SUFFICES ASSUME DefInv, TypeOK, RunStep PROVE TypeOK'
  OBVIOUS
<1> DEFINE def == run.snapshot
           named(done) == {def.steps[q[1]].name : q \in {i \in done : i[2] = 0}}
<1>1. run # NoRun /\ def # NoDefinition /\ UNCHANGED definition /\ IsRun /\ run.phase = "Pending"
  BY DEF RunStep, Prepared, Alive, DefInv, Snapshots
<1>2. PICK p \in Plan(def, RunValues) :
        LET st == def.steps[p[1]]
            params == ResolveMap(st.params, RunContext(p))
        IN IF Refuses(st.type, params) THEN Fail("refused")
           ELSE run' = [run EXCEPT !.done = @ \cup {p}, !.outputs = WithOutputs(p, params)]
  BY DEF RunStep
<1> DEFINE params == ResolveMap(def.steps[p[1]].params, RunContext(p))
<1>3. CASE Fail("refused")
  BY <1>1, <1>3, EndTyped DEF Fail, TypeOK
<1>4. CASE run' = [run EXCEPT !.done = @ \cup {p}, !.outputs = WithOutputs(p, params)]
  <2>1. /\ run'.snapshot = def /\ run'.supplied = run.supplied /\ run'.phase = run.phase
        /\ run'.problem = run.problem /\ run'.done = run.done \cup {p}
        /\ run'.outputs = WithOutputs(p, params)
    BY <1>1, <1>4 DEF IsRun
  <2>2. /\ def \in Definitions \cup Edits /\ run.done \subseteq Plan(def, RunValues)
        /\ DOMAIN run.outputs = named(run.done)
    BY <1>1 DEF TypeOK
  <2>3. DOMAIN WithOutputs(p, params) = DOMAIN run.outputs \cup (IF p[2] = 0 THEN {def.steps[p[1]].name} ELSE {})
    BY DEF WithOutputs
  <2>4. named(run.done \cup {p}) = named(run.done) \cup (IF p[2] = 0 THEN {def.steps[p[1]].name} ELSE {})
    OBVIOUS
  <2>5. Plan(def, RunValues)' = Plan(def, RunValues) /\ run.done \cup {p} \subseteq Plan(def, RunValues)
    BY <2>1, <2>2 DEF RunValues
  <2>6. DOMAIN run'.outputs = {run'.snapshot.steps[q[1]].name : q \in {i \in run'.done : i[2] = 0}}
    <3>1. DOMAIN run'.outputs = named(run.done \cup {p})
      BY <2>1, <2>2, <2>3, <2>4
    <3>. QED
      BY <2>1, <3>1
  <2>7. /\ run'.supplied \in Inputs /\ run'.phase = "Pending" /\ run'.problem = ""
        /\ definition' \in Definitions \cup Edits
    BY <1>1, <2>1 DEF TypeOK
  <2>8. run'.done \subseteq Plan(run'.snapshot, RunValues')
    BY <2>1, <2>5
  <2>. QED
    BY <1>1, <2>1, <2>2, <2>6, <2>7, <2>8 DEF TypeOK
<1>. QED
  BY <1>2, <1>3, <1>4

LEMMA TypeStep == DefInv /\ TypeOK /\ [Next]_vars => TypeOK'
<1>. SUFFICES ASSUME DefInv, TypeOK, [Next]_vars PROVE TypeOK'
  OBVIOUS
<1>1. CASE CreateRun
  BY <1>1, NewRunTyped DEF CreateRun, Snapshot, DefInv
<1>2. CASE ApplyRun
  BY <1>2, NewRunTyped DEF ApplyRun
<1>3. CASE EditDefinition
  BY <1>3 DEF EditDefinition, TypeOK, RunValues
<1>4. CASE TakeSnapshot
  <2>1. run # NoRun /\ run.phase = "Pending" /\ run.snapshot = NoDefinition /\ UNCHANGED definition
    BY <1>4 DEF TakeSnapshot, Alive
  <2>2. CASE ValidateDefinition(definition)
    <3>1. run' = [run EXCEPT !.snapshot = definition]
      BY <1>4, <2>2 DEF TakeSnapshot
    <3>2. /\ run'.snapshot = definition /\ run'.supplied = run.supplied /\ run'.phase = run.phase
          /\ run'.problem = run.problem /\ run'.done = run.done /\ run'.outputs = run.outputs
      BY <2>1, <3>1 DEF DefInv, Snapshots, IsRun
    <3>3. run.done = {} /\ run.outputs = <<>> /\ definition # NoDefinition
      BY <2>1, DefinitionAssumption DEF TypeOK
    <3>4. DOMAIN <<>> = {}
      OBVIOUS
    <3>. QED
      BY <2>1, <3>2, <3>3, <3>4 DEF TypeOK
  <2>3. CASE Fail("definition")
    BY <2>1, <2>3, EndTyped DEF Fail, TypeOK
  <2>. QED
    BY <1>4, <2>2, <2>3 DEF TakeSnapshot
<1>5. CASE Reject \/ Unresolvable
  <2>1. run # NoRun /\ run.phase = "Pending" /\ UNCHANGED definition /\ (Fail("parameters") \/ Fail("resolving"))
    BY <1>5 DEF Reject, Unresolvable, Prepared, Alive
  <2>. QED
    BY <2>1, EndTyped DEF Fail, TypeOK
<1>6. CASE RunStep
  BY <1>6, RunStepTyped
<1>7. CASE Finish
  <2>1. /\ run # NoRun /\ run.phase = "Pending" /\ run.problem = "" /\ UNCHANGED definition
        /\ run' = [run EXCEPT !.phase = "Ready"]
    BY <1>7 DEF Finish, Prepared, Alive, TypeOK
  <2>2. run' = [run EXCEPT !.phase = "Ready", !.problem = ""]
    BY <2>1 DEF DefInv, Snapshots, IsRun
  <2>. QED
    BY <2>1, <2>2, EndTyped
<1>8. CASE UNCHANGED vars
  BY <1>8 DEF vars, TypeOK, RunValues
<1>. QED
  BY <1>1, <1>2, <1>3, <1>4, <1>5, <1>6, <1>7, <1>8 DEF Next

\* A run stays well formed, and has exactly the outputs of its finished steps without
\* forEach (run_controller.go:213-219, 250).
THEOREM DefinitionTyping == Spec => []TypeOK
<1>1. Init => TypeOK
  BY DEF Init, TypeOK
<1>. QED
  BY <1>1, TypeStep, Invariance, PTL DEF Spec
=============================================================================
