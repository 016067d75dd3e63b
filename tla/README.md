# fusion-wizard: a TLA+ model of the operator

fusion-wizard runs *WizardRuns*: a run provisions the steps of a definition
(git watchers, build artifacts, tags, templates, chains, triggers, apps) in
three upstream services (forge, index, weave), shares resources with other runs
through a *ledger* kept in the cluster, and rolls everything back when asked or
deleted. This directory models that core, model-checks it with TLC and proves
with TLAPS, for all values of the constants and under the hypotheses named in Proofs,
every safety property and refinement that the passing runs check. The text of a definition's comment names the source
lines it is about; `PROJECT.json` maps every definition to its lines.

## Inventory

| Part | State | Operations | Hard about it | What makes it correct |
|---|---|---|---|---|
| Ledger, `internal/ledger/ledger.go` | one WizardResource object per resource: refs, managed, terminating, spec hash, external ID | Get, Register, AddRef, Release, Finish, List | optimistic updates by many goroutines, reads from a cache, lost answers, deletes without preconditions | no reference is lost, one deleter, nothing in use is deleted |
| Ensure, `internal/steps/ensure.go` | none of its own; ledger and upstream | `ensure`: read entry, look upstream, record, create, record ID, re-point | every request is a window for other runs, people, forge and crashes | nothing leaks, people's resources survive, users get what agrees with their ask |
| Rollback and sweep, `internal/steps/rollback.go`, `internal/controller/envfactory.go` | a list taken at the start | Rollback, SweepTerminating, the Sweeper's ticks | works from a snapshot, goes on past failures, runs beside other rollbacks | done means nothing held; interrupted deletions are finished; watcher before artifact |
| Run controller, `internal/controller/run_controller.go` | the WizardRun: spec, finalizer, annotation, status | Reconcile with apply, rollback, deletion, retry | stale reads, patches without version checks, status writes that trigger nothing, crashes between requests | finalizer before references, results kept, everything comes to an end |
| Step catalogue, `internal/steps/*.go` | none; `waitBuild` keeps the build it follows in the run | one Ensure per step type, `waitBuild`'s polling, validation | effects after a create, timeouts, forge replacing builds, checks with half the values | as for ensure; a wait ends; what validates resolves |
| API server, `internal/apiserver/` | none | create, retry, rollback, bulk rollback, delete, views | read-then-patch on a run the controller changes | a request that is accepted is served |
| Plan, params | none | pure functions | checks at creation and at run time by different code | both agree |
| Instance config, `internal/instancecfg/config.go` | one ConfigMap, read by every reconcile | Parse, Values | edited while runs share resources made with the old defaults | new defaults are no conflict; every key a placeholder names has a value |
| Upstream clients, `internal/upstream/` | none | HTTP calls | which failures are transient | callers see the right class |
| Process wiring, charts, generated code | none | none | worker count, cached client, leader election | none |

Parts interact as follows. The work queue hands a run to the controller. The
controller calls a step's Ensure, or Rollback; these call the ledger and the
upstream services. A Sweeper goroutine calls SweepTerminating on its own. The
API server and kubectl only write the run object. Nothing is shared in memory:
all coordination is through objects in the cluster.

## Modules

* `LedgerSpec`: the ledger's contract as its package comment states it: users of
  a key, live, terminating or absent.
* `Ledger`: the package, request by request. `entries` is what the API server
  stores and `cache` what the client reads; a call keeps in `calls` the object it
  read; `pending` are the entries whose removal a caller has taken on, `toDelete` those of
  them that it was told are managed, so that it deletes the resource first; `held` is what
  callers were told about their references, and is only there for the
  properties. Callers are the reconciles of the runs and the sweeper.
* `Provision`: Ensure, Rollback and sweep. Each upstream request is one step. A
  ledger call is one step too: `Ledger` shows that such a call takes effect at
  once when reads are current (it implements `LedgerSpec`), and `Provision` is
  itself checked against `LedgerSpec`. People and forge act between any two
  requests. `task` holds where each goroutine is and what it read, the instance
  configuration included, which may be edited at any time. What the runs ask for
  (`asks`) is chosen at the start; what an ask creates, hashes, compares and does
  after its create is left to constant operators, which `Recipes` instantiates.
  `effects` of a resource counts firings, or labels, that came with its creation.
  `outputs` are the artifactIds that waitBuild steps recorded, from which a tag step
  takes its `target`. The ID of a tag is that of the artifact it is set on: SetTag fails
  when that artifact is gone, deleting an artifact takes its tags along (`Without`), and
  a delete by another ID than that of what stands (`Hits`) finds nothing and counts as done.
* `Recipes`: these operators for the nine step types: per type the object its
  create sends, the parts of its spec hash, what Get compares, and whether a second
  call follows. It extends `Catalogue`. An object is a function from the fields
  that are sent to values; how a number reads back (`Numeral`) is a constant.
* `InstanceConfig`: the keys of the ConfigMap, what makes it invalid, the defaults,
  and what placeholders see.
* `RunSpec`: the life of runs: active, undoing, undone, gone, and what each holds.
  It is where two modules meet. `RunController` implements it for one run, and
  leaves open what a step or a rollback does to the ledger; `Provision` implements
  it for all runs and leaves open when the controller calls it. Each assumes what
  the other is shown to do.
* `RunController`: the reconciler split at its requests, with the cached read,
  the event filter, the queue and its timers, and the acts of users. What a
  step does upstream is abstracted to `holds`, the steps that hold a reference;
  a step may take a reference whatever it answers, a failed rollback may release
  any part.
* `WaitBuild`: one `waitBuild` step, request by request, with the reconciler's
  bookkeeping of it (`runInstance`, `resetFailed`). `step` is its status in the
  run, `poll` the Ensure call in progress; forge starts, finishes, retries and
  rebuilds builds and disables the watcher when it likes; others delete the
  artifact or the watcher. Ages count ticks since StartedAt.
* `Catalogue`: the step types, what each accepts, provides and refuses; operators
  only. `Definition` extends it: validation, parameters, placeholders and expansion
  as operators, and the life of one run from the API's or kubectl's creation,
  through the snapshot, to its last step, while the definition may be edited. A
  step's upstream work is `Provision`'s subject: here a step succeeds unless it
  refuses its params. Values are members of a small set of strings; a template is
  a literal or a single reference; a parameter's value is a list of items.
* `MCLedger`, `MCProvision`, `MCRunController`, `MCWaitBuild`, `MCDefinition`:
  instances for TLC.
* Theorems: `LedgerProofs` and `LedgerSerialProofs` about `Ledger`; `ProvisionProofs`
  about `Provision` and the ledger entries it uses, and `ProvisionUpstreamProofs`,
  which extends it, about the resources upstream; `RunControllerProofs`;
  `WaitBuildProofs`; `RecipesProofs` about `Recipes` and `InstanceConfig`;
  `DefinitionProofs` about `Definition` and `Catalogue`.

Definitions commented `(mutant)` are plausible bugs. They stand before the
definition they would replace and are used by no specification; putting one in
its place makes the property named in `PROJECT.json` fail.

## Runs

Passing runs:

| Run | Shows |
|---|---|
| MCLedger | two runs and a sweeper on one entry, current reads: what a call holds is on record, nothing is deleted in use, and `Ledger` implements `LedgerSpec` |
| MCLedgerRace | the same callers with overlapping sweeps and a trailing cache: a terminating entry never gains a reference |
| MCProvision | two workers, people, two faults: nothing leaks, nothing of the wizard's is left once all users are rolled back, nothing is deleted under a user; `Provision` implements both `LedgerSpec` and `RunSpec` |
| MCProvisionOne | one worker, one fault, an edit of the configuration, and six pairs of asks that agree or disagree: what a succeeded step finds agrees with its ask in all that Get compares; new defaults are no conflict; nothing fires twice; what people made before survives; rollbacks and interrupted deletions end. A further case, without faults, has watcher, artifact and tag, shared by two runs, with forge rebuilding: the order of the rollback and the IDs on record |
| MCRunController | one run with all users: the finalizer guards what is held; what the status says is true, results are kept, no wakeup is lost, a retry starts from reset steps; implements `RunSpec`; a requested rollback ends |
| MCWaitBuild | three builds, one of them somebody else's, forge and others acting at will, two faults and a retry: the step ends, follows one build of its own, and a retry gets its whole timeout |
| MCDefinition | 2808 definitions, valid and not, with seven inputs each: the API and the reconciler agree, validated references resolve up to omitted values, and early refusals are right |
| MCRunLag | with a trailing cache: deletions, applies and retries end |

Runs that find a statement of the source violated (the finding in
`PROJECT.json` quotes it):

| Run | What happens |
|---|---|
| MCLedgerSweepAdopt | A sweep lists an abandoned, managed entry. Another caller finishes it and a run registers the key anew. The sweep goes by the entry it listed and deletes the new user's resource. |
| MCProvisionHash | A run registers a batch trigger and fails before the create. Another one, which wants other jobs, joins its entry while there is no resource, so that nobody compares hashes, and creates. The first one tries again: its hash is on record, Get does not compare jobs, and it succeeds on the jobs of the other. |
| MCProvisionTag | A tag without a recorded ID blocks its rollback for ever. |
| MCProvisionEffect | A trigger is created and its first firing fails, or a batch trigger and its labels. The next pass finds the resource and succeeds; the call is never made. |

Some of the passing properties depend on a switch, and fail with it turned. Where
a theorem states the property, what follows is its hypothesis too:

* `UsersGetWhatTheyWant` needs `Workers = 1`: with two, a step can look upstream,
  have another run delete resource and entry, and then register what is gone. It
  needs ports without leading zeros or signs, which are sent as numbers and compared
  as text. And it speaks of what Get compares: a difference that only the hash shows
  (a batch trigger's jobs, a watcher's `repoRef`) goes unnoticed when the resource is
  absent, because the hash of the entry is then not compared. That runs whose hashes
  differ never share a resource is `DifferentNeverShare`, which MCProvisionHash refutes.
* `NothingLeaks` and `NothingLeftBehind` say nothing of tags, which do leak. An entry keeps
  the artifact ID it was made with until a new tag's ID is recorded. When people delete
  the artifact, its tag goes too, and forge rebuilds it under another ID. A run joins the
  entry and sets the tag anew. If it is cut off before it records the new ID, the last
  rollback deletes by the old one: the index answers 404, which counts as deleted, the
  entry goes, the tag stays. With one worker and no deletions by people TLC finds no such
  tag in `BuildCase`, not even after a fault. With two workers there is another way: a
  second run reads that there is no entry and then finds the tag a first run has just
  made. The first run rolls back and deletes tag and entry. The second one registers the
  tag as somebody else's, and its SetTag makes the tag anew.
* `NeverDeletesPeoples` needs `PeopleCreate = FALSE`: the entry says "managed"
  before the create, and keeps saying so when somebody else's create wins.
* `EffectsOnce` needs that nobody else deletes: the second call goes to whatever stands
  under the name by then. Several workers and faults do not disturb it. With a single worker it
  is enough that people do not create: what a step made may be gone when it calls, but
  nobody has put another in its place.
* `ClaimedIsCurrent` needs that nobody else deletes, and a single claimant: the artifact is
  found before the ledger is asked, and AddRef does not renew its ID. The theorem has
  these hypotheses; the run has two claimants, one worker and no faults instead.
* `RollbackCanDelete` needs that one reconcile runs at a time, that nothing fails (a tag is
  set before its ID is recorded; MCProvisionTag) and that people delete nothing (the entry's
  ID is then of an artifact that is gone).
* `WatcherGoesFirst` needs that no request fails, since a rollback goes on after a failed
  delete of the watcher, and `Workers = 1`: with two, another run's rollback can be
  between giving the watcher up and deleting it.
* `DefaultsNeverConflict` is about templates and apps, as the code's comments are. The
  default `stepName` of a chain and the default tag of a watcher are part of the
  identity; an edit of these between two attempts makes a step refuse its own
  resource.
* All of `Provision` needs current reads, as `NeverDeletedInUse` of `Ledger` does. And it
  needs sweeps that do not overlap deletions, but for `NeverDeletesPeoples`,
  `ClaimedIsCurrent`, `DefaultsNeverConflict`, and `EffectsOnce` with a single worker.
* `FinalizerGuards`, `StatusIsTrue`, `NothingForgotten` and the other safety properties of
  `RunController` need current reads: the status patch checks no version, so a stale
  reconcile overwrites newer results, a run read before it was rolled back is applied
  again, and a reconcile that overlooks an edit takes its wakeup with it.
  `RollbackEnds` needs them too, and excludes that the request is taken back: the
  rollback then stops half way, for good. With stale reads a run that is rolled
  back may be rolled back again, fail this time, and have its retry read the old
  success once more.
* `WaitingEnds` of `WaitBuild` means success or failure: builds of others can hide the
  watcher's own from the list, and a retry after a failed build follows that
  same build until forge deletes its row; both end in a failed step.
* `RetryServed` needs a run that has its snapshot. Without one, a retry asked for while the
  definition is missing is lost: the reconcile returns before it looks at the
  annotation, which stays, so that asking again changes nothing, and a definition that
  is added later triggers nothing. TLC finds this with `Snapshots = {FALSE}`.
* `OnlyOmittedLack` leaves a gap the code has: an optional parameter without a
  default passes validation and creation and fails the run at the step that
  refers to it. So does a field that an item lacks.

### Bounds

* Two runs with one reference or step each, and the sweeper, on one key. Every
  interleaving the ledger's comments worry about has one deleter, one adopter and
  one party finishing an interrupted deletion. `BuildCase` of `MCProvisionOne` has
  three keys, each shared by two runs: watcher and artifact, whose order in a rollback
  matters, and a tag, whose ID is the artifact's. `TagCase` of MCProvisionTag is one of
  these runs alone.
* `MaxVersion = 6`: create, join, two releases, and an entry registered anew.
  `Steps = 2` in `Ledger` lets the retry loop both succeed and give up;
  `MaxAttempts = 2` does so for ensure, `MaxFailures = 2` for a step.
* `MCProvisionOne`: each case of `SharedCases` is a pair of asks for one name: equal, or
  different in a field that the hash, Get, both or neither looks at. Types whose
  recipes have the same shape are not repeated. The two configurations differ in
  every default that a recipe reads, and `MaxEdits = 1` puts the edit between any
  two requests.
* The assumptions of `MCProvision` are evaluated by TLC: `EqualHashesAgree` says of
  every pair of asks that equal hashes do not conflict upstream; `RecipesAreAsProved`
  and `WatchersComeFirst` show that the instances satisfy what the theorems of
  `ProvisionUpstreamProofs` assume of recipes and ranks.
* `MaxFaults` counts failed requests, crashes and (in `RunController`) waits. In
  `Provision` it depends on the case: two for the watcher of `MCProvision`, none for
  `BuildCase` (`RollbackCanDelete` and `WatcherGoesFirst` need that), one for others.
  One or two are enough to cut any protocol at any request and then let
  recovery be cut as well. `MaxActs`, `MaxPeople` bound users in the same way:
  two acts on a run allow a rollback and its withdrawal, or a retry and a deletion
  that race.
* `MaxId` bounds forge's builds: two in MCProvisionOne, so that the artifact is built anew
  once under another ID.
* `MCWaitBuild`: three builds are the fewest in which a remembered build, a newer
  one and somebody else's exist together; the list shows two, so it can hide one.
  The clock stops one tick past the timeout. `MaxDeletes` bounds those who delete.
* `MCDefinition`: one parameter of each type, optional or required, one earlier
  step with or without forEach, and a last step (app, chain or tag) with one or two
  params that take each kind of reference. References are checked one at a time,
  so more parameters and steps add no case; `Edits` has a definition that every
  input fails.
* `CHECK_DEADLOCK FALSE` is set for `Provision`, `RunController` and `Definition`: the
  system is at rest once every run is rolled back, or has nothing left to do and users are
  out of acts. The ledger runs keep the deadlock check.

### Switches

`SweepOverlaps` says whether a sweep may list while another goroutine is
between marking an entry and removing it. The code allows it. The runs that
check what the ledger guarantees otherwise set it to FALSE; MCLedgerSweepAdopt
shows what it costs, MCLedgerRace what holds nevertheless.
`CacheMayLag` says whether reads may trail the API server; the code's client
may. It is TRUE in MCRunLag and MCLedgerRace, and the theorems of `LedgerProofs` hold for either. `Workers` is
MaxConcurrentReconciles, whose default of 1 the code leaves; more are checked
because the ledger claims to be safe then.

### Fairness

`Provision!FairSpec`: a goroutine in a call goes on (weak fairness of its own
steps), the queue hands out a run that wants its rollback again and again
(strong fairness, since another run may occupy the worker), the Sweeper ticks.
`WaitBuild!FairSpec`: a poll goes on, the reconciler comes back to a step that waits
(`RequeueAfter`), and time passes. Forge owes nothing.
`RunController!FairSpec`: a started reconcile goes on and a queued one starts, a
timer fires, and the watch delivers. These are what controller-runtime's queue
and `RequeueAfter` provide. Users, people and forge owe nothing, and faults are
finitely many.

## Proofs

Every invariant, every action property and every refinement that a passing run
checks is also a theorem, for every value of the constants: any number of runs,
steps, resources and workers, any case of what runs ask for, any bound. What the
theorems use of the constants are the named assumptions of the modules
(`LedgerAssumption`, `ProvisionAssumption`, `MarkersAreDistinct`,
`RunControllerAssumption`, `WaitBuildAssumption`, `DefinitionAssumption`,
`CatalogueAssumption`, `InstanceConfigAssumption`), which TLC evaluates on the runs
of these modules. Where a property depends on a switch, the switch is a hypothesis of the theorem.
Each hypothesis is about the constants alone and holds in a run that checks the
property, so none of them is empty, with one exception: `OneClaimant` does not hold
of `BuildCase`, whose artifact two runs claim.

### Ledger

`LedgerProofs` proves, without any assumption on caches or sweeps,

* `Typing`: `Spec => []TypeOK`;
* `TerminatingNoRefs`: a terminating entry has no reference. The invariant says
  this of every entry anywhere: stored, cached, and about to be stored by a call.
  That is why a lagging cache does no harm here.

`LedgerSerialProofs` assumes `Serial` (reads are current, deletions do not
overlap; both are needed) and proves the inductive invariant
`SerialInv`, and from it `NoReferenceLost`, `InUseIsKept` and `SingleDeleter`. The
argument: an update that would be accepted was computed from what is stored
(`UpdatesAreFresh`, because versions are never reused, `VersionsIssued`); so an
accepted AddRef joins a live entry and an accepted Release drops one reference;
so a reference that was reported is recorded (`HeldIsRecorded`), and an entry that
is being deleted is terminating and has one deleter (`DeletionIsExclusive`), hence
no references, hence nobody was told it may use it.

The same invariant gives the refinement `LedgerKeepsContract`: each accepted write
opens, joins, leaves or closes one entry as `LedgerSpec` allows, and every other
step is a stutter.

### Provision

`ProvisionTyping` needs no hypothesis. The other theorems of `ProvisionProofs` assume
`Orderly`: a sweep lists the ledger only while nobody is deleting. Without it the
sweep takes an entry for abandoned that another goroutine is about to remove, and
both go on to delete.

The inductive invariant `ProvisionInv` has three parts. A reference is given up only by
a run that has stopped using it (`GivenUpWhenUnused`). Each goroutine is `Sound`:
`RecordsFirst`, ensure holds its reference before it creates; `ListsItsOwn`, a rollback
lists references of its own run; `KnowsItsClaims`, what a goroutine remembers of a
terminating entry is what stands there. And no two goroutines mean to delete
the same entry (`ClaimsAreExclusive`).

A step of one goroutine must not spoil what another one knows. Proving this for every
pair of steps would square the work. Instead each step of p is shown to be `Harmless`:
it touches no reference of other runs, and no terminating entry other than those that
p claims. A harmless step leaves `Sound` and the claims of every bystander as
they are, because claims are exclusive. From the invariant follow `UsersStayRecorded`,
`InUseIsKept` (the wizard deletes nothing that a succeeded step uses, neither itself nor,
being a tag, along with its artifact: who counts on a tag is on record for the artifact,
too), and the two
refinements `ProvisionKeepsContract` and `ProvisionKeepsRunSpec`.

`ProvisionUpstreamProofs` adds what stands upstream. The first five of these theorems do
without `Orderly` and without `ProvisionInv`: they hold however sweeps overlap deletions,
as in the code. The others assume `Orderly`, and their invariants stand beside `ProvisionInv`.

| Theorem | Property | Further hypotheses | Inductive invariant |
|---|---|---|---|
| `PeoplesIsKept` | `NeverDeletesPeoples` | people create nothing | `PeopleInv`: neither a managed entry nor what a rollback or sweep means to delete (`MeansToDelete`) ever stands for a resource of people |
| `RolledBackIsReleased` | | none | `ListsAll`: while nothing has failed, a rollback has all that its run still holds on its list |
| `ClaimsStayCurrent` | `ClaimedIsCurrent` | people delete nothing; one run claims each artifact | `ArtifactsInv`, `ClaimsInv`: while its claimants stand (`Standing`) no rollback and no sweep has an artifact in hand (`InHand`), so it stays, under the ID on record |
| `OneWorkerFiresOnce` | `EffectsOnce` | `Workers = 1`; people create nothing; a create that fires needs no call after it | `AloneFiresInv`: what a call is about to hit is unfired, or gone |
| `NewDefaultsServe` | `DefaultsNeverConflict` | defaults enter neither the hash nor the comparison | none: only a read upstream refuses (`WhoRefuses`) |
| `NothingIsLeaked` | `NothingLeaks` (no tags) | none | `LeakInv`: an entry goes only after its resource (`DeletesFirst`) |
| `RolledBackIsGone` | `NothingLeftBehind` (no tags) | none | `SomebodyOwes`: an abandoned entry has a run that used it, does not count as rolled back and has the removal still before it |
| `TriggersFireOnce` | `EffectsOnce` | people delete nothing; a create that fires needs no call after it | `FiresInv`: a second call meets what its own step has just made |
| `UsersGetTheirs` | `UsersGetWhatTheyWant` | `Workers = 1`; people delete nothing; what a step makes is what its Get looks for | `WantedInv`: what a step has looked at, or made, agrees with its ask; with one worker (`AloneInv`) the entry that was read is still the stored one |
| `UsedIsDeletable` | `RollbackCanDelete` | `Workers = 1`; people delete nothing; no faults where there are tags, and setting a tag takes one call | `TagsInv`: who is on record for a tag counts on it, is setting it or is rolling back (`TagUsers`); what is counted on stands under the ID on record (`TagsHit`); who sets a tag has the ID of the artifact that stands (`SetsIts`) |
| `WatcherIsFirst` | `WatcherGoesFirst` | `Workers = 1`; no faults where there are artifacts; watchers rank lower than their artifacts | `EntriesInv`, `OrderInv` |

`SomebodyOwes` says why a rollback that counts as done leaves nothing behind, though it
skips what another goroutine is deleting and goes on past failures. The run that leaves an
entry last (`LastToLeaveOwes`) either is about to remove it, or has noted a failure, so that
this rollback will not be final; and a rollback begins with a sweep, which takes over
whatever was abandoned (`OwesStays`). If another goroutine removes the entry first, nothing
is owed any more.

`OrderInv` is the longest argument. Without faults nobody leaves a deletion for later, but for a tag that was never set,
so a sweep finds nothing else and every deletion of an artifact or a watcher is a rollback's. A rollback takes
its references in the order of their ranks. So when it deletes an artifact while
its run still holds the watcher, that reference would have been listed, would have a
lower rank and would have been taken before.

The hypotheses about recipes are not free choices. `RecipesProofs` proves the premise of
`NewDefaultsServe` for job templates, service templates and apps (`DefaultsAreNoIdentity`),
for all parameters and configurations.

### Run controller

`RunTyping` and `DeletionIsRemembered` need no hypothesis. The others assume `Current`, that
the cache is the stored run. The status patch carries no version, so with stale reads a reconcile
may write an older status over a newer one; the switches above name what goes wrong.

`ControlInv` says what a reconcile knows at each point: it sees the stored status
(`SeesStatus`), the finalizer is there from before the first reference until after
the last (`FinalizerStays`), the phase fits where it is (`PhaseFits`), what it believes
of a step is so (`ProgressIsTrue`), and a run recorded as rolled back holds nothing
(`RolledBackIsFree`). From it follow `NothingIsOrphaned`, `StatusIsAlwaysTrue`,
`SuccessIsRemembered`, `RetryIsServedFirst` and the refinement `ControllerKeepsRunSpec`.

`NoWakeupIsLost` is about the queue. A reconcile that nothing has queued the run behind sees
the run's present spec (`Follows`), since every write that the event filter lets through
queues it. So when such a reconcile ends, either what it left undone is nothing, or it has
set a timer. `DeletionIsRemembered` is what remains of that when the cache trails: a deleted
run that still stands is queued, on a timer, in a reconcile, or the watch has yet to
deliver its deletion (`DeletionInv`). None of the properties above does.

### Waiting for a build

`WaitBuildProofs` proves `WaitTyping`, `TimeoutIsWhole` (a retry has the whole timeout before
it), `BuildIsOurs` and `BuildIsFollowed` without hypotheses, from `WaitInv`: no age
that a poll sees is ahead of the time since the step was asked for (`AgesAreTrue`), a
build that is polled is one of the watcher's own (`PollsOwnBuild`), and a poll looks
away from the remembered build only when its row is gone (`PollFollows`). That a non-empty set of builds has a latest
one (`GreatestExists`) is proved by well-founded induction on finite sets.

### Recipes, definitions, configuration

`RecipesProofs` is about single calls, not about behaviours.

* `ConfigComplete`: a configuration that parses has a value for every key that a
  placeholder may name. `Definition` takes that for granted when it says that
  config references always resolve.
* `EqualHashesServe`: two steps of a type with equal spec hashes do not conflict upstream,
  whatever their parameters and configurations. Optional parts of an identity are
  told apart by their length. The exception is a port that is spelled unlike
  the number it is (`PortReadsBack`).
* `DefaultsAreNoIdentity`: for job templates, service templates and apps an edited default
  changes neither the hash nor the verdict on what stands upstream.

`DefinitionProofs` proves the properties of `Definition` for any set of definitions, edits
and inputs. It assumes of them only what decoding gives (`DefinitionAssumption`: lists
are numbered from one, parameter types are known).

* `AcceptedIsNotRejected` and `ValidatedResolves` follow from `DefInv`: a snapshot
  is a definition that was valid when it was taken (`Snapshots`), what the API
  checked is what the reconciler checks again (`ApiChecked`), and a finished step
  without forEach left all its outputs (`OutputsThere`). The last one needs the names
  of the steps to differ, which validation sees to (`DifferentNames`).
* `RefusalsRight` follows from `RightInv`: no finished step would have been refused
  early. A value the API knows is the one the step gets (`EarlyIsLate`), and the
  checks of an app stay as they are when unknown values become known
  (`AppMonotone`).
* `DefinitionTyping`: `TypeOK`, with `DefInv` again.

### Only model-checked

All liveness properties: `RollbackEnds` of `Provision` and of `RunController`, `DeletionEnds` of
both, `ApplyEnds`, `RetryServed` and `WaitingEnds`. They rest on fairness, and fairness on
ENABLED, which the prover does not support.

## Not modelled yet, and the plan

In this order:

1. `Provision` with two ledger entries for one resource: weave keeps triggers and
   batch triggers in one collection, the ledger does not.
2. `Backoff`: wait.Backoff's arithmetic, of which `Ledger` has only that tries run
   out. `conflictBackoff` asks for 30 steps; its cap ends them after about ten.
3. A history of retry requests at the API: one that arrives while the annotation
   of an earlier one is still there is accepted and adds nothing.
4. Cache lag in `Provision`. `Ledger` says what lag does to a ledger call;
   `Provision` takes such a call as one step.

5. Tags that forge's autoTag or people set, and an `artifactId` that a definition gives
   literally: in `Provision` only tag steps set tags, and they take the ID from an earlier
   waitBuild step of their run.

Left out for good: HTTP encoding, authentication, paging and views of the API
server (stateless, one request at a time), messages, conditions and time stamps
of runs, object names and hashes (taken to be injective), process wiring, charts
and generated code.
