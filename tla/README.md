# Verification of evolution-system

A TLA+ development of `wsr_evolution`, the stateless Metric Result service. Paths below are
relative to the repository; the implementation is in `src/wsr_evolution/`.

The service answers one HTTP request, `POST` of a SINGLE or COMPARE request. For every side it
resolves a selection of Tasks against the Evidence service, enriches it with Workflows read from
GitHub, observes every Delivery, derives twelve Metric Results and returns them with a receipt. It
stores nothing. What makes it hard is that everything it reads changes while it reads: the routes
of Evidence are paged, retention expires records, GitHub releases come and go, requests hang, and
concurrent requests share one cache.

The image of the service is published by two workflows of the repository, and these do keep state:
images, tags and Releases, written step by step by runs that may end anywhere.

## 1. Inventory

| Component | State | Operations | Interacts with | Hard behaviour | Correct when |
|---|---|---|---|---|---|
| Compute service, one side (`compute.py` 147-353) | cutoff, population, observations; nothing after the request | `_compute_side` | population and observation resolver (await), calculators (call) | evidence recorded or expiring between two awaits; deadline; bounds | inputs are those of the cutoff; expired Deliveries are excluded and named; the population state is truthful |
| Compute service, comparison (`compute.py` 136-145, 510-674) | how each side ended | `compute`, `_compute_compare`, `_full_deltas`, `_side_error` | both sides, the HTTP route | one side failing; pairing of slices | a failure is contained; deltas lead from left to right |
| HTTP application (`app.py`) | none | `compute`, health routes, error handlers | compute service | mapping of exceptions | only an unavailable upstream is retryable |
| Selection population resolver (`resolution/service.py` 252-397) | traversal per Task, Manifest readings | `resolve` | Evidence client, Workflow resolver | paging over a changing route, repeated cursors, bounds, Manifests read later than memberships | it returns snapshots; bounds are exact; Manifests match memberships |
| Delivery observation resolver (`resolution/service.py` 96-223) | two traversals, trace state | `resolve` | Evidence client | the same, and trace state drift | the same |
| Workflow source resolver (`workflow_sources/resolution.py`) | `_validated_cache`, shared by all requests | `resolve` | sources (await under a timeout) | concurrent fills, hanging sources, total deadline, cancellation | cached content is exact; NOT_FOUND is definite; the receipt entry is valid; it ends |
| GitHub source (`workflow_sources/github.py`) | none between fetches | `fetch_exact` | GitHub (paged list, assets), archive validator | list changing between pages, assets replaced, oversized answers | a candidate is vouched for; NOT_FOUND means absent; failures are typed |
| Archive validator (`workflow_sources/archive.py`) | a temporary directory, a thread of the event loop's executor | `validate` | Node checker in that thread | unsafe members, a checker that fails, a thread that outlives its fetch | it yields the package of the archive or a typed failure; what it leaves behind is bounded |
| Evidence client (`evidence/client.py`) | HTTP connection pool | five reads | Evidence service | contract mismatches | every answer is validated or refused |
| Normalization (`normalization/`) | none | pure functions | compute service | conflicting, provisional, expired evidence | one reading per Delivery, Task, call, Usage |
| Operational, Delivery and Task calculators (`calculators/`) | none | nine pure functions, `coverage` | compute service, response models | missing inputs, minimum samples, lower bounds | the response model accepts each result; populations agree |
| Role calculators (`calculators/role_*.py`, `compute.py` 356-508) | none | units of Roles, `_repair_reading`, three pure functions | normalization, Manifests | a Delivery in several Tasks, fixes that cannot be read | no unit counts twice; an unknown repair is never a clean one |
| API models (`api/models.py`) | none | validators, serialisation | all of the above | a validator that refuses what a handler built | it never does |
| Release pipeline (`.github/workflows/release-candidate.yml`, `release-promote.yml`, `release/validate_image_qualification.py`) | registry tags, git tags, Releases, the qualification asset | the steps of a candidate run and of a promotion | GitHub, the image registry, each other | crashes between steps, reruns, a promotion beside a candidate run, reads whose failure counts as "there is none" | what is stable is what was qualified; a crashed run can be resumed |
| Runtime, catalog and registry, packaging | constants | start-up | | | not modelled, section 7 |

## 2. Modules

| Module | Models | State and actions |
|---|---|---|
| `WorkflowSources` | the resolver of `workflow_sources/resolution.py` | `call[c]` is the local state of one `resolve()`, `cache` the shared dictionary. `Resolve`, `ReceiveCandidate`, `ReceiveFailure`, `TimeOut`, `Escape`, `Cancel` are what the event loop runs between two awaits; `Elapse` is its clock. |
| `SideWorkflows` | the Workflow step of the sides of concurrent requests, over the resolver they share | extends `WorkflowSources` by `side[c]`: `Begin`, `AskNext`, `Collect`, `Propagate`, `Observe`, `Finish` are the loop of `resolution/service.py` 387-396; `CancelAtDeadline` and `ObservedTooLong` are `asyncio.timeout` of the side; `Tick` advances both clocks. `worker[w]` is a thread of the executor: `CheckArchive` gives it to a fetch, a timeout or cancellation abandons it, `EndUnnoticed` frees it |
| `EvidenceTraversal` | the paging loop `resolution/service.py` writes three times | operators only: `PagesExhausted`, `Drifts`, `RepeatsCursor`, `Extend`; and the pages an Evidence service may serve |
| `SnapshotRead` | abstract: a read returns the whole of one version of a route, at once and once, or nothing | `Change`, `Return` |
| `SelectionPopulation` | `SelectionPopulationResolver.resolve` | one action for each way a page, a Manifest or a Workflow can come back, `Fail` for every early end; `Change` is the store |
| `DeliveryObservation` | `DeliveryObservationResolver.resolve` | the same for Facts and then Traces, and `Flip` for the trace state |
| `SideCompute` | `_compute_side` under its deadline | `ResolvePopulation`, `ReadFacts`, `ReadTraces`, the uninterrupted `Derive`, `SideDeadline`, `ResolverFails`; the store records, expires and changes the trace state in between (a partial trace may become available again) |
| `CompareService` | `compute`, `_compute_compare` and the route | `EndSingle`, `EndLeft`, `EndRight` with any ending of a side; a slice has a kind, a value with or without a fraction, and a coordinate of compatibility |
| `GitHubSource` | `fetch_exact` and, as one step, the validator | one action for each answer, those included whose reading lets an exception out; `Publish` and `Delete` change the list between pages |
| `MetricSlices` | `calculators/common.py` and the validators of Coverage, MetricSlice, MetricResult | operators only |
| `OperationalMetrics` | `normalization/operational.py`, four calculators | the read set grows by one span, every result is a function of it |
| `DeliveryMetrics` | the other normalizers, five calculators | the read set grows by one Fact |
| `RoleMetrics` | the units of `compute.py` 356-508, three calculators, and all twelve metrics side by side | extends `DeliveryMetrics` and `OperationalMetrics`; Facts and spans arrive in any order |
| `ReleasePipeline` | the two release workflows and the validation they run | `candidate` and `promotion` are the latest run of each, one action for each step; `CrashCandidate` and `CrashPromotion` end a run between any two steps |
| `*_proofs` (eight) | theorems about the modules they are named after; `WorkflowSources_proofs` also about `SideWorkflows` and `GitHubSource`, `RoleMetrics_proofs` about all metrics | section 5 |

The modules compose in the way the code does. `SideWorkflows` refines `WorkflowSources`: every one of
its steps is a step of the resolver or leaves it alone
(`SidesRunTheResolver`), so that what is proved of the resolver holds under deadlines,
cancellations and other requests. A step of `SelectionPopulation` resolves a Workflow; an answer of
a source in `WorkflowSources` is a fetch of `GitHubSource`. `SideCompute` takes a resolved
population and the read of one route as one step each, which is what `SnapshotRead` promises and
what `SelectionPopulation` and `DeliveryObservation` are shown to implement
(`Abstract == INSTANCE SnapshotRead WITH ...`, the properties `PopulationReadsSnapshots` and
`ObservationReadsSnapshots`). `CompareService` takes any ending of `SideCompute`. `MetricSlices` is
what the metric modules share, and `RoleMetrics` holds all metrics over one read set.
`ReleasePipeline` stands alone: the service and the pipeline share no state.

### Abstractions

Digests, names and bytes are members of small sets; equal digests mean equal content. A page is cut
from one version of a route and names that version as its snapshot, which is the contract of the
Evidence API; a faulty service may send its cursor back, or answer with an older version. What a
validator checks field by field is one flag (`valid`, `form`). Times are reduced to what is compared:
`late` is "recorded after the cutoff", `expired` is a state of a record. Exact values are
integers; those of a comparison count parts of which `Scale` make one, so that some are fractions.
The fields of a metric that are only rendered (provenance, units, wording) are left out. Of an image
the pipeline keeps what its validation compares: the commit and the authority it was built from. An
image's digest is its place in the order of pushes.

## 3. Runs

| Run | Shows | Bounds, and why they are enough |
|---|---|---|
| `workflow_ordered` | definite answers, attempts, receipt, deadline, termination | one caller, three sources, timeout 2 of 4 ticks: the deadline can strike before, at and after a request timeout; `MaxSources = 3` puts the truncation bound where the configuration puts it, at the number of sources |
| `sides` | the exact cache and exact answers under concurrent fills; threads left behind took time; what was cached stays available; only fetching takes time | two symmetric callers, two sources, one worker, so that every thread left behind holds up both callers, sides of two Manifests of which two share their content: the smallest instance with a race on one key, a neighbouring key, a cancellation while the other side awaits the same content, and a later side that profits from a cancelled one |
| `selection` | snapshots, exact bounds, Manifest agreement, termination | two Tasks, three pages of one record, two versions of a route, two Deliveries: every bound is reached and exceeded |
| `observation` | snapshots, trace state, termination | two routes of up to three pages, two versions, one change of the trace state |
| `side` | cutoff, retention, population state, unanimity, termination | two Tasks, three Deliveries of which two fit, four items, two changes of the store: one change in each of two Deliveries, or two in one |
| `compare` | deltas, containment | every pair of results over two slices of a kind with fractions and one without, values 0, 1/2 and 1, two coordinates of compatibility; every pair of failures |
| `github` | absence, vouching | pages of two releases, at most two pages, one published and one deleted meanwhile; assets that differ in one respect each; a release and a descriptor whose reading raises |
| `metrics` | response model, agreement of populations, accounting, provisional Facts, monotonicity, units of Roles, repairs | up to four Facts and two spans in any order, three Deliveries of four Tasks, two of which share a Delivery; minimum sample 2 (20 in the code): one below, at and above it |
| `release` | a stable Release is the qualified candidate; qualified candidates stay promotable; a rerun is never refused | three candidate runs, two promotions, one missed read, six pushes: a repeated request, two that mix requests up, a second candidate and the next version; the third run is what a crash, a rerun and a rival push need |
| `github_oversized`, `usage_holes`, `sides_hanging` | the disagreements of section 6 | `github_oversized` leaves away the release and the descriptor whose reading raises, so that what it finds is the oversized answer |

`CHECK_DEADLOCK FALSE` is set where a request, a fetch, a read set or a budget of runs really ends.
Neither the resolver of `WorkflowSources` nor the callers of `SideWorkflows` ever stop, and their
runs check deadlock.

The properties are aimed at the hazards listed in `PROJECT.json`. Each of them has a mutant: a
plausible bug in one mapped definition, written beside it in the module and marked as a bug, under
which TLC finds the property violated. The type invariants of modules whose inductive invariant is
proved are not run a second time.

### Model bounds

`MaxVersions`, `MaxFlips`, `MaxChanges`, `MaxPublished`, `MaxDeleted`, `MaxNodes`, `MaxFacts` and
`MaxEvidence` bound what the environment does during one request, `MaxRuns`, `MaxDispatches` and
`MaxMisses` what happens to the pipeline; they are no part of the code. `Spent` is the set of times
a side may have used before its Workflow step, `Workers` the threads of the executor. `Scale` is how
finely values of a comparison are cut. `MaxPages`, `PageSize`, `MaxDeliveries`, `MaxInputs`,
`MaxReleasePages`, `MaxSources`, `RequestTimeout`, `TotalDeadline`, `SideTicks` and `MinSample` are
constants or configuration of the code, with small values; `sides_hanging` keeps the proportions of
their defaults (10, 30 and 120 seconds).

## 4. Fairness

- `WorkflowSources`: weak fairness of `Elapse` (the clock of the event loop runs) and of `TimeOut`
  (`asyncio.wait_for` delivers an expired timeout). No source has to answer.
- `SelectionPopulation`, `DeliveryObservation`: weak fairness of the resolver's steps, because each
  request is answered or ends by the timeout of the transport (`runtime.py` sets one) and is then a
  failure. The store may change or not.
- `SideCompute`: weak fairness of `SideDeadline` (`asyncio.timeout`) and of `Derive`, which awaits
  nothing. No resolver has to answer.

`SideWorkflows`, `CompareService`, `GitHubSource`, the metrics and `ReleasePipeline` state no
fairness: their properties are about safety. A person may never start a run again, and a source may
never answer; that a side ends all the same is checked in `side`.

## 5. Proofs

Each theorem holds for every value of the constants that satisfies the assumption of its module:
any number of callers, sources, Tasks, Deliveries, pages, versions, runs and so on, beyond what the
runs instantiate.

| Module | Theorem | Property |
|---|---|---|
| `WorkflowSources_proofs` | `Invariance` | the inductive `IInv` |
| | `TypeCorrect`, `CacheExact`, `AvailableExact` | `TypeOK`, `CacheIsExact`, `AvailableIsExact` |
| | `NotFoundDefinite`, `AttemptsComplete`, `AnswerFits` | `NotFoundIsDefinite`, `AttemptsTellTheWholeStory`, `AnswerFitsReceipt` |
| | `DeadlineRespected` | `RequestsWithinDeadline` (an action property) |
| `WorkflowSources_proofs` (the sides) | `SideInvariance` | the inductive `SideInv` |
| | `SidesRunTheResolver` | `SideSpec => Spec` of `WorkflowSources` |
| | `ThreadsArePaidFor`, `KnownAvailable`, `FetchingIsPaidFor` | `ThreadsLeftBehindTookTime`, `KnownStaysAvailable`, `OnlyFetchingTakesTime` |
| `WorkflowSources_proofs` (the GitHub source) | `FetchInvariant`, `FetchTypeCorrect` | the inductive `FetchInv`, `FetchTypeOK` |
| | `PublishingNeverHidesHolds`, `CandidateIsVouchedForHolds` | `PublishingNeverHides`, `CandidateIsVouchedFor` |
| | `FetchKeepsToTheSourceCodes` | the codes `WorkflowSources` expects of a source |
| `EvidenceTraversal_proofs` | lemmas on `Extend` and `Cut` | used by the next two |
| `DeliveryObservation_proofs` | `Invariance`, `TraceStateHeld` | `IInv`, `TraceStateHeldThroughout` |
| | `ObservationRefines` | `ObservationReadsSnapshots` (implements `SnapshotRead`) |
| `SelectionPopulation_proofs` | `Invariance`, `PairsOneToOne` | `IInv`, `ManifestsMatchMemberships` |
| | `BoundsExact` | `BoundsAreExact` |
| | `PopulationRefines` | `PopulationReadsSnapshots` (implements `SnapshotRead`) |
| `SideCompute_proofs` | `Invariance` | the inductive `IInv` |
| | `DerivedAsOf`, `RetentionAccounted` | `InputsAreAsOf`, `RetentionIsAccountedFor` |
| | `CompleteCounts`, `TerminalUnanimous` | `CompleteMeansEveryTaskCounts`, `TerminalReadingIsUnanimous` |
| `CompareService_proofs` | `Invariance` | the inductive `IInv` |
| | `ResponseAccepted`, `DeltasDirected`, `FailureContained` | `ResponseModelAcceptsDeltas`, `DeltasLeadFromLeftToRight`, `FailureIsContained` |
| `RoleMetrics_proofs` | `EveryResultFitsHolds` | `EveryResultFits`, with `ResultsFit` and `CallResultsFit` |
| | `TerminalDeliveriesAgreeHolds`, `OutcomeSharesAddUpHolds`, `CallsAreAccountedForHolds` | `TerminalDeliveriesAgree`, `OutcomeSharesAddUp`, `CallsAreAccountedFor` |
| | `TemplateCostWithinTotalHolds`, `CleanMeansNoFixHolds` | `TemplateCostWithinTotal`, `CleanMeansNoFix` |
| | `EvidenceNeverWithdrawsHolds`, `ProvisionalFactsChangeNothingHolds`, `RepairsAreNotForgottenHolds` | the action properties `EvidenceNeverWithdraws`, `ProvisionalFactsChangeNothing`, `RepairsAreNotForgotten` |
| `ReleasePipeline_proofs` | `Invariance` | the inductive `PipelineInv` |
| | `QualifiedIsPromotable`, `RerunIsAccepted` | `QualifiedStaysPromotable`, `RerunIsNeverRefused` |
| | `StableIsQualified` | `misses = 0 => StableIsTheQualifiedCandidate` |

Few of these properties are inductive. What each argument adds, and from which assumptions:

**The resolver** (`ConfigAssumption`, `SourceAssumption`, `EntryAssumption`: between one and
`MaxSources` sources, positive timeouts, a source raises only the codes a source may raise). An
answer is right because of what its call did while it was fetching. `IInv` adds, for a call that
fetches from source `index`, that its attempts are exactly those of the sources `1..index-1`, in
order (`FetchingOK`). `MoveOn` is the heart (`MoveOnIsOK`): either one more source is asked and the
shape is kept, or the call answers with the attempts of all sources, or with some and the deadline.
`NotFoundIsDefinite` needs that the deadline is itself indeterminate (`DeadlineIsOpen`);
`AnswerFitsReceipt` that there are never more attempts than sources (`AttemptsBounded`). The cache
is exact because the comparison that admits a candidate and the key agree component by component
(`NoMismatchIsSameContent`, `KeyIsSameContent`); another caller only fills keys (`CallOKGrows`).

**The sides** (`SideAssumption`, `WorkerAssumption` of `SideWorkflows`, and those of the resolver). The
refinement needs no mapping; it rests on `IInv` of the resolver carrying over. `SideInv` ties the side to its call
(it awaits exactly while the call fetches or has just ended) and accounts for time: what the
deadline has lost is at most one `TotalDeadline` for each uncached Manifest asked so far. `BehindInv`
does the same for the threads a side has abandoned: each but the last cost it a request timeout, or
ended a resolution whose total deadline had passed. A fetch whose timer is shorter than the request
timeout is one of the second kind, which is why the two are counted apart.

**Traversals** (`TraversalAssumption`: positive page size and bound, the absent cursor is no cursor;
`ObservationAssumption`, `PopulationAssumption`: contents are sequences of items, a request names a
Task, as `api/models.py:40` demands). The service may serve stale cursors. The invariant `Held` says
that a traversal holds a prefix of the one version it names, or holds an item twice; the second kind
is refused at the last page, where duplicates are counted (`PageKept`, `TwiceIsFewer`). At the last
page the prefix is the whole, which is the step of `SnapshotRead`; every other step stutters. For
the population, Tasks before the current one have an entry (`EntryOK`), and what was selected,
collected and read of Manifests belongs together pairwise (`MembershipOK`, `Agree`).

That a bound refuses only what exceeds it (`BoundsExact`) needs to know where a traversal stands
when it is refused. `InStep` says that a traversal whose cursor never pointed back is as far as its
pages reach and holds what they hold, and that one whose cursor did stays behind: exceeding the page
bound is then the fault of the cursor or of the length of the route. The Delivery bound counts
what the routes of the request hold, and `ReadingOK` of `BoundsInv` says that what the current Task
has read comes from its own route.

**The GitHub source** (`GitHubAssumption`: positive page size and bound, releases and assets are
records of their types). While nothing was deleted, the list is the one of the beginning shifted by
what was published since (`Shifted`), so a release can only move to a later page; hence every
release whose page has passed has been seen (`SeenSoFar`), and a list that ended without the wanted
one shows it was absent (`AbsenceIsProved`). `CandidateIsVouchedFor` needs what the earlier answers
established: `AnswersOK` says, for every request in flight, that the descriptor, provenance and
checksum received before agree with the selected release.

**The metrics** (`NoneAssumption`: the absent value is no number, truth value, string or sequence;
`CallsAssumption`, `DeliveryAssumption`, `RoleAssumption`: Facts, nodes and Manifests are records of
their types, Deliveries, Tasks and Manifests finite, each membership has a Manifest, a Manifest binds
a Role once, and equal digests mean equal Manifests). Every result is a function of what was read, and the
invariant `EvidenceOK` is that this is finite and typed; the orders and amounts in which it is read
are unbounded. The properties then relate what calculators compute apart from each other, and nearly
all of them are about sums and cardinalities. `SumFunction` of the community modules is a fold, about which
the library's induction theorems cannot speak (they take an operator). `SubsetInduction` takes a set
of subsets instead and follows from the well-foundedness of strict inclusion; from it,
the total over a set is the same whichever element is taken first (`TotalIsAdditive`), and
sums may be taken along a bijection (`SumAlongBijection`) or by parts (`SumOfParts`). With them the
shares of a rate add up to its population, the slices of the calls to the calls, and the cost of a
template, regrouped by Usage, to a part of the cost of the trajectories (`UsageOnce`: a
Usage belongs to one unit of a template however many Tasks share its Delivery). The action properties
rest on evidence being only added. The metrics are those of Deliveries that are still active: a Fact that
expired takes its whole Delivery out of them (`RetentionExcluded` of `SideCompute`), so no Fact here is
expired, and `ProvisionalFactsChangeNothing` speaks of provisional and unavailable ones. Contradictory
summaries end a side in `SideCompute`, where `InputsAreAsOf` says that none of them is picked; the
properties of the metrics assume that there are none. Without a conflict a reading only gains
(`ReadingsGrow`, `OutcomesStay`).

**One side** (`SideAssumption` of `SideCompute`: finitely many items, the absent value is none).
The evidence of the cutoff is what was recorded and is not late; the store may record late items,
expire items and change the state of a trace at any moment. `StoreOK` says the baseline never changes although
the store does; `HoldBaseline` says that what was read of a route, less what is late, is the
baseline, an expired item being visible as such. `InputsAreAsOf` follows for the uninterrupted
derivation; the other three relate quantities the derivation computes apart from each other.

**The comparison** (`CompareAssumption`: values are integers, and the kinds are among those the
calculators emit: RATIO, QUANTITY, MONEY, DURATION_MS). The invariant ties the response to the endings
of the two sides; the theorems then are about pairing slices. That no subtraction escapes rests on
the difference of whole numbers being whole; that the response model accepts what is withheld rests
on the emitted kinds, see section 6.

**The pipeline** (`PipelineAssumption`: candidate tags determine their version, stable tags are no
candidate tags). `PipelineInv` says for each candidate tag that, while no read missed anything, its
git tag, image, Release and qualification are those of one push that was asked for (`TagOK`), and that
a run in progress has found its tag in the state its next step assumes (`ProgressOK`). With
`misses = 0`, `StableInv` adds that a promotion beyond its requalification holds the qualification
its candidate still carries, and that nothing touches the stable tags once the Release is there.
The theorem on stable Releases is stated for runs whose reads miss nothing; the run
`release` shows that one miss does no harm either, and section 6 what two misses do.

Only model-checked:

- liveness (`ResolutionEnds` twice, `ObservationEnds`, `SideEnds`), which needs fairness and
  ENABLED, outside the prover's reach;
- `StableIsTheQualifiedCandidate` with one missed read: the theorem is about runs that miss nothing.

Every other property of a passing run is stated by a theorem of the table.

## 6. What the runs found

- **An oversized historical descriptor is not diagnostic** (`github_oversized`,
  `workflow_sources/github.py:298`). Every other asset turns the `ValueError` of `_bytes` into a
  `SourceFailure`; this one lets it out of `fetch_exact`, the resolver and the side, and the request
  ends in an internal error. `README.md:47`: "Enrichment failure remains diagnostic and cannot
  rewrite a Metric Result."
- **Calls without a complete coordinate fail the whole side** (`usage_holes`,
  `calculators/operational_usage_availability.py:66`). The fallback tests `not calls` where its
  siblings test `not cohorts`; the result has no slice, and `MetricResult` demands one.
  `README.md:25-26`: "Every successful side returns the exact 12 Metric Results and a receipt-bound
  resolved read set; metric-level holes do not fail the other results."
- **Slow sources fail a side of several Workflows** (`sides_hanging`, `resolution/service.py:387`).
  The Workflows of the Manifests are resolved one after the other inside the deadline of the side.
  By default each may take 30 seconds and the side 120 (`runtime.py:50-52`), so five distinct
  Workflows whose sources hang end the side with RESOLUTION_BOUND_EXCEEDED and without a Metric
  Result, against the same sentence of `README.md:47` (`README.md:41-44` documents that a bound fails
  a side explicitly). `OnlyFetchingTakesTime` bounds the damage:
  what is cached costs nothing, so what one side fetched helps the next one.

Observed while modelling, without a run:

- Two BOOLEAN slices of one coordinate are withheld as INCOMPATIBLE (`compute.py:635`), although
  `CompareResponse` counts them as comparable and refuses a comparison that withholds them
  (`api/models.py:657-669`); and `_subtract` raises a ValueError no handler catches for a fraction of
  a kind that has none (`compute.py:671`). Neither can happen today: no calculator emits BOOLEAN, and
  those that emit QUANTITY or MONEY emit integers. `CompareService` has both branches, and its
  assumption on the kinds is what keeps them out. A BOOLEAN metric would fail the comparison of any two
  sides that both have it.
- The thread that checks an archive (`workflow_sources/archive.py:93`) is not stopped by a timeout or
  a cancellation. It and its Node process go on, for up to 30 seconds, and hold a worker of the
  executor, while other requests wait for one. `ThreadsLeftBehindTookTime` says how fast they can
  accumulate; nothing in the code limits how many there are.
- More readings let exceptions out of `fetch_exact` than the oversized descriptor: a release URL that
  `urlparse` refuses (`workflow_sources/github.py:390`) and a `schemaVersion` that cannot be hashed
  (line 145). Both are in `GitHubSource`. Beyond the model, `httpx.InvalidURL` and the RecursionError
  of a deeply nested JSON text are caught nowhere either.

- The `PARTIAL` test of a trace state in `_population_state` (`compute.py:110`) is never reached,
  since a partial trace makes its Delivery retention-excluded and adds EXPIRED.
- The resolver cannot truncate its attempts, since it makes at most eight.
- Two model calls or two references of one identity end a side with an exception no handler knows
  (`Derive` of `SideCompute`, `UNCAUGHT` of `CompareService`).
- Release pages are cut by offset. When an earlier release is deleted between two pages, the wanted
  one may move onto a page already read, and the fetch answers NOT_FOUND for a release that is
  there. `PublishingNeverHides` is therefore stated for fetches during which nothing was deleted.
- A Delivery that belongs to two Tasks of a selection has two Manifests; the units of Roles use the
  one with the last digest (`compute.py:404`).
- The first of the two tests `! gh release view` in `release-promote.yml:75` cannot fail its step:
  `bash -e` does not stop at an inverted status unless it is the last command.
- With two missed reads (`MaxMisses = 2`) `StableIsTheQualifiedCandidate` is violated: a promotion
  of another candidate that misses the stable git tag and then the stable image tag moves the image
  tag of a version that is already released. Both reads take any failure of the registry or of
  `git ls-remote` for absence.

## 7. Not modelled

- `runtime.py`, `calculators/registry.py`, `calculators/protocol.py`: read or checked once at start;
  they keep no state afterwards.
- The JSON shapes of `evidence/client.py` and `workflow_sources/github.py`, the tar handling and the
  Node checker of `workflow_sources/archive.py`, serialisation in `api/models.py`: data and input or
  output; their outcomes are modelled.
- The health routes and the OpenAPI document: no state, no decision.
- The Dockerfile and the test jobs of continuous integration; in the release workflows, tokens, the
  setup of tools and the platforms of an image.

## 8. Plan

Done: the resolver, the sides over it, the traversals with their abstract specification, one side,
the comparison, the GitHub source, all twelve metrics, the release pipeline; theorems about every
module with state.

Left, in the order of what it would add:

1. `StableIsTheQualifiedCandidate` for one missed read: `PipelineInv` would have to say which of its
   conjuncts one miss can break, and that the check after it restores them.
2. One module for a whole side: the steps of `SelectionPopulation`, `SideWorkflows` and `SideCompute`
   under one clock. The three are joined today by what each promises the next.
