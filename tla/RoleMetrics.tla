----------------------------- MODULE RoleMetrics -----------------------------
(***************************************************************************)
(* All metrics of one side, with those of Roles on top: _role_model_units, *)
(* _role_template_units, _role_template_usage_units and _repair_reading of *)
(* compute.py, and the calculators role_model_task_outcome_rate,           *)
(* role_template_rework_rate and role_template_trajectory_partial_cost.    *)
(* They join what DeliveryMetrics derives from Facts with the model calls  *)
(* OperationalMetrics derives from Trace nodes, over the Manifests of the  *)
(* memberships.  Facts and nodes arrive one at a time, in any order.       *)
(***************************************************************************)
EXTENDS DeliveryMetrics, OperationalMetrics

CONSTANTS
  Manifests,        \* the Manifest of each membership
  MaxEvidence       \* bound of the model: Facts and nodes read

(* bindings: pairs of a Role and its prompt, each Role once.               *)
Manifest == [task: Tasks, delivery: Deliveries, digest: Nat, bindings: SUBSET (STRING \X STRING)]

ASSUME RoleAssumption ==
  /\ MaxEvidence \in Nat /\ \A node \in Nodes : node.delivery \in Deliveries
  /\ \A t \in Tasks : \A d \in Memberships[t] :
       \E m \in Manifests : m.task = t /\ m.delivery = d
  /\ Manifests \subseteq Manifest /\ IsFiniteSet(Manifests)
  /\ \A m \in Manifests :
       /\ m.delivery \in Memberships[m.task] /\ IsFiniteSet(m.bindings)
       /\ \A a, b \in m.bindings : a[1] = b[1] => a = b
       /\ \A n \in Manifests : m.digest = n.digest => m = n

evidence == <<facts, nodes>>

-----------------------------------------------------------------------------
(* _role_model_units: an eligible Task once for each cohort of its calls. *)

Eligible == Classified("ELIGIBLE")

CohortsOf(t) == {call.cohort : call \in {c \in Calls : c.delivery \in Memberships[t]}} \ {None}

RoleModelTasks(cohort) == {t \in Eligible : cohort \in CohortsOf(t)}

RoleModelCohorts == UNION {CohortsOf(t) : t \in Eligible}

TaskOutcome(t) == Outcome(CHOOSE d \in Memberships[t] : TRUE)

(* A bug: every Task with a call of the cohort is in the denominator. *)
SharesOfAllTasks(cohort) ==
  LET tasks == {t \in Tasks : cohort \in CohortsOf(t)}
      with(outcome) == {t \in RoleModelTasks(cohort) : TaskOutcome(t) = outcome} IN
  {Slice(<<cohort, outcome>>, IF SampleSuffices(tasks) THEN "AVAILABLE" ELSE "UNAVAILABLE",
         IF SampleSuffices(tasks) THEN <<Cardinality(with(outcome)), Cardinality(tasks)>> ELSE None,
         "SAMPLE_INSUFFICIENT", tasks, tasks) : outcome \in {TaskOutcome(t) : t \in RoleModelTasks(cohort)}}

RoleModelSlices(cohort) ==
  LET tasks == RoleModelTasks(cohort)
      with(outcome) == {t \in tasks : TaskOutcome(t) = outcome} IN
  {Slice(<<cohort, outcome>>, IF SampleSuffices(tasks) THEN "AVAILABLE" ELSE "UNAVAILABLE",
         IF SampleSuffices(tasks) THEN <<Cardinality(with(outcome)), Cardinality(tasks)>> ELSE None,
         "SAMPLE_INSUFFICIENT", tasks, tasks) : outcome \in {TaskOutcome(t) : t \in tasks}}

RoleModelOutcomeRate ==
  IF RoleModelCohorts = {} THEN Unavailable(Coverage(0, 0))
  ELSE UNION {RoleModelSlices(cohort) : cohort \in RoleModelCohorts}

-----------------------------------------------------------------------------
(* _repair_reading *)

Fixes(d) == {fact \in facts : fact.delivery = d /\ fact.event = "fix"}

(* Bugs. *)
EveryFixMustBeAvailable(d) ==
  CASE Fixes(d) = {} -> FALSE
    [] Fixes(d) # {} /\ (\A fix \in Fixes(d) : fix.available /\ fix.relates) -> TRUE
    [] OTHER -> None

UnavailableMeansClean(d) == \E fix \in Fixes(d) : fix.available /\ fix.relates

(* FALSE: no fix; TRUE: a fix of a finding; None: fixes whose relations    *)
(* cannot be read or are of another kind.  No Fact of an active Delivery   *)
(* has expired, so the code's second component is always FALSE.            *)
RepairReading(d) ==
  CASE Fixes(d) = {} -> FALSE
    [] \E fix \in Fixes(d) : fix.available /\ fix.relates -> TRUE
    [] Fixes(d) # {} /\ (\A fix \in Fixes(d) : ~(fix.available /\ fix.relates)) -> None

-----------------------------------------------------------------------------
(* _role_template_units *)

(* manifest_by_delivery: of the Manifests of a Delivery in several Tasks   *)
(* the last one in digest order.                                           *)
ManifestOf(d) ==
  CHOOSE m \in Manifests :
    m.delivery = d /\ \A n \in Manifests : n.delivery = d => n.digest <= m.digest

ObservedRoles(d) == {call.role : call \in {c \in Calls : c.delivery = d}} \ {None}

(* A bug: a Delivery is a unit of each Task it belongs to. *)
UnitOfTask(t, d, template) == [delivery |-> d, template |-> template, task |-> t]

(* A unit is keyed by its Delivery and template, not by the Task. *)
TemplateUnit(t, d, template) == [delivery |-> d, template |-> template]

UnitsIn(t, d) ==
  {TemplateUnit(t, d, b) : b \in {c \in ManifestOf(d).bindings : c[1] \in ObservedRoles(d)}}

TemplateUnits == UNION {UNION {UnitsIn(t, d) : d \in Memberships[t] \cap Terminal} : t \in Tasks}

Templates == {unit.template : unit \in TemplateUnits}

UnitsOf(template) == {unit \in TemplateUnits : unit.template = template}

ReworkSlice(template) ==
  LET covered == {unit \in UnitsOf(template) : RepairReading(unit.delivery) # None}
      repaired == {unit \in covered : RepairReading(unit.delivery) = TRUE}
  IN Slice(template, IF SampleSuffices(covered) THEN "AVAILABLE" ELSE "UNAVAILABLE",
           IF SampleSuffices(covered)
           THEN <<Cardinality(repaired), Cardinality(covered)>> ELSE None,
           "SAMPLE_INSUFFICIENT", covered, UnitsOf(template))

ReworkRate ==
  IF Templates = {} THEN Unavailable(Coverage(0, 0))
  ELSE {ReworkSlice(template) : template \in Templates}

(* _role_template_usage_units: the money reported for each unit. *)
UnitUsage ==
  {p \in TemplateUnits \X Usage : p[2].delivery = p[1].delivery /\ p[2].money}

TemplateCostSlice(template, coordinate) ==
  LET group == {p \in UnitUsage : p[1].template = template /\ p[2].coordinate = coordinate}
      covered == {p[1] : p \in group}
  IN Slice(<<template, coordinate>>,
           IF ~SampleSuffices(covered) THEN "UNAVAILABLE"
           ELSE IF HasLowerBound({p[2] : p \in group}) THEN "LOWER_BOUND" ELSE "AVAILABLE",
           IF SampleSuffices(covered)
           THEN <<SumFunction([p \in group |-> p[2].value])>> ELSE None,
           "SAMPLE_INSUFFICIENT", covered, UnitsOf(template))

TemplateCost ==
  IF UnitUsage = {} THEN Unavailable(Coverage(0, Cardinality(TemplateUnits)))
  ELSE {TemplateCostSlice(p[1].template, p[2].coordinate) : p \in UnitUsage}

-----------------------------------------------------------------------------
RoleInit == Init /\ CallsInit

RoleNext ==
  /\ Cardinality(facts) + Cardinality(nodes) < MaxEvidence
  /\ ~Conflict
  /\ \/ Next /\ UNCHANGED nodes
     \/ CallsNext /\ UNCHANGED facts

RoleSpec == RoleInit /\ [][RoleNext]_evidence

-----------------------------------------------------------------------------
(* README.md promises exactly twelve Metric Results of every successful    *)
(* side: whatever Facts and spans were read, in whatever order, the        *)
(* response model accepts every result (that of usage availability has a   *)
(* run of its own).                                                        *)
EveryResultFits ==
  /\ ResultsFit /\ CallResultsFit
  /\ ~Conflict => \A result \in {RoleModelOutcomeRate, ReworkRate, TemplateCost} :
                    ResultFits(result)

(* The outcome shares of a cohort are shares of the same Tasks, complete,  *)
(* and all of these Tasks are among those the eligibility metric counts.   *)
OutcomeSharesAddUp ==
  ~Conflict => \A cohort \in RoleModelCohorts :
    LET slices == {s \in RoleModelOutcomeRate : s.key[1] = cohort /\ s.value # None}
        total == SumFunction([s \in slices |-> s.value[1]]) IN
    slices # {} => \A s \in slices :
      /\ s.value[2] = total
      /\ total <= Cardinality(Tasks) /\ Eligibility.value # None
      /\ total <= Eligibility.value[1]

(* A Delivery that a template counts as free of rework has no fix at all:  *)
(* one whose fixes cannot be read is missing from the rate, never clean.   *)
CleanMeansNoFix ==
  ~Conflict => \A template \in Templates :
    LET s == ReworkSlice(template) IN
    s.value # None =>
      s.value[2] - s.value[1]
        = Cardinality({d \in Deliveries : /\ \E unit \in UnitsOf(template) : unit.delivery = d
                                          /\ \A fact \in facts : fact.delivery = d
                                                                   => fact.event # "fix"})

(* A repair that was observed stays observed, and a Delivery with fixes    *)
(* does not become clean, whatever else is read afterwards.                *)
RepairsAreNotForgotten ==
  [][\A d \in Deliveries :
       /\ RepairReading(d) = TRUE => RepairReading(d)' = TRUE
       /\ RepairReading(d) = None => RepairReading(d)' # FALSE]_evidence

(* The cost of a template is a part of the cost of the trajectories, the   *)
(* same Usage never counted twice although its Delivery may belong to two  *)
(* Tasks: a template whose Deliveries are all that report a coordinate     *)
(* costs what that coordinate costs.                                       *)
TemplateCostWithinTotal ==
  ~Conflict => \A s \in TemplateCost : s.key # Scalar =>
    \E q \in PartialCost :
      /\ q.key = <<s.key[2]>>
      /\ s.coverage.numerator <= q.coverage.numerator
      /\ s.coverage.numerator = q.coverage.numerator
           => s.value = q.value /\ s.state = q.state
=============================================================================
