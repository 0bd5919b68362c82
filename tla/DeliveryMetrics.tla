--------------------------- MODULE DeliveryMetrics ---------------------------
(***************************************************************************)
(* The metrics of Deliveries and Tasks: normalization/delivery.py,         *)
(* normalization/task.py, normalization/usage.py and the calculators       *)
(* delivery_terminal_outcome_rate, delivery_stage_reach,                   *)
(* delivery_cycle_time_ms, trajectory_partial_cost and                     *)
(* task_cohort_comparison_eligibility, as compute.py calls them once every *)
(* Delivery of the population has been read.  The evidence of a side grows *)
(* by one Fact at a time, so that what a further Fact changes can be told. *)
(***************************************************************************)
EXTENDS MetricSlices

CONSTANTS
  Deliveries,       \* the active Deliveries of the side
  Tasks,
  Memberships,      \* Memberships[t]: the active Deliveries of Task t
  Facts,            \* the Facts a side may read
  MinSample,        \* units below which a metric is withheld (20)
  MaxFacts          \* bound of the model: Facts read

(* available: its availability is AVAILABLE.  A summary names at most one   *)
(* outcome, elapsed time and stage; the coordinate of a Usage is its kind,  *)
(* unit and source, and None when one of them or the value is absent or    *)
(* not of its type; relates: a FINDING_FIX relation from a FIX to a         *)
(* FINDING_TARGET.  A Fact has no expiry here: one that has expired sets    *)
(* its whole Delivery aside before anything is calculated (SideCompute),    *)
(* so that none of an active Delivery has, and whether one expires decides  *)
(* which Deliveries there are and not what these metrics make of them.      *)
Fact == [id: STRING, delivery: Deliveries, event: {"summary", "usage", "fix"},
         completeness: {"FINAL", "LOWER_BOUND", "OTHER"}, available: BOOLEAN,
         outcome: STRING \union {None}, elapsed: Nat \union {None},
         stage: STRING \union {None}, coordinate: STRING \union {None}, money: BOOLEAN, value: Int, relates: BOOLEAN]

ASSUME DeliveryAssumption ==
  /\ IsFiniteSet(Deliveries) /\ IsFiniteSet(Tasks)
  /\ Memberships \in [Tasks -> SUBSET Deliveries]
  /\ Facts \subseteq Fact
  /\ MinSample \in Nat \ {0} /\ MaxFacts \in Nat

VARIABLE facts    \* the Facts of the active Deliveries, none of which has expired

-----------------------------------------------------------------------------
(* Bugs the properties below are shown to catch. *)

SummariesOfAnyState(d) ==
  {fact \in facts : fact.delivery = d /\ fact.event = "summary" /\ fact.available}

ExactlyTheSample(units) == Cardinality(units) = MinSample

-----------------------------------------------------------------------------
(* normalize_delivery *)

Summaries(d) ==
  {fact \in facts : /\ fact.delivery = d /\ fact.event = "summary"
                    /\ fact.completeness = "FINAL" /\ fact.available}

Named(d, field) == {fact[field] : fact \in Summaries(d)} \ {None}

(* Two outcomes or two elapsed times of one Delivery end the side. *)
Conflict ==
  \E d \in Deliveries : \E field \in {"outcome", "elapsed"} : Cardinality(Named(d, field)) > 1

One(values) == IF values = {} THEN None ELSE CHOOSE v \in values : TRUE

Outcome(d) == One(Named(d, "outcome"))

Elapsed(d) == One(Named(d, "elapsed"))

Terminal == {d \in Deliveries : Outcome(d) # None}

(* normalize_reported_usage *)
Usage ==
  {fact \in facts : /\ fact.event = "usage" /\ fact.available
                    /\ fact.completeness \in {"FINAL", "LOWER_BOUND"}
                    /\ fact.coordinate # None}

(* normalize_task; every active Delivery has a reading. *)
Classification(t) ==
  LET outcomes == {Outcome(d) : d \in Memberships[t]} IN
  CASE outcomes = {} -> "UNDEFINED_TASK_MEMBERSHIP"
    [] None \in outcomes -> "OPEN_DELIVERY"
    [] None \notin outcomes /\ Cardinality(outcomes) > 1 -> "MIXED_DELIVERY_OUTCOMES"
    [] OTHER -> "ELIGIBLE"

-----------------------------------------------------------------------------
(* keysOf[d] is the set of keys the covered unit d holds: one slice for    *)
(* each key, with the share of the covered units that hold it.             *)
Shares(keysOf, population) ==
  LET covered == DOMAIN keysOf IN
  IF covered = {} THEN Unavailable(Covering(covered, population))
  ELSE {Slice(<<key>>, "AVAILABLE",
              <<Cardinality({d \in covered : key \in keysOf[d]}), Cardinality(covered)>>,
              "MISSING_INPUT", covered, population) : key \in UNION Range(keysOf)}

TerminalOutcomeRate == Shares([d \in Terminal |-> {Outcome(d)}], Deliveries)

Staged(d) == Named(d, "stage") # {}

(* A bug: the stages of open Deliveries count as well. *)
StageReachOfAll ==
  Shares([d \in {d \in Deliveries : Staged(d)} |-> Named(d, "stage")], Terminal)

StageReach ==
  Shares([d \in {d \in Terminal : Staged(d)} |-> Named(d, "stage")], Terminal)

(* A bug: the open Deliveries are in the population of the average. *)
CycleTimeOfAll ==
  LET covered == {d \in Terminal : Elapsed(d) # None} IN
  IF covered = {} THEN Unavailable(Covering(covered, Deliveries))
  ELSE {Slice(Scalar, "AVAILABLE",
              <<SumFunction([d \in covered |-> Elapsed(d)]), Cardinality(covered)>>,
              "MISSING_INPUT", covered, Deliveries)}

(* The average: the sum of the elapsed times and their number. *)
CycleTime ==
  LET covered == {d \in Terminal : Elapsed(d) # None} IN
  IF covered = {} THEN Unavailable(Covering(covered, Terminal))
  ELSE {Slice(Scalar, "AVAILABLE",
              <<SumFunction([d \in covered |-> Elapsed(d)]), Cardinality(covered)>>,
              "MISSING_INPUT", covered, Terminal)}

SampleSuffices(units) == Cardinality(units) >= MinSample

HasLowerBound(group) == \E fact \in group : fact.completeness = "LOWER_BOUND"

CostSlice(coordinate) ==
  LET group == {fact \in Usage : fact.money /\ fact.coordinate = coordinate}
      covered == {fact.delivery : fact \in group}
  IN Slice(<<coordinate>>,
           IF ~SampleSuffices(covered) THEN "UNAVAILABLE"
           ELSE IF HasLowerBound(group) THEN "LOWER_BOUND" ELSE "AVAILABLE",
           IF SampleSuffices(covered)
           THEN <<SumFunction([fact \in group |-> fact.value])>> ELSE None,
           "SAMPLE_INSUFFICIENT", covered, Deliveries)

CostCoordinates == {fact.coordinate : fact \in {f \in Usage : f.money}}

PartialCost ==
  IF CostCoordinates = {} THEN Unavailable(Covering({}, Deliveries))
  ELSE {CostSlice(coordinate) : coordinate \in CostCoordinates}

Classified(class) == {t \in Tasks : Classification(t) = class}

Eligibility ==
  Slice(Scalar, IF SampleSuffices(Tasks) THEN "AVAILABLE" ELSE "UNAVAILABLE",
        IF SampleSuffices(Tasks)
        THEN <<Cardinality(Classified("ELIGIBLE")), Cardinality(Tasks)>> ELSE None,
        "SAMPLE_INSUFFICIENT", Tasks \ Classified("UNDEFINED_TASK_MEMBERSHIP"), Tasks)

-----------------------------------------------------------------------------
Init == facts = {}

(* The observation refuses a Delivery with two Facts of one identity. *)
ReadFact(fact) ==
  /\ ~Conflict /\ Cardinality(facts) < MaxFacts
  /\ \A other \in facts : other.delivery = fact.delivery => other.id # fact.id
  /\ facts' = facts \union {fact}

Next == \E fact \in Facts : ReadFact(fact)

Spec == Init /\ [][Next]_facts

-----------------------------------------------------------------------------
(* Whatever Facts a side has read, the response model accepts each result: *)
(* no coverage above its population, no slice key twice, no scalar slice   *)
(* beside dimensions, a value exactly when it is not withheld.             *)
ResultsFit ==
  ~Conflict => \A result \in {TerminalOutcomeRate, StageReach, CycleTime, PartialCost,
                              {Eligibility}} : ResultFits(result)

(* The rates of the terminal outcomes share out the terminal Deliveries    *)
(* completely, and the metrics that look at terminal Deliveries only, by   *)
(* calculators of their own, agree on how many there are.  A Task is       *)
(* eligible only if all its Deliveries are among them, with one outcome.   *)
TerminalDeliveriesAgree ==
  ~Conflict =>
    /\ Terminal # {} =>
         SumFunction([s \in TerminalOutcomeRate |-> s.value[1]]) = Cardinality(Terminal)
    /\ \A s \in TerminalOutcomeRate, q \in StageReach \union CycleTime :
         s.coverage.numerator = q.coverage.denominator
    /\ \A t \in Classified("ELIGIBLE") :
         /\ Memberships[t] # {} /\ Memberships[t] \subseteq Terminal
         /\ \E s \in TerminalOutcomeRate : \A d \in Memberships[t] : s.key = <<Outcome(d)>>

(* A Fact of an active Delivery that is provisional or unavailable changes *)
(* no result: normalize_delivery and normalize_reported_usage drop it.  Of *)
(* an expired Fact it says nothing: that one takes its Delivery away.      *)
ProvisionalFactsChangeNothing ==
  [][(\A fact \in facts' \ facts :
        ~fact.available \/ fact.completeness \notin {"FINAL", "LOWER_BOUND"})
       => UNCHANGED <<TerminalOutcomeRate, StageReach, CycleTime, PartialCost, Eligibility>>]_facts

(* A further Fact never withdraws a value: what was shown may change, but  *)
(* is not withheld again.                                                  *)
EvidenceNeverWithdraws ==
  [][~Conflict' =>
       /\ \A s \in PartialCost : s.value # None =>
            \E q \in PartialCost' : q.key = s.key /\ q.value # None
       /\ \A s \in CycleTime : s.value # None => \A q \in CycleTime' : q.value # None
       /\ \A s \in TerminalOutcomeRate : s.value # None =>
            \E q \in TerminalOutcomeRate' : q.key = s.key /\ q.value # None]_facts

=============================================================================
