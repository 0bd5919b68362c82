-------------------------- MODULE OperationalMetrics --------------------------
(***************************************************************************)
(* The metrics of model calls: normalization/operational.py and the        *)
(* calculators operational_latency_ms, operational_token_usage,            *)
(* operational_attributable_cost and operational_usage_availability, as    *)
(* compute.py calls them.  The read set of a side grows by one Trace node  *)
(* at a time, so that what a further node changes can be told.             *)
(***************************************************************************)
EXTENDS MetricSlices

CONSTANTS
  Nodes,        \* the Trace nodes a side may read
  MaxNodes      \* bound of the model: nodes read

(* span: trace and span identity; calls: it names a provider or a model;   *)
(* role: the recorded Role (C30), if any; cohort: provider, model, role and runtime, or None when one is absent;  *)
(* available: the measurements are available and have not expired.         *)
Node == [span: STRING, delivery: STRING, calls: BOOLEAN,
         cohort: STRING \union {None}, role: STRING \union {None},
         available: BOOLEAN, start: Nat, end: Nat,
         input: Nat \union {None}, output: Nat \union {None}]

ASSUME CallsAssumption == Nodes \subseteq Node /\ MaxNodes \in Nat

VARIABLE nodes    \* the Trace nodes of the active Deliveries

-----------------------------------------------------------------------------
Duration(n) == IF n.available /\ n.end >= n.start THEN n.end - n.start ELSE None

MeasuredField(n, value) == IF n.available THEN value ELSE None

(* normalize_model_calls *)
Call(n) ==
  [span |-> n.span, delivery |-> n.delivery, cohort |-> n.cohort, role |-> n.role,
   duration |-> Duration(n),
   input |-> MeasuredField(n, n.input), output |-> MeasuredField(n, n.output)]

Calls == {Call(n) : n \in {m \in nodes : m.calls}}

Cohorts == {call.cohort : call \in Calls} \ {None}

(* A bug: calls without a complete coordinate are put into every cohort. *)
GroupWithIncomplete(cohort) == {call \in Calls : call.cohort \in {cohort, None}}

GroupOf(cohort) == {call \in Calls : call.cohort = cohort}

(* The calls of a group that have a measurement are covered; the value is  *)
(* their total, with the count an average divides it by.                   *)
MeasuredSlice(key, field, group) ==
  LET covered == {call \in group : call[field] # None} IN
  Slice(key, IF covered = {} THEN "UNAVAILABLE" ELSE "AVAILABLE",
        IF covered = {} THEN None
        ELSE <<SumFunction([call \in covered |-> call[field]]), Cardinality(covered)>>,
        "MISSING_INPUT", covered, group)

LatencySlice(cohort) == MeasuredSlice(<<cohort>>, "duration", GroupOf(cohort))

TokenSlice(cohort, direction) == MeasuredSlice(<<cohort, direction>>, direction, GroupOf(cohort))

NoInput == Unavailable(Coverage(0, Cardinality(Calls)))

Latency ==
  IF Cohorts = {} THEN NoInput ELSE {LatencySlice(cohort) : cohort \in Cohorts}

TokenUsage ==
  IF Cohorts = {} THEN NoInput
  ELSE {TokenSlice(cohort, direction) : cohort \in Cohorts, direction \in {"input", "output"}}

(* No Usage is bound to a call: compute.py passes the empty tuple. *)
AttributableCost == NoInput

UsageAvailability ==
  IF Calls = {} THEN NoInput
  ELSE {Slice(<<cohort>>, "UNAVAILABLE", None, "MISSING_INPUT", {}, GroupOf(cohort)) : cohort \in Cohorts}

-----------------------------------------------------------------------------
CallsInit == nodes = {}

(* Identities of calls are unique: the calculators raise otherwise. *)
ReadNode(n) ==
  /\ Cardinality(nodes) < MaxNodes
  /\ \A m \in nodes : m.span # n.span
  /\ nodes' = nodes \union {n}

CallsNext == \E n \in Nodes : ReadNode(n)

CallsSpec == CallsInit /\ [][CallsNext]_nodes

-----------------------------------------------------------------------------
CallResults == {Latency, TokenUsage, AttributableCost}

(* Whatever calls a side reads, the response model accepts each result:    *)
(* a metric without input is a withheld slice, never an exception, its     *)
(* slices have distinct keys and no negative or impossible measure.        *)
CallResultsFit ==
  /\ \A result \in CallResults : ResultFits(result)
  /\ \A s \in Latency : s.value # None => s.value[1] >= 0

(* README.md promises that a hole in one metric does not fail the others;  *)
(* a Metric Result without any slice is refused and fails the whole side.  *)
UsageAvailabilityFits == ResultFits(UsageAvailability)

(* Every call is in the population of exactly one slice of each metric and *)
(* direction, or has no complete coordinate and is in none; a slice covers *)
(* its population fully exactly when it names nothing as missing, and an   *)
(* expired or unavailable measurement covers nothing.                      *)
CallsAreAccountedFor ==
  Cohorts # {} =>
    /\ SumFunction([s \in Latency |-> s.coverage.denominator])
         = Cardinality({call \in Calls : call.cohort # None})
    /\ SumFunction([s \in TokenUsage |-> s.coverage.denominator])
         = 2 * Cardinality({call \in Calls : call.cohort # None})
    /\ \A s \in Latency \union TokenUsage :
         /\ s.coverage.numerator + Cardinality(s.missing) = s.coverage.denominator
         /\ s.coverage.state = "FULL" <=> s.missing = {}
         /\ s.coverage.numerator <=
              Cardinality({n \in nodes : n.calls /\ n.available /\ n.cohort = s.key[1]})
=============================================================================
