---------------------------- MODULE MetricSlices ----------------------------
(***************************************************************************)
(* What the calculators share (calculators/common.py) and what the         *)
(* response model demands of a Metric Result (api/models.py).  A result is *)
(* a set of slices; a ratio is the pair of its counts; the population of a *)
(* slice is the set of units it is about, so that a coverage can be held   *)
(* against it.                                                             *)
(***************************************************************************)
EXTENDS Integers, Sequences, FiniteSets, Functions

CONSTANT None     \* the value of a withheld slice, Python's None

(* None is no value of another type; a value of a slice is a tuple of      *)
(* numbers.                                                                *)
ASSUME NoneAssumption ==
  /\ None \notin BOOLEAN /\ None \notin Int
  /\ None \notin STRING /\ None \notin Seq(Int)

Scalar == <<>>      \* the key of a result without dimensions

-----------------------------------------------------------------------------
(* coverage(): the alert is LOW_COVERAGE below a tenth. *)
Coverage(numerator, denominator) ==
  [numerator |-> numerator, denominator |-> denominator,
   state |-> CASE denominator = 0 -> "NO_POPULATION"
               [] denominator > 0 /\ numerator = 0 -> "NO_COVERAGE"
               [] denominator > 0 /\ numerator = denominator -> "FULL"
               [] OTHER -> "PARTIAL",
   alert |-> denominator > 0 /\ 100 * numerator < 10 * denominator]

Covering(covered, population) == Coverage(Cardinality(covered), Cardinality(population))

(* A slice over population of which covered has the input of the metric;   *)
(* withheld is the reason when it has no value.                            *)
Slice(key, state, value, withheld, covered, population) ==
  [key |-> key, state |-> state, value |-> value,
   reason |-> IF value = None THEN withheld ELSE "NONE",
   coverage |-> Covering(covered, population), missing |-> population \ covered]

(* unavailable(): the one scalar slice of a metric without dimensions. *)
Unavailable(coverage) ==
  {[key |-> Scalar, state |-> "UNAVAILABLE", value |-> None,
    reason |-> IF coverage.denominator = 0 THEN "NO_APPLICABLE_POPULATION" ELSE "MISSING_INPUT",
    coverage |-> coverage, missing |-> {}]}

-----------------------------------------------------------------------------
(* The validators of Coverage, MetricSlice and MetricResult. *)

CoverageFits(c) ==
  /\ c.numerator <= c.denominator
  /\ c = Coverage(c.numerator, c.denominator)

SliceFits(s) ==
  /\ CoverageFits(s.coverage)
  /\ IF s.state \in {"AVAILABLE", "LOWER_BOUND"}
     THEN s.value # None /\ s.reason = "NONE"
     ELSE s.value = None /\ s.reason # "NONE"

ResultFits(slices) ==
  /\ slices # {}
  /\ \A s \in slices : SliceFits(s)
  /\ \A s, t \in slices : s.key = t.key => s = t
  /\ (\E s \in slices : s.key = Scalar) => Cardinality(slices) = 1
=============================================================================
