------------------------ MODULE MC_OperationalMetrics ------------------------
(* Spans of two cohorts or without one, with and without each measurement. *)
EXTENDS OperationalMetrics

N(span, calls, cohort, available, start, end, input, output) ==
  [span |-> span, delivery |-> "d1", calls |-> calls, cohort |-> cohort,
   role |-> IF cohort = None THEN None ELSE "r", available |-> available,
   start |-> start, end |-> end, input |-> input, output |-> output]

MCNodes ==
  {N(span, TRUE, cohort, available, 1, end, input, 2) :
     span \in {"s1", "s2", "s3"}, cohort \in {"x", "y", None}, available \in BOOLEAN,
     end \in {0, 3}, input \in {1, None}}
  \union {N("s4", FALSE, None, TRUE, 1, 2, None, None)}
=============================================================================
