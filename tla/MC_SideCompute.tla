--------------------------- MODULE MC_SideCompute ---------------------------
(* Two Tasks over three Deliveries, of which a side may have two. *)
EXTENDS SideCompute

Fact(id, provenance, content) ==
  [route |-> "facts", id |-> id, provenance |-> provenance, content |-> content]

Node(id, content) ==
  [route |-> "traces", id |-> id, provenance |-> "p", content |-> content]

(* d1 and d2 may report a call by the same identity and a Fact of the same *)
(* identity with another provenance; d1 may be given contradictory         *)
(* outcomes; d3 has no evidence.                                           *)
MCItems == [d \in {"d1", "d2", "d3"} |->
  IF d = "d1"
  THEN {Fact("f1", "p", "FAILURE"), Fact("f2", "p", "SUCCESS"), Node("n1", "call")}
  ELSE IF d = "d3" THEN {}
  ELSE {Fact("f1", "q", "FAILURE"), Node("n2", "call")}]

MCInitialTraces == [d \in {"d1", "d2", "d3"} |->
  CASE d = "d1" -> {"AVAILABLE", "PARTIAL"} [] d = "d2" -> {"AVAILABLE"} [] d = "d3" -> {"ABSENT"}]

MCPopulations ==
  {[task \in {"tA", "tB"} |-> IF task = "tA" THEN a ELSE b] :
     a \in {{}, {"d1"}, {"d1", "d2"}}, b \in {{}, {"d2"}, {"d2", "d3"}}}
=============================================================================
