----------------------- MODULE MC_SelectionPopulation -----------------------
(* Two Tasks whose membership routes hold up to three records each. *)
EXTENDS SelectionPopulation

M(task, delivery, digest) ==
  [task |-> task, delivery |-> delivery, digest |-> digest,
   accepted |-> "a", late |-> FALSE]

MCTasks == <<"tA", "tB">>

(* One record after the cutoff, one of another Task, one Delivery twice,   *)
(* one digest used by both Tasks, and three Deliveries in all.             *)
MCContents == [task \in {"tA", "tB"} |->
  IF task = "tA"
  THEN {<<>>, <<M("tA", "d1", 1)>>, <<M("tA", "d2", 2), M("tA", "d1", 1)>>,
        <<M("tA", "d1", 1), M("tA", "d2", 2)>>,
        <<M("tA", "d1", 1), M("tA", "d2", 2), M("tA", "d3", 3)>>,
        <<M("tA", "d1", 1), M("tA", "d1", 2)>>,
        <<M("tA", "d1", 1), [M("tA", "d2", 2) EXCEPT !.late = TRUE]>>}
  ELSE {<<>>, <<M("tB", "d3", 3)>>, <<M("tB", "d1", 1)>>,
        <<M("tB", "d2", 3)>>, <<M("tA", "d2", 2)>>}]
=============================================================================
