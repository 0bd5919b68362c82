---------------------------- MODULE MC_RoleMetrics ----------------------------
(* A Task of one Delivery, one of two, one that stays open, an empty one.  *)
(* Delivery d1 is in two Tasks, with two Manifests.                        *)
EXTENDS RoleMetrics

MCMemberships ==
  [t \in {"t1", "t2", "t3", "t4"} |->
     CASE t = "t1" -> {"d1"} [] t = "t2" -> {"d1", "d2"} [] t = "t3" -> {"d3"}
     [] t = "t4" -> {}]

M(t, d, digest, bindings) ==
  [task |-> t, delivery |-> d, digest |-> digest, bindings |-> bindings]

MCManifests == {
  M("t1", "d1", 1, {<<"r", "old">>}),
  M("t2", "d1", 2, {<<"r", "p">>, <<"q", "p">>}),
  M("t2", "d2", 3, {<<"r", "p">>}),
  M("t3", "d3", 4, {<<"r", "p">>})}

F(id, d, event, completeness, available) ==
  [id |-> id, delivery |-> d, event |-> event, completeness |-> completeness,
   available |-> available, outcome |-> None, elapsed |-> None, stage |-> None,
   coordinate |-> None, money |-> FALSE, value |-> 0, relates |-> FALSE]

Summary(id, d, completeness, available, o, elapsed, stage) ==
  [F(id, d, "summary", completeness, available)
     EXCEPT !.outcome = o, !.elapsed = elapsed, !.stage = stage]

Reported(id, d, completeness, coordinate, money, value) ==
  [F(id, d, "usage", completeness, TRUE)
     EXCEPT !.coordinate = coordinate, !.money = money, !.value = value]

Fix(id, d, available, relates) ==
  [F(id, d, "fix", "FINAL", available) EXCEPT !.relates = relates]

MCFacts == {
  Summary("f1", "d1", "FINAL", TRUE, "success", 3, "build"),
  Summary("f1", "d1", "FINAL", TRUE, "failure", None, None),
  Summary("f2", "d1", "FINAL", TRUE, "success", 4, "test"),
  Summary("f3", "d1", "OTHER", TRUE, "failure", 9, "test"),
  Summary("f1", "d2", "FINAL", TRUE, "success", 3, None),
  Summary("f2", "d2", "FINAL", TRUE, None, None, "test"),
  Summary("f3", "d2", "FINAL", FALSE, "failure", 9, "test"),
  Reported("u1", "d1", "FINAL", "eur", TRUE, 2),
  Reported("u1", "d2", "FINAL", "eur", TRUE, 3),
  Reported("u1", "d2", "LOWER_BOUND", "eur", TRUE, 3),
  Reported("u2", "d1", "LOWER_BOUND", "eur", TRUE, -1),
  Reported("u2", "d2", "OTHER", "eur", TRUE, -1),
  Reported("u2", "d3", "FINAL", "eur", FALSE, 1),
  Reported("u3", "d3", "FINAL", "eur", TRUE, 1),
  Fix("x1", "d1", TRUE, TRUE),
  Fix("x2", "d1", FALSE, TRUE),
  Fix("x1", "d2", TRUE, FALSE)}

N(span, d, calls, cohort, role, available, end, input) ==
  [span |-> span, delivery |-> d, calls |-> calls, cohort |-> cohort, role |-> role,
   available |-> available, start |-> 1, end |-> end, input |-> input, output |-> 2]

MCNodes == {
  N("s1", "d1", TRUE, "x", "r", TRUE, 3, 1),
  N("s1", "d1", TRUE, "x", "r", FALSE, 3, 1),
  N("s1", "d1", TRUE, None, None, TRUE, 3, 1),
  N("s1", "d1", FALSE, None, None, TRUE, 3, None),
  N("s2", "d1", TRUE, "y", "q", TRUE, 0, 1),
  N("s3", "d2", TRUE, "x", "r", TRUE, 2, None),
  N("s3", "d2", TRUE, None, "r", TRUE, 2, 4)}
=============================================================================
