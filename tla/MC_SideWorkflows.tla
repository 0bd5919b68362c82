-------------------------- MODULE MC_SideWorkflows --------------------------
(* Small instances of SideWorkflows.  With one worker every thread left    *)
(* behind holds up both callers.                                           *)
EXTENDS SideWorkflows, TLC

CONSTANTS c1, c2, w1

Content(roles) ==
  [package |-> 0, packageDigest |-> 0, workflow |-> 0, snapshot |-> 0, roles |-> roles]

MCValue == 0..2

(* Two Manifests of one Workflow, one whose Roles differ, in digest order. *)
A == [digest |-> 0] @@ Content(0)
B == [digest |-> 1] @@ Content(1)
C == [digest |-> 2] @@ Content(0)

MCManifests == {A, B, C}

MCPopulations == {<<A, B>>, <<B, C>>}

MCCandidates == {
  [archive |-> 0] @@ Content(0),
  [archive |-> 0] @@ Content(1),
  [archive |-> 0] @@ [Content(0) EXCEPT !.snapshot = 1]}

MCFailureCodes == {}

MCSpent == {0}

(* Five Workflows none of whose sources answers. *)
ManyValue == 0..4

Many(i) == [digest |-> i] @@ Content(i)

ManyManifests == {Many(i) : i \in ManyValue}

ManyPopulations == {<<Many(0), Many(1), Many(2), Many(3), Many(4)>>}

ManyCandidates == {[archive |-> 0] @@ Content(0)}

NoSpent == {0}

Symmetry == Permutations({c1, c2})
=============================================================================
