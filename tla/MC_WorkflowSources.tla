------------------------- MODULE MC_WorkflowSources -------------------------
(* Small instances of WorkflowSources. *)
EXTENDS WorkflowSources, TLC

CONSTANT c1

Content(package, packageDigest, workflow, snapshot, roles) ==
  [package |-> package, packageDigest |-> packageDigest,
   workflow |-> workflow, snapshot |-> snapshot, roles |-> roles]

MCValue == 0..1

(* Two Manifests of the same Workflow, one whose Roles differ. *)
MCManifests == {
  [digest |-> 0] @@ Content(0, 0, 0, 0, 0),
  [digest |-> 1] @@ Content(0, 0, 0, 0, 0),
  [digest |-> 0] @@ Content(0, 0, 0, 0, 1)}

(* Each Manifest's content, with two archives for one, and one candidate   *)
(* per component that may disagree.                                        *)
MCCandidates == {
  [archive |-> 0] @@ Content(0, 0, 0, 0, 0),
  [archive |-> 1] @@ Content(0, 0, 0, 0, 0),
  [archive |-> 0] @@ Content(0, 0, 0, 0, 1),
  [archive |-> 0] @@ Content(0, 0, 0, 1, 0)}

AllCandidates == MCCandidates \union {
  [archive |-> 0] @@ Content(1, 0, 0, 0, 0),
  [archive |-> 0] @@ Content(0, 1, 0, 0, 0),
  [archive |-> 0] @@ Content(0, 0, 1, 0, 0)}

MCFailureCodes == {"NOT_FOUND", "SOURCE_UNAVAILABLE"}
=============================================================================
