------------------------- MODULE MC_ReleasePipeline -------------------------
(***************************************************************************)
(* A version with two candidates, and the next version with one.  The       *)
(* commit of the second candidate repairs the first; a push repeats the     *)
(* first request, another one asks for the second commit without a new      *)
(* candidate number, and one names an authority that pins another commit.   *)
(***************************************************************************)
EXTENDS ReleasePipeline

Push(revision, tag, commit, authority) ==
    [revision |-> revision, tag |-> tag, commit |-> commit, authority |-> authority]

MCPushes == {Push("r1", "rc1", "c1", "a1"), Push("r2", "rc1", "c1", "a1"),
             Push("r3", "rc2", "c2", "a2"), Push("r4", "rc1", "c2", "a2"),
             Push("r5", "rc2", "c2", "a1"), Push("r6", "w-rc1", "c3", "a3")}
MCPinned == [a1 |-> "c1", a2 |-> "c2", a3 |-> "c3"]
MCVersionOf == [c1 |-> "v", c2 |-> "v", c3 |-> "w"]
MCCandidates == [v |-> {"rc1", "rc2"}, w |-> {"w-rc1"}]

\* Nobody made a git tag by hand, or somebody made that of rc1, at c1 or c2.
MCHandMade == {[t \in Tags |-> IF t = "rc1" THEN c ELSE None] : c \in {None, "c1", "c2"}}

=============================================================================
