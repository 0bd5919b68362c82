-------------------------- MODULE MC_GitHubSource --------------------------
(* Pages of two releases, at most two of them.                             *)
EXTENDS GitHubSource

R(tag, draft, form, assets) ==
  [tag |-> tag, draft |-> draft, form |-> form, assets |-> assets]

Three == <<"archive", "descriptor", "checksum">>

Exact3 == R("exact", FALSE, "valid", Three)
Exact4 == R("exact", FALSE, "valid", Append(Three, "provenance"))
Odd == R("exact", FALSE, "valid", <<"archive", "descriptor", "descriptor">>)
Draft == R("exact", TRUE, "valid", Three)
Historical == R("historical", FALSE, "valid", <<"descriptor", "archive">>)
Bare == R("historical", FALSE, "valid", <<"descriptor">>)
Other == R("other", FALSE, "valid", <<>>)
Broken == R("other", FALSE, "malformed", <<>>)
Refused == R("other", TRUE, "raises", <<>>)

MCReleases == {Exact3, Exact4, Odd, Draft, Historical, Bare, Other, Broken, Refused}

MCInitialLists ==
  {<<>>, <<Exact3>>, <<Exact4>>, <<Odd>>, <<Draft>>, <<Bare>>, <<Other, Broken>>,
   <<Refused, Broken>>, <<Other, Other, Exact4>>, <<Other, Exact3, Historical>>, <<Other, Other, Historical>>,
   <<Other, Other, Other, Other, Exact3>>}

D(form, records, archive, bytes, provenance) ==
  [form |-> form, records |-> records, package |-> "p", archive |-> archive,
   bytes |-> bytes, provenance |-> provenance, contract |-> "k"]

MCDescriptors ==
  {D("malformed", 0, "a", 1, "none"), D("raises", 0, "a", 1, "none"),
   D("v1", 0, "a", 1, "none"), D("v2", 0, "a", 1, "pa"),
   D("v2", 0, "b", 1, "pb"), D("aggregate", 0, "a", 1, "none"),
   D("aggregate", 1, "a", 1, "none"), D("aggregate", 2, "a", 1, "none")}

(* For the run of the oversized answer: nothing else that raises. *)
MCReadableReleases == MCReleases \ {Refused}
MCReadableLists == {list \in MCInitialLists : Range(list) \subseteq MCReadableReleases}
MCHashableDescriptors == {d \in MCDescriptors : d.form # "raises"}

MCProvenances ==
  {[digest |-> "pa", valid |-> TRUE, subject |-> "a", contract |-> "k"],
   [digest |-> "pb", valid |-> TRUE, subject |-> "a", contract |-> "k"],
   [digest |-> "pb", valid |-> TRUE, subject |-> "b", contract |-> "other"]}

MCChecksums == {"a", "b"}

MCArchives ==
  {[digest |-> "a", bytes |-> 1, valid |-> TRUE, package |-> "p"],
   [digest |-> "a", bytes |-> 1, valid |-> TRUE, package |-> "q"],
   [digest |-> "b", bytes |-> 1, valid |-> TRUE, package |-> "p"],
   [digest |-> "b", bytes |-> 1, valid |-> FALSE, package |-> "p"],
   [digest |-> "a", bytes |-> 0, valid |-> FALSE, package |-> "p"]}
=============================================================================
