---------------------------- MODULE GitHubSource ----------------------------
(***************************************************************************)
(* GitHubWorkflowSource.fetch_exact of workflow_sources/github.py: the     *)
(* release list of a repository page by page, the one release of the exact *)
(* tag or, without it, the one historical release, and then its assets one *)
(* request at a time: descriptor, provenance, checksum, archive.           *)
(*                                                                         *)
(* GitHub is external.  Releases are published and deleted between two     *)
(* pages of the list, an asset may be replaced before it is asked for, and *)
(* a request may fail or exceed its limit.  A digest stands for the bytes  *)
(* it is the SHA-256 of.                                                   *)
(***************************************************************************)
EXTENDS Integers, FiniteSets, Sequences, SequencesExt

CONSTANTS
  PageSize,         \* releases on one page of the list (100)
  MaxReleasePages,  \* pages of the list asked for at most (10)
  Releases,         \* the releases a repository may hold
  InitialLists,     \* the lists, newest first, a fetch may find
  Descriptors, Provenances, Checksums, Archives,  \* the bodies of assets
  MaxPublished, MaxDeleted,   \* bounds of the model: changes during a fetch
  None

(* tag: "exact" is workflow-package/NAME/vVERSION, "historical" VERSION.   *)
(* assets: the names of the assets, by their role.  form: malformed when a *)
(* field is not of its type or an asset has no https URL, but raises when  *)
(* urlparse refuses the URL of an asset: that ValueError is not caught.    *)
Release == [tag: {"exact", "historical", "other"}, draft: BOOLEAN,
            form: {"valid", "malformed", "raises"}, assets: Seq(STRING)]

(* form: the schema whose every check passes, if any; raises when its keys *)
(* are those of a second version and its schemaVersion cannot be hashed,   *)
(* so that looking it up raises a TypeError; records: how many records of  *)
(* an aggregate name the package.                                          *)
Descriptor == [form: {"malformed", "raises", "v1", "v2", "aggregate"}, records: 0..2,
               package: STRING, archive: STRING, bytes: Nat, provenance: STRING,
               contract: STRING]

Provenance == [digest: STRING, valid: BOOLEAN, subject: STRING, contract: STRING]

(* valid: the members are safe and the Workflow checker accepts them.      *)
Archive == [digest: STRING, bytes: Nat, valid: BOOLEAN, package: STRING]

ASSUME GitHubAssumption ==
  /\ PageSize \in Nat \ {0} /\ MaxReleasePages \in Nat \ {0}
  /\ Releases \subseteq Release /\ InitialLists \subseteq Seq(Releases)
  /\ Descriptors \subseteq Descriptor /\ Provenances \subseteq Provenance
  /\ Checksums \subseteq STRING /\ Archives \subseteq Archive
  /\ MaxPublished \in Nat /\ MaxDeleted \in Nat

VARIABLES
  published,    \* the releases of the repository, newest first (external)
  before,       \* published when the fetch began (auxiliary)
  changes,      \* how many were published and deleted since (auxiliary)
  phase,        \* the request in flight, "validate" or "done"
  page,         \* the page of the list asked for
  releases,     \* the releases on the pages read so far, drafts included
  selected,     \* the selected release
  got,          \* the bodies of its assets received so far
  outcome       \* how the fetch ended

fetchVars == <<published, before, changes, phase, page, releases, selected, got, outcome>>

client == <<phase, page, releases, selected, got, outcome>>

-----------------------------------------------------------------------------
(* _one_asset *)
OneAsset(release, name) ==
  Cardinality({i \in DOMAIN release.assets : release.assets[i] = name}) = 1

(* Where a list has a release of the tag; the drafts are passed over.      *)
Tagged(list, tag) == {i \in DOMAIN list : ~list[i].draft /\ list[i].tag = tag}

Page(n) ==
  SubSeq(published, (n - 1) * PageSize + 1,
         IF n * PageSize <= Len(published) THEN n * PageSize ELSE Len(published))

(* The checks of fetch_exact on the release it selects. *)
ExactReleaseFits(release) ==
  /\ Len(release.assets) \in {3, 4}
  /\ OneAsset(release, "archive") /\ OneAsset(release, "descriptor")
  /\ OneAsset(release, "checksum")
  /\ Len(release.assets) = 4 => OneAsset(release, "provenance")

(* A second version needs a provenance asset. *)
ExactDescriptorFits(release, d) ==
  \/ d.form = "v1"
  \/ d.form = "v2" /\ OneAsset(release, "provenance")

(* _valid_provenance *)
ProvenanceFits(p, d) ==
  p.valid /\ p.subject = d.archive /\ p.contract = d.contract

(* A bug: the archive is compared by its length. *)
ArchiveOfThatLength(a, d) == a.bytes > 0 /\ a.bytes = d.bytes

ArchiveFits(a, d) == a.bytes > 0 /\ a.bytes = d.bytes /\ a.digest = d.archive

-----------------------------------------------------------------------------
FetchInit ==
  /\ published \in InitialLists /\ before = published
  /\ changes = [published |-> 0, deleted |-> 0]
  /\ phase = "list" /\ page = 1 /\ releases = <<>>
  /\ selected = None /\ got = [kind \in {} |-> None] /\ outcome = None

(* External: a release is published, or one is deleted. *)
Publish(release) ==
  /\ phase = "list" /\ changes.published < MaxPublished
  /\ published' = <<release>> \o published
  /\ changes' = [changes EXCEPT !.published = @ + 1]
  /\ UNCHANGED <<before, client>>

Delete(i) ==
  /\ phase = "list" /\ changes.deleted < MaxDeleted
  /\ published' = RemoveAt(published, i)
  /\ changes' = [changes EXCEPT !.deleted = @ + 1]
  /\ UNCHANGED <<before, client>>

Unchanged == UNCHANGED <<published, before, changes>>

End(how) ==
  /\ phase' = "done" /\ outcome' = how
  /\ Unchanged /\ UNCHANGED <<page, releases, selected, got>>

(* A SourceFailure; by: the answer that caused it. *)
Fail(code, by) == End([failure |-> code, by |-> by])

(* Any other exception. *)
Raise(by) == End([raised |-> TRUE, by |-> by])

Await(next, kind, body) ==
  /\ phase' = next
  /\ got' = [k \in DOMAIN got \union {kind} |-> IF k = kind THEN body ELSE got[k]]
  /\ Unchanged /\ UNCHANGED <<page, releases, selected, outcome>>

(* _bytes: a request fails in transport or with a status. *)
RequestFails ==
  /\ phase \in {"list", "descriptor", "provenance", "checksum", "archive"}
  /\ Fail("SOURCE_UNAVAILABLE", "failed")

(* _bytes: the answer exceeds its limit. *)
Exceeds ==
  \/ phase = "list" /\ Fail("INVALID_DESCRIPTOR", "oversized")
  \/ phase = "descriptor" /\ selected.tag = "exact" /\ Fail("INVALID_DESCRIPTOR", "oversized")
  \/ phase = "descriptor" /\ selected.tag = "historical" /\ Raise("oversized")
  \/ phase = "provenance" /\ Fail("INVALID_DESCRIPTOR", "oversized")
  \/ phase = "checksum" /\ Fail("CHECKSUM_MISMATCH", "oversized")
  \/ phase = "archive" /\ Fail("INVALID_ARCHIVE", "oversized")

-----------------------------------------------------------------------------
RepositoryMissing == phase = "list" /\ Fail("NOT_FOUND", "missing")

(* The forms of the releases on the page; all of them are read, drafts too. *)
Forms == {release.form : release \in Range(Page(page))}

ListMalformed ==
  /\ phase = "list"
  /\ \/ "raises" \in Forms /\ Raise("list")
     \/ /\ "raises" \notin Forms /\ "malformed" \in Forms
        /\ Fail("INVALID_DESCRIPTOR", "list")

Readable == phase = "list" /\ Forms \subseteq {"valid"}

(* A bug: the list ends at the bound. *)
ListEndsAtTheBound ==
  /\ Readable /\ Len(Page(page)) = PageSize
  /\ \/ page = MaxReleasePages /\ Fail("NOT_FOUND", "list")
     \/ /\ page < MaxReleasePages
        /\ page' = page + 1
        /\ releases' = releases \o Page(page)
        /\ Unchanged /\ UNCHANGED <<phase, selected, got, outcome>>

(* A full page: there may be another one. *)
ListFullPage ==
  /\ Readable /\ Len(Page(page)) = PageSize
  /\ \/ /\ page = MaxReleasePages
        /\ Fail("SOURCE_UNAVAILABLE", "list")
     \/ /\ page < MaxReleasePages
        /\ page' = page + 1
        /\ releases' = releases \o Page(page)
        /\ Unchanged /\ UNCHANGED <<phase, selected, got, outcome>>

Select(release, fits, all) ==
  \/ ~fits /\ Fail("INVALID_DESCRIPTOR", "list")
  \/ /\ fits
     /\ phase' = "descriptor" /\ selected' = release /\ releases' = all
     /\ Unchanged /\ UNCHANGED <<page, got, outcome>>

(* The last page: the release of the exact tag, or else the historical one. *)
ListLastPage ==
  LET all == releases \o Page(page)
      exact == Tagged(all, "exact")
      historical == Tagged(all, "historical")
  IN /\ Readable /\ Len(Page(page)) < PageSize
     /\ \/ Cardinality(exact) > 1 /\ Fail("INVALID_DESCRIPTOR", "list")
        \/ \E i \in exact : exact = {i} /\ Select(all[i], ExactReleaseFits(all[i]), all)
        \/ /\ exact = {}
           /\ \/ historical = {} /\ Fail("NOT_FOUND", "list")
              \/ Cardinality(historical) > 1 /\ Fail("INVALID_DESCRIPTOR", "list")
              \/ \E i \in historical :
                   /\ historical = {i}
                   /\ Select(all[i], OneAsset(all[i], "descriptor"), all)

-----------------------------------------------------------------------------
ReceiveExactDescriptor(d) ==
  /\ phase = "descriptor" /\ selected.tag = "exact"
  /\ \/ d.form = "raises" /\ Raise("descriptor")
     \/ /\ d.form # "raises" /\ ~ExactDescriptorFits(selected, d)
        /\ Fail("INVALID_DESCRIPTOR", "descriptor")
     \/ /\ ExactDescriptorFits(selected, d)
        /\ Await(IF d.form = "v2" THEN "provenance" ELSE "checksum", "descriptor", d)

ReceiveHistoricalDescriptor(d) ==
  /\ phase = "descriptor" /\ selected.tag = "historical"
  /\ \/ d.form # "aggregate" /\ Fail("INVALID_DESCRIPTOR", "descriptor")
     \/ /\ d.form = "aggregate"
        /\ \/ d.records = 0 /\ Fail("NOT_FOUND", "descriptor")
           \/ /\ d.records > 1 \/ (d.records = 1 /\ ~OneAsset(selected, "archive"))
              /\ Fail("INVALID_DESCRIPTOR", "descriptor")
           \/ /\ d.records = 1 /\ OneAsset(selected, "archive")
              /\ Await("archive", "descriptor", d)

ReceiveProvenance(p) ==
  /\ phase = "provenance"
  /\ \/ p.digest # got.descriptor.provenance /\ Fail("CHECKSUM_MISMATCH", "provenance")
     \/ /\ p.digest = got.descriptor.provenance
        /\ \/ ~ProvenanceFits(p, got.descriptor) /\ Fail("INVALID_DESCRIPTOR", "provenance")
           \/ ProvenanceFits(p, got.descriptor) /\ Await("checksum", "provenance", p)

ReceiveChecksum(checksum) ==
  /\ phase = "checksum"
  /\ \/ checksum # got.descriptor.archive /\ Fail("CHECKSUM_MISMATCH", "checksum")
     \/ checksum = got.descriptor.archive /\ Await("archive", "checksum", checksum)

ReceiveArchive(a) ==
  /\ phase = "archive"
  /\ \/ ~ArchiveFits(a, got.descriptor) /\ Fail("INVALID_ARCHIVE", "archive")
     \/ ArchiveFits(a, got.descriptor) /\ Await("validate", "archive", a)

(* ExactWorkflowArchiveValidator, in a thread: the candidate it reads out  *)
(* of the archive; its own failures become INVALID_WORKFLOW.  This module  *)
(* has no clock: that the thread goes on when the fetch is cancelled in    *)
(* the middle of it is SideWorkflows' concern.                             *)
Validate ==
  LET a == got.archive IN
  /\ phase = "validate"
  /\ \/ ~a.valid /\ Fail("INVALID_WORKFLOW", "archive")
     \/ a.valid /\ a.package # got.descriptor.package /\ Fail("INVALID_DESCRIPTOR", "archive")
     \/ /\ a.valid /\ a.package = got.descriptor.package
        /\ End([candidate |-> [package |-> a.package, archive |-> a.digest]])

Listing == RepositoryMissing \/ ListMalformed \/ ListFullPage \/ ListLastPage

Receiving ==
  \/ \E d \in Descriptors : ReceiveExactDescriptor(d) \/ ReceiveHistoricalDescriptor(d)
  \/ \E p \in Provenances : ReceiveProvenance(p)
  \/ \E checksum \in Checksums : ReceiveChecksum(checksum)
  \/ \E a \in Archives : ReceiveArchive(a)

FetchNext ==
  \/ Listing \/ Receiving \/ Validate \/ RequestFails \/ Exceeds
  \/ \E release \in Releases : Publish(release)
  \/ \E i \in DOMAIN published : Delete(i)

FetchSpec == FetchInit /\ [][FetchNext]_fetchVars

-----------------------------------------------------------------------------
(* Every variable has its type. *)
FetchTypeOK ==
  /\ published \in Seq(Releases) /\ before \in Seq(Releases)
  /\ changes \in [published: 0..MaxPublished, deleted: 0..MaxDeleted]
  /\ phase \in {"list", "descriptor", "provenance", "checksum", "archive", "validate", "done"}
  /\ page \in 1..MaxReleasePages
  /\ releases \in Seq(Releases)
  /\ selected \in Releases \union {None}
  /\ IF phase = "done"
     THEN DOMAIN outcome \in {{"failure", "by"}, {"raised", "by"}, {"candidate"}}
     ELSE outcome = None
  /\ DOMAIN got \subseteq {"descriptor", "provenance", "checksum", "archive"}

Ended(how) == phase = "done" /\ how \in DOMAIN outcome

(* The releases that make the package available at its exact version.      *)
Wanted(list) ==
  {release \in Range(list) : ~release.draft /\ release.tag \in {"exact", "historical"}}

(* NOT_FOUND because of the list is a proof of absence: no release of      *)
(* either tag was in the repository all along.  The list may grow at its   *)
(* head while its pages are read: that shows a release twice, and never    *)
(* hides one.  (A release that is deleted meanwhile may: the next page     *)
(* then skips one.)                                                        *)
PublishingNeverHides ==
  Ended("failure") /\ outcome.failure = "NOT_FOUND" /\ outcome.by = "list"
  /\ changes.deleted = 0
    => Wanted(before) \intersect Wanted(published) = {}

(* A candidate is only returned when the release vouches for it in every   *)
(* way it can: descriptor, checksum and, in the second version, provenance *)
(* name the very archive that was read, the archive holds the package the  *)
(* descriptor names, and the release is the only one of its tag listed,    *)
(* although each asset was fetched by a request of its own.                *)
CandidateIsVouchedFor ==
  Ended("candidate") =>
    /\ outcome.candidate.archive = got.descriptor.archive
    /\ outcome.candidate.package = got.descriptor.package
    /\ selected.tag = "exact" => got.checksum = outcome.candidate.archive
    /\ got.descriptor.form = "v2" =>
         /\ got.provenance.digest = got.descriptor.provenance
         /\ got.provenance.subject = outcome.candidate.archive
    /\ Cardinality(Tagged(releases, selected.tag)) = 1
    /\ selected.tag = "historical" => Tagged(releases, "exact") = {}

(* Whatever GitHub answers, a fetch ends with a candidate or a             *)
(* SourceFailure: README.md promises that a failure of the enrichment      *)
(* remains diagnostic, and the resolver catches nothing else.              *)
FailureIsDiagnostic == ~Ended("raised")
=============================================================================
