--------------------------- MODULE ReleasePipeline ---------------------------
(***************************************************************************)
(* The two workflows that publish an image of the product.                  *)
(* release-candidate.yml builds and qualifies the image that a push asks    *)
(* for and makes a prerelease of it; release-promote.yml, started by hand,  *)
(* gives a qualified image its stable tag and makes the stable Release.     *)
(* Each workflow has a concurrency group of its own, so one run of it       *)
(* works at a time, and a run of the other one works beside it.             *)
(*                                                                          *)
(* A run is its steps in order.  It may end between any two of them, as     *)
(* every command that fails and every timeout of the job ends it (Crash);   *)
(* anyone may then start the same push again, or push again.  Some reads    *)
(* take any failure for "there is none": of those, MaxMisses may miss       *)
(* something that is there.                                                 *)
(***************************************************************************)
EXTENDS Naturals, FiniteSets, Sequences

CONSTANTS
    Pushes,      \* [revision, tag, commit, authority]: pushes to release/next
    Pinned,      \* Pinned[a]: the product commit that authority a pins
    VersionOf,   \* VersionOf[c]: the version in pyproject.toml at commit c
    Candidates,  \* Candidates[v]: the tags of the form v-rc.n
    HandMade,    \* the git tags that may stand before any run: tag -> commit
    MaxRuns,     \* bound: runs of the candidate workflow
    MaxDispatches, \* bound: runs of the promotion workflow
    MaxMisses,   \* bound: reads that miss something that is there
    None

Versions == DOMAIN Candidates
CandidateTags == UNION {Candidates[v] : v \in Versions}
Tags == CandidateTags \union Versions

Qualifications ==
    [tag: CandidateTags, version: Versions, commit: DOMAIN VersionOf,
     authority: {p.authority : p \in Pushes}, publisher: {p.revision : p \in Pushes},
     digest: Nat]

Prereleases == [prerelease: {TRUE}, qualification: Qualifications \union {None}]

ASSUME PipelineAssumption ==
    /\ VersionOf \in [DOMAIN VersionOf -> Versions]
    /\ \A v, w \in Versions : v # w => Candidates[v] \intersect Candidates[w] = {}
    /\ Versions \intersect CandidateTags = {}
    /\ \A p \in Pushes : p.tag \in CandidateTags /\ p.commit \in DOMAIN VersionOf
    /\ HandMade \subseteq [Tags -> DOMAIN VersionOf \union {None}]
    /\ None \notin DOMAIN VersionOf \union Nat \union Qualifications \union Prereleases

VARIABLES
    images,      \* the images pushed so far: an image's digest is its place here
    registry,    \* registry[t]: the digest that image tag t names, or None
    gitTags,     \* gitTags[t]: the commit of git tag t, or None
    releases,    \* releases[t]: the GitHub Release of t, or None
    candidate,   \* the latest run of the candidate workflow
    promotion,   \* the latest run of the promotion workflow
    asked,       \* the pushes that were started so far
    runs, dispatches, misses   \* what the bounds count

world == <<images, registry, gitTags, releases>>
counts == <<runs, dispatches, misses>>
vars == <<world, candidate, promotion, asked, counts>>

Init ==
    /\ images = <<>>
    /\ registry = [t \in Tags |-> None]
    /\ gitTags \in HandMade
    /\ releases = [t \in Tags |-> None]
    /\ candidate = [pc |-> "ended"]
    /\ promotion = [pc |-> "ended"]
    /\ asked = {}
    /\ runs = 0 /\ dispatches = 0 /\ misses = 0

(***************************************************************************)
(* A read whose failure counts as "there is none": it returns what is       *)
(* there, or None.  Read counts those that missed what is there.            *)
(***************************************************************************)
Readings(there) == {there, None}

Read(there, seen) ==
    /\ misses' = misses + Cardinality({i \in DOMAIN there : seen[i] # there[i]})
    /\ misses' <= MaxMisses

Idle(run) == run.pc \in {"ended", "refused"}

----------------------------------------------------------------------------
(* validate_image_qualification.py *)

\* validate: the qualification is one of this candidate, version and commit.
Validated(q, tag, final, commit) ==
    /\ q.version = final
    /\ tag \in Candidates[final]
    /\ q.tag = tag
    /\ q.commit = commit

\* validate_provenance and validate_image_config: the image was built from the
\* authority of the qualification and from the product commit.
ImageValidated(q, commit) ==
    images[q.digest] = [authority |-> q.authority, commit |-> commit]

----------------------------------------------------------------------------
(* release-candidate.yml *)

StartCandidate(p) ==
    /\ Idle(candidate) /\ runs < MaxRuns
    /\ candidate' = [pc |-> "verify", push |-> p]
    /\ asked' = asked \union {p}
    /\ runs' = runs + 1
    /\ UNCHANGED <<world, promotion, dispatches, misses>>

\* The request is consistent: the authority pins the commit, and the tag is a
\* candidate of the version at that commit.
Consistent(p) ==
    /\ Pinned[p.authority] = p.commit
    /\ p.tag \in Candidates[VersionOf[p.commit]]

\* Verify exact Evolution product and candidate coordinate.  A Release must be
\* a prerelease of the commit; without one, a git tag must name the commit.
VerifyCandidate ==
    /\ candidate.pc = "verify"
    /\ LET p == candidate.push
       IN \E release \in Readings(releases[p.tag]), tag \in Readings(gitTags[p.tag]) :
            LET exists == release # None
                verified == IF exists
                            THEN release.prerelease /\ gitTags[p.tag] = p.commit
                            ELSE tag \in {None, p.commit}
            IN /\ Read(<<releases[p.tag], gitTags[p.tag]>>, <<release, tag>>)
               /\ candidate' = IF Consistent(p) /\ verified
                               THEN [pc |-> "image", push |-> p, exists |-> exists]
                               ELSE [pc |-> "refused", push |-> p]
    /\ UNCHANGED <<world, promotion, asked, runs, dispatches>>

(* A bug: the image is built anew on every run. *)
BuildsEveryTime ==
    /\ candidate.pc = "image"
    /\ LET p == candidate.push
       IN /\ images' = Append(images, [authority |-> p.authority, commit |-> p.commit])
          /\ registry' = [registry EXCEPT ![p.tag] = Len(images')]
    /\ candidate' = [candidate EXCEPT !.pc = "qualify"]
    /\ UNCHANGED <<gitTags, releases, promotion, asked, counts>>

\* Resolve or publish immutable candidate image: the image the tag names, or
\* one built from the checked-out authority with the commit as build argument.
ResolveImage ==
    /\ candidate.pc = "image"
    /\ LET p == candidate.push
       IN \E seen \in Readings(registry[p.tag]) :
            /\ Read(<<registry[p.tag]>>, <<seen>>)
            /\ \/ /\ seen # None
                  /\ UNCHANGED <<images, registry>>
               \/ /\ seen = None
                  /\ images' = Append(images, [authority |-> p.authority, commit |-> p.commit])
                  /\ registry' = [registry EXCEPT ![p.tag] = Len(images')]
    /\ candidate' = [candidate EXCEPT !.pc = "qualify"]
    /\ UNCHANGED <<gitTags, releases, promotion, asked, runs, dispatches>>

\* The qualification a run writes down for its push.
Qualification(p) ==
    [tag |-> p.tag, version |-> VersionOf[p.commit], commit |-> p.commit,
     authority |-> p.authority, publisher |-> p.revision, digest |-> registry[p.tag]]

\* Build durable candidate qualification metadata, and validate it.
Qualify ==
    /\ candidate.pc = "qualify"
    /\ LET p == candidate.push
           q == Qualification(p)
       IN candidate' = IF Validated(q, p.tag, VersionOf[p.commit], p.commit)
                          /\ ImageValidated(q, p.commit)
                       THEN [pc |-> "release", push |-> p, exists |-> candidate.exists,
                             qualification |-> q]
                       ELSE [pc |-> "refused", push |-> p]
    /\ UNCHANGED <<world, promotion, asked, counts>>

\* gh release create: fails if there is a Release of the tag; makes the git tag
\* unless it stands already.
CreateRelease(tag, release, commit) ==
    /\ releases[tag] = None
    /\ releases' = [releases EXCEPT ![tag] = release]
    /\ gitTags' = [gitTags EXCEPT ![tag] = IF @ = None THEN commit ELSE @]

(* A bug: a rerun creates the Release again. *)
CreatesEveryTime ==
    /\ candidate.pc = "release"
    /\ LET p == candidate.push
       IN \/ /\ CreateRelease(p.tag, [prerelease |-> TRUE, qualification |-> None], p.commit)
             /\ candidate' = [candidate EXCEPT !.pc = "upload"]
          \/ /\ releases[p.tag] # None
             /\ candidate' = [pc |-> "refused", push |-> p]
             /\ UNCHANGED <<gitTags, releases>>
    /\ UNCHANGED <<images, registry, promotion, asked, counts>>

\* Create or resume exact candidate Release, as verified at the beginning.
CreateCandidateRelease ==
    /\ candidate.pc = "release"
    /\ LET p == candidate.push
       IN \/ /\ candidate.exists
             /\ candidate' = [candidate EXCEPT !.pc = "upload"]
             /\ UNCHANGED <<gitTags, releases>>
          \/ /\ ~candidate.exists
             /\ CreateRelease(p.tag, [prerelease |-> TRUE, qualification |-> None], p.commit)
             /\ candidate' = [candidate EXCEPT !.pc = "upload"]
          \/ /\ ~candidate.exists /\ releases[p.tag] # None
             /\ candidate' = [pc |-> "refused", push |-> p]
             /\ UNCHANGED <<gitTags, releases>>
    /\ UNCHANGED <<images, registry, promotion, asked, counts>>

\* A qualification that is attached already must be the same to the byte;
\* one that the read missed is not written over either.
UploadQualification ==
    /\ candidate.pc = "upload"
    /\ LET p == candidate.push
           attached == releases[p.tag].qualification
           q == candidate.qualification
       IN \E seen \in Readings(attached) :
            /\ Read(<<attached>>, <<seen>>)
            /\ releases' = IF attached = None
                           THEN [releases EXCEPT ![p.tag].qualification = q] ELSE releases
            /\ candidate' = IF attached = None \/ seen = q
                            THEN [pc |-> "ended"]
                            ELSE [pc |-> "refused", push |-> p]
    /\ UNCHANGED <<images, registry, gitTags, promotion, asked, runs, dispatches>>

\* A command failed, or the job ran out of time.
CrashCandidate ==
    /\ ~Idle(candidate)
    /\ candidate' = [pc |-> "ended"]
    /\ UNCHANGED <<world, promotion, asked, counts>>

----------------------------------------------------------------------------
(* release-promote.yml *)

Dispatch(tag, final) ==
    /\ Idle(promotion) /\ dispatches < MaxDispatches
    /\ promotion' = [pc |-> "resolve", tag |-> tag, final |-> final]
    /\ dispatches' = dispatches + 1
    /\ UNCHANGED <<world, candidate, asked, runs, misses>>

Refuse == promotion' = [pc |-> "refused"]

\* Resolve exact candidate commit.
ResolveCandidate ==
    /\ promotion.pc = "resolve"
    /\ LET t == promotion.tag
       IN IF releases[t] # None /\ releases[t].prerelease
          THEN promotion' = [pc |-> "validate", tag |-> t, final |-> promotion.final,
                             commit |-> gitTags[t]]
          ELSE Refuse
    /\ UNCHANGED <<world, candidate, asked, counts>>

\* Download and validate durable candidate qualification.  Of the two tests of
\* the stable tag at the end of the step only the second can fail it: bash -e
\* does not stop at a command whose status is inverted, unless it is the last.
ValidateQualification ==
    /\ promotion.pc = "validate"
    /\ LET r == promotion
           q == releases[r.tag].qualification
       IN \E stable \in Readings(gitTags[r.final]) :
            /\ Read(<<gitTags[r.final]>>, <<stable>>)
            /\ IF /\ q # None
                  /\ r.final = VersionOf[r.commit]
                  /\ Validated(q, r.tag, r.final, r.commit)
                  /\ stable = None
               THEN promotion' = [pc |-> "requalify", tag |-> r.tag, final |-> r.final,
                                  commit |-> r.commit, qualification |-> q]
               ELSE Refuse
    /\ UNCHANGED <<world, candidate, asked, runs, dispatches>>

\* Requalify candidate image without rebuilding.
Requalifies(q, tag, commit) ==
    /\ registry[tag] = q.digest
    /\ ImageValidated(q, commit)

Requalify ==
    /\ promotion.pc = "requalify"
    /\ IF Requalifies(promotion.qualification, promotion.tag, promotion.commit)
       THEN promotion' = [promotion EXCEPT !.pc = "attach"]
       ELSE Refuse
    /\ UNCHANGED <<world, candidate, asked, counts>>

(* A bug: the stable tag is moved to the digest, whatever it names. *)
AttachesInAnyCase ==
    /\ promotion.pc = "attach"
    /\ registry' = [registry EXCEPT ![promotion.final] = promotion.qualification.digest]
    /\ promotion' = [promotion EXCEPT !.pc = "publish"]
    /\ UNCHANGED <<images, gitTags, releases, candidate, asked, counts>>

\* Attach stable tag to the exact candidate digest, or find it there.
AttachStable ==
    /\ promotion.pc = "attach"
    /\ LET final == promotion.final
           digest == promotion.qualification.digest
       IN \E seen \in Readings(registry[final]) :
            /\ Read(<<registry[final]>>, <<seen>>)
            /\ IF seen \in {None, digest}
               THEN /\ registry' = [registry EXCEPT ![final] = digest]
                    /\ promotion' = [promotion EXCEPT !.pc = "publish"]
               ELSE /\ Refuse
                    /\ UNCHANGED registry
    /\ UNCHANGED <<images, gitTags, releases, candidate, asked, runs, dispatches>>

\* Create stable tag and Release as the last operation, with the stable
\* qualification metadata.
PublishStable ==
    /\ promotion.pc = "publish"
    /\ LET r == promotion
       IN \/ /\ CreateRelease(r.final,
                    [prerelease |-> FALSE, qualification |-> r.qualification,
                     promotedFrom |-> r.tag, commit |-> r.commit], r.commit)
             /\ promotion' = [pc |-> "ended"]
          \/ /\ releases[r.final] # None
             /\ Refuse
             /\ UNCHANGED <<releases, gitTags>>
    /\ UNCHANGED <<images, registry, candidate, asked, counts>>

CrashPromotion ==
    /\ ~Idle(promotion)
    /\ promotion' = [pc |-> "ended"]
    /\ UNCHANGED <<world, candidate, asked, counts>>

----------------------------------------------------------------------------

CandidateStep ==
    \/ \E p \in Pushes : StartCandidate(p)
    \/ VerifyCandidate \/ ResolveImage \/ Qualify
    \/ CreateCandidateRelease \/ UploadQualification
    \/ CrashCandidate

PromotionStep ==
    \/ \E tag \in CandidateTags, final \in Versions : Dispatch(tag, final)
    \/ ResolveCandidate \/ ValidateQualification \/ Requalify
    \/ AttachStable \/ PublishStable
    \/ CrashPromotion

Next == CandidateStep \/ PromotionStep

Spec == Init /\ [][Next]_vars

----------------------------------------------------------------------------
(* Properties *)

\* A stable Release is the candidate that was qualified, and stays it: it
\* carries the qualification that its candidate Release still has, its git tag
\* names the commit of the candidate, and the stable image tag names the image
\* of that qualification, built from that commit and authority.  Crashes,
\* promotions of another candidate of the version, and runs of the candidate
\* workflow beside a promotion do not change that, nor does one missed read.
StableIsTheQualifiedCandidate ==
    \A v \in Versions : releases[v] # None =>
        LET q == releases[v].qualification
            source == releases[v].promotedFrom
        IN /\ ~releases[v].prerelease
           /\ releases[source] # None /\ releases[source].qualification = q
           /\ gitTags[v] = gitTags[source] /\ gitTags[v] = releases[v].commit
           /\ registry[v] = q.digest
           /\ images[q.digest] = [authority |-> q.authority, commit |-> gitTags[v]]

\* A candidate whose qualification was uploaded stays fit for promotion: while
\* no read missed anything, no later run, of this push or of another, takes the
\* image from under the qualification or the commit from under the tag.
QualifiedStaysPromotable ==
    misses = 0 =>
        \A v \in Versions, t \in CandidateTags :
            releases[t] # None /\ releases[t].qualification # None /\ t \in Candidates[v] =>
                LET q == releases[t].qualification
                IN Validated(q, t, v, gitTags[t]) /\ Requalifies(q, t, gitTags[t])

\* What a run left behind when it crashed, the same push can resume: a run is
\* refused only when its request is inconsistent, when the tag was made by
\* hand for another commit, when another push asked for the same tag, or when
\* a read missed something.
RerunIsNeverRefused ==
    candidate.pc = "refused" =>
        LET p == candidate.push
        IN \/ misses > 0
           \/ ~Consistent(p)
           \/ gitTags[p.tag] \notin {None, p.commit}
           \/ \E other \in asked \ {p} : other.tag = p.tag

=============================================================================
