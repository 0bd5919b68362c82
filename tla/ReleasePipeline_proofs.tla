----------------------- MODULE ReleasePipeline_proofs -----------------------
(***************************************************************************)
(* What the release workflows keep, proved for any pushes, authorities,    *)
(* versions and numbers of runs.                                           *)
(*                                                                         *)
(* What stands under a candidate tag is the work of one push: the image    *)
(* was built for it, the qualification is the one it writes, and the git   *)
(* tag names its commit.  The invariant says so of every candidate tag,    *)
(* and of the run in progress which part of that work is done.  It holds   *)
(* as long as no read missed anything; the types hold in any case.         *)
(***************************************************************************)
EXTENDS ReleasePipeline, TLAPS, FiniteSetTheorems

Built(p) == [authority |-> p.authority, commit |-> p.commit]

Images == {Built(p) : p \in Pushes}

Commits == DOMAIN VersionOf

StableReleases ==
    [prerelease: {FALSE}, qualification: Qualifications, promotedFrom: CandidateTags,
     commit: Commits \union {None}]

CandidateRuns ==
    [pc: {"ended"}]
    \union [pc: {"verify", "refused"}, push: Pushes]
    \union [pc: {"image", "qualify"}, push: Pushes, exists: BOOLEAN]
    \union [pc: {"release", "upload"}, push: Pushes, exists: BOOLEAN,
            qualification: Qualifications]

PromotionRuns ==
    [pc: {"ended", "refused"}]
    \union [pc: {"resolve"}, tag: CandidateTags, final: Versions]
    \union [pc: {"validate"}, tag: CandidateTags, final: Versions,
            commit: Commits \union {None}]
    \union [pc: {"requalify", "attach", "publish"}, tag: CandidateTags, final: Versions,
            commit: Commits \union {None}, qualification: Qualifications]

TypesOK ==
    /\ images \in Seq(Images)
    /\ registry \in [Tags -> 1..Len(images) \union {None}]
    /\ gitTags \in [Tags -> Commits \union {None}]
    /\ releases \in [Tags -> Prereleases \union StableReleases \union {None}]
    /\ \A t \in CandidateTags : releases[t] \in Prereleases \union {None}
    /\ \A v \in Versions : releases[v] \in StableReleases \union {None}
    /\ candidate \in CandidateRuns
    /\ candidate.pc # "ended" => candidate.push \in asked
    /\ candidate.pc \in {"qualify", "release", "upload"} => registry[candidate.push.tag] # None
    /\ (candidate.pc \in {"image", "qualify", "release"} /\ candidate.exists) \/ candidate.pc = "upload"
         => releases[candidate.push.tag] # None
    /\ promotion \in PromotionRuns
    /\ promotion.pc \in {"attach", "publish"} =>
         promotion.qualification.digest \in 1..Len(images)
    /\ promotion.pc \in {"validate", "requalify", "attach", "publish"} =>
         releases[promotion.tag] # None
    /\ asked \subseteq Pushes
    /\ misses \in Nat

(* q is what the push p writes down of the image it built, and p stands.   *)
WorkOf(p, t, q) ==
    /\ p.tag = t /\ Consistent(p)
    /\ q = Qualification(p)
    /\ gitTags[t] = p.commit
    /\ registry[t] # None /\ images[registry[t]] = Built(p)

TagOK(t) ==
    /\ registry[t] # None =>
         \E p \in asked : p.tag = t /\ images[registry[t]] = Built(p)
    /\ releases[t] # None =>
         /\ gitTags[t] # None
         /\ releases[t].qualification # None =>
              \E p \in asked : WorkOf(p, t, releases[t].qualification)

(* How far the run of the candidate workflow has come with its push p.     *)
ProgressOK(run) ==
    LET p == run.push
    IN  /\ run.pc \in {"image", "qualify", "release"} =>
             /\ Consistent(p)
             /\ run.exists => gitTags[p.tag] = p.commit
             /\ ~run.exists => /\ releases[p.tag] = None
                               /\ gitTags[p.tag] \in {None, p.commit}
        /\ run.pc \in {"release", "upload"} =>
             /\ run.qualification = Qualification(p)
             /\ images[registry[p.tag]] = Built(p)
        /\ run.pc = "upload" =>
             Consistent(p) /\ gitTags[p.tag] = p.commit
        /\ run.pc = "refused" =>
             \/ ~Consistent(p)
             \/ gitTags[p.tag] \notin {None, p.commit}
             \/ \E other \in asked \ {p} : other.tag = p.tag

Exact == (\A t \in CandidateTags : TagOK(t)) /\ ProgressOK(candidate)

PipelineInv == TypesOK /\ (misses = 0 => Exact)

-----------------------------------------------------------------------------
LEMMA TagsAreTags ==
    /\ CandidateTags \subseteq Tags /\ Versions \subseteq Tags
    /\ \A p \in Pushes : p.tag \in CandidateTags /\ p.tag \in Tags /\ p.tag \notin Versions
    /\ \A p \in Pushes : p.commit \in Commits /\ p.commit # None
BY PipelineAssumption DEF Tags, Commits

LEMMA NothingIsNone ==
    /\ None \notin Commits /\ None \notin Nat /\ None \notin Qualifications
    /\ None \notin Prereleases
BY PipelineAssumption DEF Commits

(* The shape of a run is told by its pc. *)
LEMMA CandidateShapes ==
    ASSUME NEW run \in CandidateRuns
    PROVE  /\ run.pc \in {"ended", "verify", "refused", "image", "qualify", "release", "upload"}
           /\ run.pc # "ended" => run.push \in Pushes
           /\ run.pc \in {"image", "qualify"} =>
                run \in [pc: {"image", "qualify"}, push: Pushes, exists: BOOLEAN]
           /\ run.pc \in {"release", "upload"} =>
                run \in [pc: {"release", "upload"}, push: Pushes, exists: BOOLEAN,
                         qualification: Qualifications]
BY DEF CandidateRuns

LEMMA PromotionShapes ==
    ASSUME NEW run \in PromotionRuns
    PROVE  /\ run.pc \in {"ended", "refused", "resolve", "validate", "requalify", "attach",
                          "publish"}
           /\ run.pc \notin {"ended", "refused"} =>
                run.tag \in CandidateTags /\ run.final \in Versions
           /\ run.pc = "validate" => run.commit \in Commits \union {None}
           /\ run.pc \in {"requalify", "attach", "publish"} =>
                run \in [pc: {"requalify", "attach", "publish"}, tag: CandidateTags,
                         final: Versions, commit: Commits \union {None},
                         qualification: Qualifications]
BY DEF PromotionRuns

(* As long as nothing is missed, a read returns what is there.             *)
LEMMA ReadIsExact ==
    ASSUME misses \in Nat, NEW there, NEW seen, IsFiniteSet(DOMAIN there),
           Read(there, seen)
    PROVE  /\ misses' \in Nat
           /\ misses' = 0 => misses = 0 /\ \A i \in DOMAIN there : seen[i] = there[i]
<1> DEFINE missed == {i \in DOMAIN there : seen[i] # there[i]}
<1>1. IsFiniteSet(missed)
    BY FS_Subset
<1>2. Cardinality(missed) \in Nat
    BY <1>1, FS_CardinalityType
<1>3. misses' = misses + Cardinality(missed)
    BY DEF Read
<1>4. Cardinality(missed) = 0 => missed = {}
    BY <1>1, FS_EmptySet
<1> QED BY <1>2, <1>3, <1>4

LEMMA ReadOne ==
    ASSUME misses \in Nat, NEW there, NEW seen, Read(<<there>>, <<seen>>)
    PROVE  misses' \in Nat /\ (misses' = 0 => misses = 0 /\ seen = there)
<1> DEFINE a == <<there>>
           b == <<seen>>
<1>1. 1 \in DOMAIN a /\ DOMAIN a = 1..1 /\ a[1] = there /\ b[1] = seen
    OBVIOUS
<1>2. Read(a, b)
    OBVIOUS
<1> HIDE DEF a, b
<1>3. IsFiniteSet(DOMAIN a)
    <2>1. 1 \in Int
        OBVIOUS
    <2>2. IsFiniteSet(1..1)
        BY <2>1, FS_Interval
    <2> QED BY <1>1, <2>2
<1> QED BY <1>1, <1>2, <1>3, ReadIsExact

LEMMA ReadTwo ==
    ASSUME misses \in Nat, NEW there, NEW seen, NEW thereToo, NEW seenToo,
           Read(<<there, thereToo>>, <<seen, seenToo>>)
    PROVE  /\ misses' \in Nat
           /\ misses' = 0 => misses = 0 /\ seen = there /\ seenToo = thereToo
<1> DEFINE a == <<there, thereToo>>
           b == <<seen, seenToo>>
<1>1. /\ DOMAIN a = 1..2 /\ a[1] = there /\ b[1] = seen /\ a[2] = thereToo /\ b[2] = seenToo
      /\ 1 \in DOMAIN a /\ 2 \in DOMAIN a
    OBVIOUS
<1>2. Read(a, b)
    OBVIOUS
<1> HIDE DEF a, b
<1>3. IsFiniteSet(DOMAIN a)
    <2>1. 1 \in Int /\ 2 \in Int
        OBVIOUS
    <2>2. IsFiniteSet(1..2)
        BY <2>1, FS_Interval
    <2> QED BY <1>1, <2>2
<1> QED BY <1>1, <1>2, <1>3, ReadIsExact

-----------------------------------------------------------------------------
(* A tag that a step leaves alone keeps its work.                          *)
LEMMA TagKept ==
    ASSUME TypesOK, NEW t \in CandidateTags, TagOK(t), asked \subseteq asked',
           registry'[t] = registry[t], gitTags'[t] = gitTags[t], releases'[t] = releases[t],
           images' = images \/ \E image : images' = Append(images, image)
    PROVE  TagOK(t)'
<1>1. registry[t] # None => images'[registry[t]] = images[registry[t]]
    <2>1. t \in Tags
        BY TagsAreTags
    <2>2. registry[t] # None => registry[t] \in 1..Len(images)
        BY <2>1 DEF TypesOK
    <2>3. images \in Seq(Images)
        BY DEF TypesOK
    <2> QED BY <2>2, <2>3
<1>2. ASSUME NEW p \in asked, NEW q, WorkOf(p, t, q)
      PROVE  WorkOf(p, t, q)'
    BY <1>1, <1>2 DEF WorkOf, Qualification, Consistent
<1> QED BY <1>1, <1>2 DEF TagOK

LEMMA AllTagsKept ==
    ASSUME TypesOK, \A t \in CandidateTags : TagOK(t), asked \subseteq asked',
           \A t \in CandidateTags : /\ registry'[t] = registry[t]
                                    /\ gitTags'[t] = gitTags[t]
                                    /\ releases'[t] = releases[t],
           images' = images
    PROVE  \A t \in CandidateTags : TagOK(t)'
BY TagKept

(* The steps of a promotion touch neither a candidate tag nor its run.     *)
LEMMA PromotionKeeps ==
    ASSUME TypesOK, misses = 0 => Exact,
           UNCHANGED <<candidate, asked, images>>,
           \A t \in CandidateTags : /\ registry'[t] = registry[t]
                                    /\ gitTags'[t] = gitTags[t]
                                    /\ releases'[t] = releases[t],
           misses' = 0 => misses = 0
    PROVE  misses' = 0 => Exact'
<1> SUFFICES ASSUME misses' = 0 PROVE Exact'
    OBVIOUS
<1>1. Exact
    OBVIOUS
<1>2. \A t \in CandidateTags : TagOK(t)'
    BY <1>1, AllTagsKept DEF Exact
<1>3. ProgressOK(candidate)'
    <2>1. candidate.pc # "ended" => candidate.push.tag \in CandidateTags
        BY CandidateShapes, TagsAreTags DEF TypesOK
    <2>2. candidate.pc \in {"ended", "verify"} => ProgressOK(candidate)'
        BY DEF ProgressOK
    <2>3. ASSUME candidate.pc # "ended" PROVE ProgressOK(candidate)'
        BY <1>1, <2>1, <2>3 DEF Exact, ProgressOK, Qualification, Consistent
    <2> QED BY <2>2, <2>3
<1> QED BY <1>2, <1>3 DEF Exact

-----------------------------------------------------------------------------
LEMMA InitInv == Init => PipelineInv
<1> SUFFICES ASSUME Init PROVE PipelineInv
    OBVIOUS
<1>1. candidate \in CandidateRuns /\ promotion \in PromotionRuns
    BY DEF Init, CandidateRuns, PromotionRuns
<1>2. \A t \in CandidateTags : TagOK(t)
    BY TagsAreTags DEF Init, TagOK
<1>3. ProgressOK(candidate)
    BY DEF Init, ProgressOK
<1>4. TypesOK
    BY <1>1, TagsAreTags, PipelineAssumption DEF Init, TypesOK, Commits
<1> QED BY <1>2, <1>3, <1>4 DEF PipelineInv, Exact

-----------------------------------------------------------------------------
LEMMA StartCandidateInv ==
    ASSUME PipelineInv, NEW p \in Pushes, StartCandidate(p)
    PROVE  PipelineInv'
<1>1. /\ UNCHANGED <<images, registry, gitTags, releases, promotion, misses>>
      /\ candidate' = [pc |-> "verify", push |-> p]
      /\ asked' = asked \union {p}
    BY DEF StartCandidate, world
<1>2. candidate' \in CandidateRuns /\ candidate'.pc = "verify" /\ candidate'.push = p
    BY <1>1 DEF CandidateRuns
<1>3. TypesOK'
    BY <1>1, <1>2 DEF PipelineInv, TypesOK
<1>4. ProgressOK(candidate)'
    BY <1>2 DEF ProgressOK
<1>5. misses' = 0 => Exact'
    BY <1>1, <1>4, AllTagsKept DEF PipelineInv, Exact
<1> QED BY <1>3, <1>5 DEF PipelineInv

LEMMA VerifyCandidateInv ==
    ASSUME PipelineInv, VerifyCandidate
    PROVE  PipelineInv'
<1> DEFINE p == candidate.push
           t == candidate.push.tag
<1>1. PICK release \in Readings(releases[t]), tag \in Readings(gitTags[t]) :
        LET exists == release # None
            verified == IF exists
                        THEN release.prerelease /\ gitTags[t] = p.commit
                        ELSE tag \in {None, p.commit}
        IN  /\ Read(<<releases[t], gitTags[t]>>, <<release, tag>>)
            /\ candidate' = IF Consistent(p) /\ verified
                            THEN [pc |-> "image", push |-> p, exists |-> exists]
                            ELSE [pc |-> "refused", push |-> p]
    BY DEF VerifyCandidate
<1> DEFINE exists == release # None
           verified == IF exists
                       THEN release.prerelease /\ gitTags[t] = p.commit
                       ELSE tag \in {None, p.commit}
<1>2. UNCHANGED <<images, registry, gitTags, releases, promotion, asked>>
    BY DEF VerifyCandidate, world
<1>3. TypesOK /\ p \in Pushes /\ p \in asked /\ t \in CandidateTags /\ t \in Tags
    BY CandidateShapes, TagsAreTags DEF PipelineInv, TypesOK, VerifyCandidate
<1>4. misses' \in Nat /\ (misses' = 0 => misses = 0 /\ release = releases[t] /\ tag = gitTags[t])
    <2>1. Read(<<releases[t], gitTags[t]>>, <<release, tag>>)
        BY <1>1
    <2>2. misses \in Nat
        BY <1>3 DEF TypesOK
    <2> HIDE DEF t
    <2> QED BY <2>1, <2>2, ReadTwo
<1>5. misses' = 0 => (\A u \in CandidateTags : TagOK(u)) /\ (\A u \in CandidateTags : TagOK(u)')
    BY <1>2, <1>3, <1>4, AllTagsKept DEF PipelineInv, Exact
<1>6. CASE Consistent(p) /\ verified
    <2>1. candidate' = [pc |-> "image", push |-> p, exists |-> exists]
        BY <1>1, <1>6
    <2>2. /\ candidate'.pc = "image" /\ candidate'.push = p /\ candidate'.exists = exists
          /\ candidate' \in CandidateRuns
        BY <2>1, <1>3 DEF CandidateRuns
    <2>3. exists => releases[t] # None
        BY <1>1 DEF Readings
    <2>4. exists => gitTags[t] = p.commit
        BY <1>6
    <2>5. misses' = 0 /\ ~exists => releases[t] = None /\ gitTags[t] \in {None, p.commit}
        BY <1>4, <1>6
    <2> HIDE DEF exists
    <2>6. TypesOK'
        BY <1>2, <1>3, <1>4, <2>2, <2>3 DEF TypesOK
    <2>7. misses' = 0 => ProgressOK(candidate)'
        BY <1>2, <1>6, <2>2, <2>4, <2>5 DEF ProgressOK, Consistent
    <2> QED BY <1>5, <2>6, <2>7 DEF PipelineInv, Exact
<1>7. CASE ~(Consistent(p) /\ verified)
    <2>1. candidate' = [pc |-> "refused", push |-> p]
        BY <1>1, <1>7
    <2>2. /\ candidate'.pc = "refused" /\ candidate'.push = p
          /\ candidate' \in CandidateRuns
        BY <2>1, <1>3 DEF CandidateRuns
    <2>3. TypesOK'
        BY <1>2, <1>3, <1>4, <2>2 DEF TypesOK
    <2>4. ASSUME misses' = 0 PROVE ~Consistent(p) \/ gitTags[t] \notin {None, p.commit}
        <3>1. release = releases[t] /\ tag = gitTags[t] /\ TagOK(t)
            BY <1>3, <1>4, <1>5, <2>4
        <3>2. CASE exists
            <4>1. release.prerelease
                BY <3>1, <3>2, <1>3 DEF TypesOK, Prereleases
            <4> QED BY <1>7, <3>1, <3>2, <4>1 DEF TagOK
        <3>3. CASE ~exists
            BY <1>7, <3>1, <3>3
        <3> QED BY <3>2, <3>3
    <2> HIDE DEF p
    <2>5. ASSUME misses' = 0 PROVE ProgressOK(candidate)'
        BY <1>2, <2>2, <2>4, <2>5 DEF ProgressOK, Consistent, p
    <2> QED BY <1>5, <2>3, <2>5 DEF PipelineInv, Exact
<1> QED BY <1>6, <1>7

LEMMA ResolveImageInv ==
    ASSUME PipelineInv, ResolveImage
    PROVE  PipelineInv'
<1> DEFINE p == candidate.push
           t == candidate.push.tag
<1>1. PICK seen \in Readings(registry[t]) :
        /\ Read(<<registry[t]>>, <<seen>>)
        /\ \/ /\ seen # None
              /\ UNCHANGED <<images, registry>>
           \/ /\ seen = None
              /\ images' = Append(images, Built(p))
              /\ registry' = [registry EXCEPT ![t] = Len(images')]
    BY DEF ResolveImage, Built
<1>2. /\ UNCHANGED <<gitTags, releases, promotion, asked>>
      /\ candidate.pc = "image" /\ candidate' = [candidate EXCEPT !.pc = "qualify"]
    BY DEF ResolveImage
<1>3. TypesOK /\ p \in Pushes /\ p \in asked /\ t \in CandidateTags /\ t \in Tags
    BY <1>2, CandidateShapes, TagsAreTags DEF PipelineInv, TypesOK
<1>4. misses' \in Nat /\ (misses' = 0 => misses = 0 /\ seen = registry[t])
    BY <1>1, <1>3, ReadOne DEF TypesOK
<1>5. candidate \in [pc: {"image", "qualify"}, push: Pushes, exists: BOOLEAN]
    BY <1>2, <1>3, CandidateShapes DEF TypesOK
<1>6. /\ candidate'.pc = "qualify" /\ candidate'.push = p /\ candidate'.exists = candidate.exists
      /\ candidate' \in [pc: {"image", "qualify"}, push: Pushes, exists: BOOLEAN]
    BY <1>2, <1>5
<1>7. candidate' \in CandidateRuns
    BY <1>6 DEF CandidateRuns
<1>8. ASSUME misses' = 0 PROVE ProgressOK(candidate)'
    <2>1. ProgressOK(candidate)
        BY <1>4, <1>8 DEF PipelineInv, Exact
    <2> QED BY <1>2, <1>6, <2>1 DEF ProgressOK, Consistent
<1>9. CASE seen # None
    <2>1. UNCHANGED <<images, registry>> /\ registry[t] # None
        BY <1>1, <1>9 DEF Readings
    <2>2. TypesOK'
        BY <1>2, <1>3, <1>4, <1>6, <1>7, <2>1 DEF TypesOK
    <2>3. misses' = 0 => \A u \in CandidateTags : TagOK(u)'
        BY <1>2, <1>3, <1>4, <2>1, AllTagsKept DEF PipelineInv, Exact
    <2> QED BY <1>8, <2>2, <2>3 DEF PipelineInv, Exact
<1>10. CASE seen = None
    <2>1. /\ images' = Append(images, Built(p))
          /\ registry' = [registry EXCEPT ![t] = Len(images')]
        BY <1>1, <1>10
    <2>2. images \in Seq(Images) /\ Built(p) \in Images
        BY <1>3 DEF TypesOK, Images
    <2>3. images' \in Seq(Images) /\ Len(images') = Len(images) + 1 /\ images'[Len(images')] = Built(p)
        BY <2>1, <2>2
    <2>4. /\ registry' \in [Tags -> 1..Len(images') \union {None}]
          /\ registry'[t] = Len(images') /\ registry'[t] # None
          /\ \A u \in CandidateTags \ {t} : registry'[u] = registry[u]
        <3>1. registry \in [Tags -> 1..Len(images) \union {None}] /\ Len(images) \in Nat
            BY <1>3, <2>2 DEF TypesOK
        <3>2. Len(images') \in 1..Len(images') /\ 1..Len(images) \subseteq 1..Len(images')
            BY <2>3, <3>1
        <3>3. Len(images') # None
            BY <2>3, <3>1, NothingIsNone
        <3> HIDE DEF t
        <3> QED BY <1>3, <2>1, <3>1, <3>2, <3>3, TagsAreTags
    <2>5. TypesOK'
        BY <1>2, <1>3, <1>4, <1>6, <1>7, <2>3, <2>4 DEF TypesOK
    <2>6. ASSUME misses' = 0, NEW u \in CandidateTags PROVE TagOK(u)'
        <3>1. TagOK(u) /\ registry[t] = None
            BY <1>4, <1>10, <2>6 DEF PipelineInv, Exact
        <3>2. CASE u = t
            BY <1>2, <1>3, <2>3, <2>4, <3>1, <3>2 DEF TagOK, WorkOf
        <3>3. CASE u # t
            BY <1>2, <1>3, <2>1, <2>4, <3>1, <3>3, TagKept
        <3> QED BY <3>2, <3>3
    <2> QED BY <1>8, <2>5, <2>6 DEF PipelineInv, Exact
<1> QED BY <1>9, <1>10

LEMMA QualifyInv ==
    ASSUME PipelineInv, Qualify
    PROVE  PipelineInv'
<1> DEFINE p == candidate.push
           t == candidate.push.tag
           q == Qualification(p)
           good == Validated(q, t, VersionOf[p.commit], p.commit) /\ ImageValidated(q, p.commit)
<1>1. /\ UNCHANGED <<images, registry, gitTags, releases, promotion, asked, misses>>
      /\ candidate.pc = "qualify"
      /\ candidate' = IF good
                      THEN [pc |-> "release", push |-> p, exists |-> candidate.exists,
                            qualification |-> q]
                      ELSE [pc |-> "refused", push |-> p]
    BY DEF Qualify, world, counts
<1>2. TypesOK /\ p \in Pushes /\ p \in asked /\ t \in CandidateTags /\ t \in Tags
    BY <1>1, CandidateShapes, TagsAreTags DEF PipelineInv, TypesOK
<1>3. candidate.exists \in BOOLEAN
    BY <1>1, <1>2, CandidateShapes DEF TypesOK
<1>4. registry[t] # None /\ registry[t] \in Nat
    <2>1. registry[t] # None /\ registry[t] \in 1..Len(images) \union {None}
        BY <1>1, <1>2 DEF TypesOK
    <2> QED BY <2>1
<1>5. /\ q.tag = t /\ q.version = VersionOf[p.commit] /\ q.commit = p.commit
      /\ q.authority = p.authority /\ q.digest = registry[t] /\ q \in Qualifications
    <2>1. VersionOf[p.commit] \in Versions /\ p.commit \in DOMAIN VersionOf
        BY <1>2, PipelineAssumption
    <2>2. q = [tag |-> t, version |-> VersionOf[p.commit], commit |-> p.commit,
               authority |-> p.authority, publisher |-> p.revision, digest |-> registry[t]]
        BY DEF Qualification
    <2> QED BY <1>2, <1>4, <2>1, <2>2 DEF Qualifications
<1>6. ASSUME misses' = 0
      PROVE  /\ misses = 0 /\ \A u \in CandidateTags : TagOK(u) /\ TagOK(u)'
             /\ Consistent(p)
             /\ candidate.exists => gitTags[t] = p.commit
             /\ ~candidate.exists => releases[t] = None /\ gitTags[t] \in {None, p.commit}
    <2>1. Exact
        BY <1>1, <1>6 DEF PipelineInv
    <2>2. \A u \in CandidateTags : TagOK(u)'
        BY <1>1, <1>2, <2>1, AllTagsKept DEF Exact
    <2> QED BY <1>1, <1>6, <2>1, <2>2 DEF Exact, ProgressOK
<1>7. CASE good
    <2>1. candidate' = [pc |-> "release", push |-> p, exists |-> candidate.exists,
                        qualification |-> q]
        BY <1>1, <1>7
    <2> HIDE DEF q
    <2>2. /\ candidate'.pc = "release" /\ candidate'.push = p
          /\ candidate'.exists = candidate.exists /\ candidate'.qualification = q
          /\ candidate' \in CandidateRuns
        BY <2>1, <1>2, <1>3, <1>5 DEF CandidateRuns
    <2>3. TypesOK'
        BY <1>1, <1>2, <2>2 DEF TypesOK
    <2>4. images[registry[t]] = Built(p)
        BY <1>5, <1>7 DEF ImageValidated, Built
    <2>5. q = Qualification(p)'
        BY <1>1 DEF q, Qualification
    <2>6. misses' = 0 => ProgressOK(candidate)'
        BY <1>1, <1>6, <2>2, <2>4, <2>5 DEF ProgressOK, Consistent
    <2> QED BY <1>6, <2>3, <2>6 DEF PipelineInv, Exact
<1>8. CASE ~good
    <2>1. candidate' = [pc |-> "refused", push |-> p]
        BY <1>1, <1>8
    <2>2. candidate'.pc = "refused" /\ candidate'.push = p /\ candidate' \in CandidateRuns
        BY <2>1, <1>2 DEF CandidateRuns
    <2>3. TypesOK'
        BY <1>1, <1>2, <2>2 DEF TypesOK
    <2>4. ASSUME misses' = 0 PROVE \E other \in asked \ {p} : other.tag = t
        <3>1. PICK other \in asked : other.tag = t /\ images[registry[t]] = Built(other)
            BY <1>2, <1>4, <1>6, <2>4 DEF TagOK
        <3>2. Validated(q, t, VersionOf[p.commit], p.commit)
            BY <1>5, <1>6, <2>4 DEF Validated, Consistent
        <3>3. images[registry[t]] # Built(p)
            BY <1>5, <1>8, <3>2 DEF ImageValidated, Built
        <3> QED BY <3>1, <3>3
    <2> HIDE DEF q
    <2>5. misses' = 0 => ProgressOK(candidate)'
        BY <1>1, <2>2, <2>4 DEF ProgressOK
    <2> QED BY <1>6, <2>3, <2>5 DEF PipelineInv, Exact
<1> QED BY <1>7, <1>8

LEMMA CreateCandidateReleaseInv ==
    ASSUME PipelineInv, CreateCandidateRelease
    PROVE  PipelineInv'
<1> DEFINE p == candidate.push
           t == candidate.push.tag
           new == [prerelease |-> TRUE, qualification |-> None]
           uploading == [candidate EXCEPT !.pc = "upload"]
<1>1. /\ UNCHANGED <<images, registry, promotion, asked, misses>>
      /\ candidate.pc = "release"
    BY DEF CreateCandidateRelease, counts
<1>2. \/ /\ candidate.exists /\ candidate' = uploading /\ UNCHANGED <<gitTags, releases>>
      \/ /\ ~candidate.exists /\ CreateRelease(t, new, p.commit) /\ candidate' = uploading
      \/ /\ ~candidate.exists /\ releases[t] # None
         /\ candidate' = [pc |-> "refused", push |-> p]
         /\ UNCHANGED <<gitTags, releases>>
    BY DEF CreateCandidateRelease
<1>3. TypesOK /\ p \in Pushes /\ p \in asked /\ t \in CandidateTags /\ t \in Tags
    BY <1>1, CandidateShapes, TagsAreTags DEF PipelineInv, TypesOK
<1>4. /\ uploading \in CandidateRuns /\ uploading.pc = "upload" /\ uploading.push = p
      /\ uploading.qualification = candidate.qualification
    <2>1. candidate \in [pc: {"release", "upload"}, push: Pushes, exists: BOOLEAN,
                         qualification: Qualifications]
        BY <1>1, <1>3, CandidateShapes DEF TypesOK
    <2> QED BY <2>1 DEF CandidateRuns
<1> HIDE DEF uploading
<1>5. ASSUME misses' = 0
      PROVE  /\ misses = 0 /\ Consistent(p)
             /\ \A u \in CandidateTags : TagOK(u)
             /\ candidate.exists => gitTags[t] = p.commit
             /\ ~candidate.exists => releases[t] = None /\ gitTags[t] \in {None, p.commit}
             /\ candidate.qualification = Qualification(p)
             /\ images[registry[t]] = Built(p)
    BY <1>1, <1>5 DEF PipelineInv, Exact, ProgressOK
<1>6. CASE candidate.exists /\ candidate' = uploading /\ UNCHANGED <<gitTags, releases>>
    <2>1. TypesOK'
        BY <1>1, <1>3, <1>4, <1>6 DEF TypesOK
    <2>2. misses' = 0 => ProgressOK(candidate)'
        BY <1>1, <1>4, <1>5, <1>6 DEF ProgressOK, Consistent, Qualification
    <2>3. misses' = 0 => \A u \in CandidateTags : TagOK(u)'
        BY <1>1, <1>3, <1>5, <1>6, AllTagsKept
    <2> QED BY <2>1, <2>2, <2>3 DEF PipelineInv, Exact
<1>7. CASE ~candidate.exists /\ CreateRelease(t, new, p.commit) /\ candidate' = uploading
    <2>1. /\ releases' = [releases EXCEPT ![t] = new]
          /\ gitTags' = [gitTags EXCEPT ![t] = IF @ = None THEN p.commit ELSE @]
        BY <1>7 DEF CreateRelease
    <2>2. new \in Prereleases /\ new.qualification = None /\ new # None
        <3>1. new \in Prereleases /\ new.qualification = None
            BY DEF Prereleases
        <3> QED BY <3>1, NothingIsNone
    <2>3. p.commit \in Commits /\ p.commit # None
        BY <1>3, TagsAreTags
    <2> HIDE DEF new
    <2>4. /\ gitTags' \in [Tags -> Commits \union {None}]
          /\ gitTags'[t] # None /\ (gitTags[t] \in {None, p.commit} => gitTags'[t] = p.commit)
          /\ \A u \in CandidateTags \ {t} : gitTags'[u] = gitTags[u]
        BY <1>3, <2>1, <2>3, TagsAreTags DEF TypesOK
    <2>5. /\ releases' \in [Tags -> Prereleases \union StableReleases \union {None}]
          /\ releases'[t] = new
          /\ \A u \in CandidateTags \ {t} : releases'[u] = releases[u]
          /\ \A v \in Versions : releases'[v] = releases[v]
        BY <1>3, <2>1, <2>2, TagsAreTags, PipelineAssumption DEF TypesOK
    <2>6. TypesOK'
        <3>1. promotion.pc \in {"validate", "requalify", "attach", "publish"} =>
                promotion.tag \in CandidateTags /\ releases'[promotion.tag] # None
            BY <1>3, <2>2, <2>5, PromotionShapes DEF TypesOK
        <3> QED BY <1>1, <1>3, <1>4, <1>7, <2>2, <2>4, <2>5, <3>1 DEF TypesOK
    <2>7. misses' = 0 => ProgressOK(candidate)'
        BY <1>1, <1>4, <1>5, <1>7, <2>4 DEF ProgressOK, Consistent, Qualification
    <2>8. ASSUME misses' = 0, NEW u \in CandidateTags PROVE TagOK(u)'
        <3>1. CASE u = t
            BY <1>1, <1>5, <2>2, <2>4, <2>5, <2>8, <3>1 DEF TagOK
        <3>2. CASE u # t
            BY <1>1, <1>3, <1>5, <2>4, <2>5, <2>8, <3>2, TagKept
        <3> QED BY <3>1, <3>2
    <2> QED BY <2>6, <2>7, <2>8 DEF PipelineInv, Exact
<1>8. CASE /\ ~candidate.exists /\ releases[t] # None
           /\ candidate' = [pc |-> "refused", push |-> p]
           /\ UNCHANGED <<gitTags, releases>>
    <2>1. candidate'.pc = "refused" /\ candidate'.push = p /\ candidate' \in CandidateRuns
        BY <1>3, <1>8 DEF CandidateRuns
    <2>2. TypesOK'
        BY <1>1, <1>3, <1>8, <2>1 DEF TypesOK
    <2>3. misses' # 0
        BY <1>5, <1>8
    <2> QED BY <2>2, <2>3 DEF PipelineInv
<1> QED BY <1>2, <1>6, <1>7, <1>8

LEMMA UploadQualificationInv ==
    ASSUME PipelineInv, UploadQualification
    PROVE  PipelineInv'
<1> DEFINE p == candidate.push
           t == candidate.push.tag
           attached == releases[t].qualification
           q == candidate.qualification
<1>1. PICK seen \in Readings(attached) :
        /\ Read(<<attached>>, <<seen>>)
        /\ releases' = IF attached = None
                       THEN [releases EXCEPT ![t].qualification = q] ELSE releases
        /\ candidate' = IF attached = None \/ seen = q
                        THEN [pc |-> "ended"] ELSE [pc |-> "refused", push |-> p]
    BY DEF UploadQualification
<1>2. UNCHANGED <<images, registry, gitTags, promotion, asked>> /\ candidate.pc = "upload"
    BY DEF UploadQualification
<1>3. TypesOK /\ p \in Pushes /\ p \in asked /\ t \in CandidateTags /\ t \in Tags
    BY <1>2, CandidateShapes, TagsAreTags DEF PipelineInv, TypesOK
<1>4. misses' \in Nat /\ (misses' = 0 => misses = 0 /\ seen = attached)
    <2>1. misses \in Nat /\ Read(<<attached>>, <<seen>>)
        BY <1>1, <1>3 DEF TypesOK
    <2> HIDE DEF attached
    <2> QED BY <2>1, ReadOne
<1>5. releases[t] \in Prereleases /\ registry[t] # None /\ releases[t] # None
    BY <1>2, <1>3 DEF TypesOK
<1>6. q \in Qualifications
    <2>1. candidate \in [pc: {"release", "upload"}, push: Pushes, exists: BOOLEAN,
                         qualification: Qualifications]
        BY <1>2, <1>3, CandidateShapes DEF TypesOK
    <2> QED BY <2>1
<1>7. ASSUME misses' = 0
      PROVE  /\ misses = 0 /\ \A u \in CandidateTags : TagOK(u)
             /\ WorkOf(p, t, q)
    BY <1>2, <1>4, <1>5, <1>7 DEF PipelineInv, Exact, ProgressOK, WorkOf
<1>9. CASE attached = None
    <2> DEFINE more == [releases[t] EXCEPT !.qualification = q]
    <2>1. more \in Prereleases /\ more.qualification = q
        BY <1>5, <1>6 DEF Prereleases
    <2>2. releases' = [releases EXCEPT ![t] = more] /\ candidate' = [pc |-> "ended"]
        BY <1>1, <1>9
    <2>3. candidate'.pc = "ended" /\ candidate' \in CandidateRuns
        BY <2>2 DEF CandidateRuns
    <2> HIDE DEF more, q
    <2>4. /\ releases' \in [Tags -> Prereleases \union StableReleases \union {None}]
          /\ releases'[t] = more
          /\ \A u \in CandidateTags \ {t} : releases'[u] = releases[u]
          /\ \A v \in Versions : releases'[v] = releases[v]
        BY <1>3, <2>1, <2>2, TagsAreTags, PipelineAssumption DEF TypesOK
    <2>5. TypesOK'
        <3>1. promotion.pc \in {"validate", "requalify", "attach", "publish"} =>
                promotion.tag \in CandidateTags /\ releases'[promotion.tag] # None
            BY <1>3, <2>1, <2>4, PromotionShapes, NothingIsNone DEF TypesOK
        <3> QED BY <1>2, <1>3, <1>4, <2>1, <2>3, <2>4, <3>1 DEF TypesOK
    <2>6. ASSUME misses' = 0, NEW u \in CandidateTags PROVE TagOK(u)'
        <3>1. CASE u = t
            <4>1. PICK pushed, work : pushed \in asked /\ pushed = p /\ work = q
                BY <1>3
            <4>2. TagOK(u) /\ WorkOf(pushed, u, work)
                BY <1>7, <2>6, <3>1, <4>1
            <4>3. WorkOf(pushed, u, work)'
                BY <1>2, <4>2 DEF WorkOf, Qualification, Consistent
            <4>4. releases'[u].qualification = work
                BY <2>1, <2>4, <3>1, <4>1
            <4>5. gitTags'[u] # None
                BY <1>2, <1>3, <4>1, <4>2, TagsAreTags DEF WorkOf
            <4> QED BY <1>2, <4>1, <4>2, <4>3, <4>4, <4>5 DEF TagOK
        <3>2. CASE u # t
            BY <1>2, <1>3, <1>7, <2>4, <2>6, <3>2, TagKept
        <3> QED BY <3>1, <3>2
    <2>7. ProgressOK(candidate)'
        BY <2>3 DEF ProgressOK
    <2> QED BY <2>5, <2>6, <2>7 DEF PipelineInv, Exact
<1>10. CASE attached # None
    <2>1. UNCHANGED releases
        BY <1>1, <1>10
    <2>2. misses' = 0 => \A u \in CandidateTags : TagOK(u)'
        BY <1>2, <1>3, <1>7, <2>1, AllTagsKept
    <2>3. CASE seen = q
        <3>1. candidate'.pc = "ended" /\ candidate' \in CandidateRuns
            BY <1>1, <2>3 DEF CandidateRuns
        <3>2. TypesOK'
            BY <1>2, <1>3, <1>4, <2>1, <3>1 DEF TypesOK
        <3>3. ProgressOK(candidate)'
            BY <3>1 DEF ProgressOK
        <3> QED BY <2>2, <3>2, <3>3 DEF PipelineInv, Exact
    <2>4. CASE seen # q
        <3>1. candidate' = [pc |-> "refused", push |-> p]
            BY <1>1, <1>10, <2>4
        <3>2. candidate'.pc = "refused" /\ candidate'.push = p /\ candidate' \in CandidateRuns
            BY <1>3, <3>1 DEF CandidateRuns
        <3>3. TypesOK'
            BY <1>2, <1>3, <1>4, <2>1, <3>2 DEF TypesOK
        <3>4. ASSUME misses' = 0 PROVE \E other \in asked \ {p} : other.tag = t
            <4>1. TagOK(t)
                BY <1>3, <1>7, <3>4
            <4>2. PICK other \in asked : WorkOf(other, t, attached)
                BY <1>5, <1>10, <4>1 DEF TagOK
            <4>3. attached # q
                BY <1>4, <2>4, <3>4
            <4>4. other # p
                BY <1>7, <3>4, <4>2, <4>3 DEF WorkOf
            <4> QED BY <4>2, <4>4 DEF WorkOf
        <3>5. misses' = 0 => ProgressOK(candidate)'
            BY <1>2, <3>2, <3>4 DEF ProgressOK
        <3> QED BY <2>2, <3>3, <3>5 DEF PipelineInv, Exact
    <2> QED BY <2>3, <2>4
<1> QED BY <1>9, <1>10

LEMMA CrashCandidateInv ==
    ASSUME PipelineInv, CrashCandidate
    PROVE  PipelineInv'
<1>1. /\ UNCHANGED <<images, registry, gitTags, releases, promotion, asked, misses>>
      /\ candidate' = [pc |-> "ended"]
    BY DEF CrashCandidate, world, counts
<1>2. candidate'.pc = "ended" /\ candidate' \in CandidateRuns
    BY <1>1 DEF CandidateRuns
<1>3. TypesOK'
    BY <1>1, <1>2 DEF PipelineInv, TypesOK
<1>4. ProgressOK(candidate)'
    BY <1>2 DEF ProgressOK
<1>5. misses' = 0 => Exact'
    BY <1>1, <1>4, AllTagsKept DEF PipelineInv, Exact
<1> QED BY <1>3, <1>5 DEF PipelineInv

-----------------------------------------------------------------------------
(* A step of the promotion that changes nothing but its own run.           *)
LEMMA PromotionMoves ==
    ASSUME PipelineInv,
           UNCHANGED <<images, registry, gitTags, releases, candidate, asked>>,
           promotion' \in PromotionRuns,
           promotion'.pc \in {"attach", "publish"} =>
               promotion'.qualification.digest \in 1..Len(images),
           promotion'.pc \in {"validate", "requalify", "attach", "publish"} =>
               releases[promotion'.tag] # None,
           misses' \in Nat, misses' = 0 => misses = 0
    PROVE  PipelineInv'
<1>1. TypesOK'
    BY DEF PipelineInv, TypesOK
<1> QED BY <1>1, PromotionKeeps DEF PipelineInv

LEMMA DispatchInv ==
    ASSUME PipelineInv, NEW tag \in CandidateTags, NEW final \in Versions, Dispatch(tag, final)
    PROVE  PipelineInv'
<1>1. /\ promotion' = [pc |-> "resolve", tag |-> tag, final |-> final]
      /\ UNCHANGED <<images, registry, gitTags, releases, candidate, asked, misses>>
    BY DEF Dispatch, world
<1>2. promotion' \in PromotionRuns /\ promotion'.pc = "resolve"
    BY <1>1 DEF PromotionRuns
<1> QED BY <1>1, <1>2, PromotionMoves DEF PipelineInv, TypesOK

LEMMA ResolveCandidateInv ==
    ASSUME PipelineInv, ResolveCandidate
    PROVE  PipelineInv'
<1>1. /\ UNCHANGED <<images, registry, gitTags, releases, candidate, asked, misses>>
      /\ promotion.pc = "resolve"
      /\ \/ /\ releases[promotion.tag] # None
            /\ promotion' = [pc |-> "validate", tag |-> promotion.tag,
                             final |-> promotion.final, commit |-> gitTags[promotion.tag]]
         \/ promotion' = [pc |-> "refused"]
    BY DEF ResolveCandidate, Refuse, world, counts
<1>2. TypesOK /\ promotion.tag \in CandidateTags /\ promotion.final \in Versions
    BY <1>1, PromotionShapes DEF PipelineInv, TypesOK
<1>3. gitTags[promotion.tag] \in Commits \union {None}
    BY <1>2, TagsAreTags DEF TypesOK
<1>4. /\ promotion' \in PromotionRuns /\ promotion'.pc \in {"validate", "refused"}
      /\ promotion'.pc = "validate" => releases[promotion'.tag] # None
    BY <1>1, <1>2, <1>3 DEF PromotionRuns
<1> QED BY <1>1, <1>2, <1>4, PromotionMoves DEF TypesOK

LEMMA ValidateQualificationInv ==
    ASSUME PipelineInv, ValidateQualification
    PROVE  PipelineInv'
<1> DEFINE q == releases[promotion.tag].qualification
<1>1. PICK stable \in Readings(gitTags[promotion.final]) :
        /\ Read(<<gitTags[promotion.final]>>, <<stable>>)
        /\ \/ /\ q # None
              /\ promotion' = [pc |-> "requalify", tag |-> promotion.tag,
                               final |-> promotion.final, commit |-> promotion.commit,
                               qualification |-> q]
           \/ promotion' = [pc |-> "refused"]
    BY DEF ValidateQualification, Refuse
<1>2. /\ UNCHANGED <<images, registry, gitTags, releases, candidate, asked>>
      /\ promotion.pc = "validate"
    BY DEF ValidateQualification, world
<1>3. /\ TypesOK /\ promotion.tag \in CandidateTags /\ promotion.final \in Versions
      /\ promotion.commit \in Commits \union {None}
    BY <1>2, PromotionShapes DEF PipelineInv, TypesOK
<1>4. misses' \in Nat /\ (misses' = 0 => misses = 0)
    <2>1. misses \in Nat /\ Read(<<gitTags[promotion.final]>>, <<stable>>)
        BY <1>1, <1>3 DEF TypesOK
    <2> QED BY <2>1, ReadOne
<1>5. q # None => q \in Qualifications
    <2>1. releases[promotion.tag] \in Prereleases /\ releases[promotion.tag] # None
        BY <1>2, <1>3 DEF TypesOK
    <2> QED BY <2>1 DEF Prereleases
<1>6. /\ promotion' \in PromotionRuns /\ promotion'.pc \in {"requalify", "refused"}
      /\ promotion'.pc = "requalify" => releases[promotion'.tag] # None
    <2>1. releases[promotion.tag] # None
        BY <1>2, <1>3 DEF TypesOK
    <2> HIDE DEF q
    <2> QED BY <1>1, <1>3, <1>5, <2>1 DEF PromotionRuns
<1> QED BY <1>2, <1>4, <1>6, PromotionMoves

LEMMA RequalifyInv ==
    ASSUME PipelineInv, Requalify
    PROVE  PipelineInv'
<1>1. /\ UNCHANGED <<images, registry, gitTags, releases, candidate, asked, misses>>
      /\ promotion.pc = "requalify"
      /\ \/ /\ registry[promotion.tag] = promotion.qualification.digest
            /\ promotion' = [promotion EXCEPT !.pc = "attach"]
         \/ promotion' = [pc |-> "refused"]
    BY DEF Requalify, Requalifies, Refuse, world, counts
<1>2. /\ TypesOK /\ promotion.tag \in CandidateTags /\ releases[promotion.tag] # None
      /\ promotion \in [pc: {"requalify", "attach", "publish"}, tag: CandidateTags,
                        final: Versions, commit: Commits \union {None},
                        qualification: Qualifications]
    BY <1>1, PromotionShapes DEF PipelineInv, TypesOK
<1>3. CASE promotion' = [promotion EXCEPT !.pc = "attach"] /\
           registry[promotion.tag] = promotion.qualification.digest
    <2>1. promotion' \in PromotionRuns /\ promotion'.tag = promotion.tag
          /\ promotion'.qualification = promotion.qualification
        BY <1>2, <1>3 DEF PromotionRuns
    <2>2. promotion.qualification.digest \in Nat
        BY <1>2 DEF Qualifications
    <2>3. registry[promotion.tag] \in 1..Len(images) \union {None}
        BY <1>2, TagsAreTags DEF TypesOK
    <2>4. promotion.qualification.digest \in 1..Len(images)
        BY <1>3, <2>2, <2>3, NothingIsNone
    <2> QED BY <1>1, <1>2, <2>1, <2>4, PromotionMoves DEF TypesOK
<1>4. CASE promotion' = [pc |-> "refused"]
    <2>1. promotion' \in PromotionRuns /\ promotion'.pc = "refused"
        BY <1>4 DEF PromotionRuns
    <2> QED BY <1>1, <1>2, <2>1, PromotionMoves DEF TypesOK
<1> QED BY <1>1, <1>3, <1>4

LEMMA AttachStableInv ==
    ASSUME PipelineInv, AttachStable
    PROVE  PipelineInv'
<1> DEFINE final == promotion.final
           digest == promotion.qualification.digest
<1>1. PICK seen \in Readings(registry[final]) :
        /\ Read(<<registry[final]>>, <<seen>>)
        /\ \/ /\ registry' = [registry EXCEPT ![final] = digest]
              /\ promotion' = [promotion EXCEPT !.pc = "publish"]
           \/ /\ promotion' = [pc |-> "refused"]
              /\ UNCHANGED registry
    BY DEF AttachStable, Refuse
<1>2. UNCHANGED <<images, gitTags, releases, candidate, asked>> /\ promotion.pc = "attach"
    BY DEF AttachStable
<1>3. /\ TypesOK /\ releases[promotion.tag] # None /\ digest \in 1..Len(images)
      /\ promotion \in [pc: {"requalify", "attach", "publish"}, tag: CandidateTags,
                        final: Versions, commit: Commits \union {None},
                        qualification: Qualifications]
    BY <1>2, PromotionShapes DEF PipelineInv, TypesOK
<1>4. misses' \in Nat /\ (misses' = 0 => misses = 0)
    <2>1. misses \in Nat /\ Read(<<registry[final]>>, <<seen>>)
        BY <1>1, <1>3 DEF TypesOK
    <2> QED BY <2>1, ReadOne
<1>5. CASE /\ registry' = [registry EXCEPT ![final] = digest]
           /\ promotion' = [promotion EXCEPT !.pc = "publish"]
    <2>1. /\ promotion' \in PromotionRuns /\ promotion'.tag = promotion.tag
          /\ promotion'.qualification = promotion.qualification
        BY <1>3, <1>5 DEF PromotionRuns
    <2>2. /\ registry' \in [Tags -> 1..Len(images) \union {None}]
          /\ \A t \in CandidateTags : registry'[t] = registry[t]
        <3>1. final \in Versions /\ registry \in [Tags -> 1..Len(images) \union {None}]
            BY <1>3 DEF TypesOK
        <3> HIDE DEF final, digest
        <3> QED BY <1>3, <1>5, <3>1, TagsAreTags, PipelineAssumption
    <2>3. candidate.pc # "ended" => candidate.push.tag \in CandidateTags
        BY <1>3, CandidateShapes, TagsAreTags DEF TypesOK
    <2>4. TypesOK'
        BY <1>2, <1>3, <1>4, <2>1, <2>2, <2>3 DEF TypesOK
    <2> QED BY <1>2, <1>4, <2>2, <2>4, PromotionKeeps DEF PipelineInv
<1>6. CASE promotion' = [pc |-> "refused"] /\ UNCHANGED registry
    <2>1. promotion' \in PromotionRuns /\ promotion'.pc = "refused"
        BY <1>6 DEF PromotionRuns
    <2> QED BY <1>2, <1>4, <1>6, <2>1, PromotionMoves
<1> QED BY <1>1, <1>5, <1>6

LEMMA PublishStableInv ==
    ASSUME PipelineInv, PublishStable
    PROVE  PipelineInv'
<1> DEFINE final == promotion.final
           stable == [prerelease |-> FALSE, qualification |-> promotion.qualification,
                      promotedFrom |-> promotion.tag, commit |-> promotion.commit]
<1>1. /\ UNCHANGED <<images, registry, candidate, asked, misses>>
      /\ promotion.pc = "publish"
      /\ \/ /\ CreateRelease(final, stable, promotion.commit)
            /\ promotion' = [pc |-> "ended"]
         \/ /\ promotion' = [pc |-> "refused"]
            /\ UNCHANGED <<releases, gitTags>>
    BY DEF PublishStable, Refuse, counts
<1>2. /\ TypesOK
      /\ promotion \in [pc: {"requalify", "attach", "publish"}, tag: CandidateTags,
                        final: Versions, commit: Commits \union {None},
                        qualification: Qualifications]
    BY <1>1, PromotionShapes DEF PipelineInv, TypesOK
<1>3. final \in Versions /\ final \in Tags /\ final \notin CandidateTags
      /\ promotion.commit \in Commits \union {None} /\ stable \in StableReleases
    BY <1>2, TagsAreTags, PipelineAssumption DEF StableReleases
<1>4. promotion'.pc \in {"ended", "refused"} /\ promotion' \in PromotionRuns
    BY <1>1 DEF PromotionRuns
<1>5. CASE CreateRelease(final, stable, promotion.commit)
    <2> HIDE DEF final, stable
    <2>1. /\ releases' = [releases EXCEPT ![final] = stable]
          /\ gitTags' = [gitTags EXCEPT ![final] =
                           IF gitTags[final] = None THEN promotion.commit ELSE gitTags[final]]
        BY <1>2, <1>3, <1>5 DEF CreateRelease, TypesOK
    <2>2. /\ gitTags' \in [Tags -> Commits \union {None}]
          /\ releases' \in [Tags -> Prereleases \union StableReleases \union {None}]
        BY <1>2, <1>3, <2>1 DEF TypesOK
    <2>3. \A t \in CandidateTags : releases'[t] = releases[t] /\ gitTags'[t] = gitTags[t]
        BY <1>2, <1>3, <2>1, TagsAreTags DEF TypesOK
    <2>4. \A v \in Versions : releases'[v] \in StableReleases \union {None}
        BY <1>2, <1>3, <2>1, TagsAreTags DEF TypesOK
    <2>5. candidate.pc # "ended" => candidate.push.tag \in CandidateTags
        BY <1>2, CandidateShapes, TagsAreTags DEF TypesOK
    <2>6. TypesOK'
        BY <1>1, <1>2, <1>4, <2>2, <2>3, <2>4, <2>5 DEF TypesOK
    <2> QED BY <1>1, <2>3, <2>6, PromotionKeeps DEF PipelineInv
<1>6. CASE UNCHANGED <<releases, gitTags>>
    BY <1>1, <1>2, <1>4, <1>6, PromotionMoves DEF TypesOK
<1> QED BY <1>1, <1>5, <1>6

LEMMA CrashPromotionInv ==
    ASSUME PipelineInv, CrashPromotion
    PROVE  PipelineInv'
<1>1. /\ UNCHANGED <<images, registry, gitTags, releases, candidate, asked, misses>>
      /\ promotion' = [pc |-> "ended"]
    BY DEF CrashPromotion, world, counts
<1>2. promotion' \in PromotionRuns /\ promotion'.pc = "ended"
    BY <1>1 DEF PromotionRuns
<1> QED BY <1>1, <1>2, PromotionMoves DEF PipelineInv, TypesOK

-----------------------------------------------------------------------------
LEMMA StepInv ==
    ASSUME PipelineInv, [Next]_vars
    PROVE  PipelineInv'
<1>1. CASE CandidateStep
    BY <1>1, StartCandidateInv, VerifyCandidateInv, ResolveImageInv, QualifyInv,
       CreateCandidateReleaseInv, UploadQualificationInv, CrashCandidateInv DEF CandidateStep
<1>2. CASE PromotionStep
    BY <1>2, DispatchInv, ResolveCandidateInv, ValidateQualificationInv, RequalifyInv,
       AttachStableInv, PublishStableInv, CrashPromotionInv DEF PromotionStep
<1>3. CASE UNCHANGED vars
    <2>1. UNCHANGED <<images, registry, gitTags, releases, candidate, asked, promotion, misses>>
        BY <1>3 DEF vars, world, counts
    <2> QED BY <2>1, PromotionMoves DEF PipelineInv, TypesOK
<1> QED BY <1>1, <1>2, <1>3 DEF Next

(* The work under every candidate tag is that of one push (release-candidate.yml). *)
THEOREM Invariance == Spec => []PipelineInv
<1>1. PipelineInv /\ [Next]_vars => PipelineInv'
    BY StepInv
<1> QED BY InitInv, <1>1, PTL DEF Spec

-----------------------------------------------------------------------------
(* The work of a push qualifies its tag, for its version and no other.     *)
LEMMA WorkQualifies ==
    ASSUME NEW t \in CandidateTags, NEW v \in Versions, t \in Candidates[v],
           NEW p \in Pushes, NEW q, WorkOf(p, t, q)
    PROVE  Validated(q, t, v, gitTags[t]) /\ Requalifies(q, t, gitTags[t])
<1>1. VersionOf[p.commit] \in Versions
    BY PipelineAssumption
<1>2. v = VersionOf[p.commit]
    BY <1>1, PipelineAssumption DEF WorkOf, Consistent
<1>3. /\ q.tag = t /\ q.version = v /\ q.commit = p.commit /\ q.authority = p.authority
      /\ q.digest = registry[t]
    BY <1>2 DEF WorkOf, Qualification
<1> QED BY <1>3 DEF WorkOf, Built, Validated, Requalifies, ImageValidated

(* While no read missed anything, a qualified candidate can be promoted: validate and
   requalify of validate_image_qualification.py would accept it in any later state. *)
THEOREM QualifiedIsPromotable == Spec => []QualifiedStaysPromotable
<1>1. PipelineInv => QualifiedStaysPromotable
    <2> SUFFICES ASSUME PipelineInv, misses = 0,
                        NEW v \in Versions, NEW t \in CandidateTags, t \in Candidates[v],
                        releases[t] # None, releases[t].qualification # None
                 PROVE  /\ Validated(releases[t].qualification, t, v, gitTags[t])
                        /\ Requalifies(releases[t].qualification, t, gitTags[t])
        BY DEF QualifiedStaysPromotable
    <2>1. PICK p \in asked : WorkOf(p, t, releases[t].qualification)
        BY DEF PipelineInv, Exact, TagOK
    <2> QED BY <2>1, WorkQualifies DEF PipelineInv, TypesOK
<1> QED BY Invariance, <1>1, PTL

(* A crashed run of release-candidate.yml can be resumed: only an inconsistent request,
   a foreign git tag, another push of the tag or a missed read refuses a run. *)
THEOREM RerunIsAccepted == Spec => []RerunIsNeverRefused
<1>1. PipelineInv => RerunIsNeverRefused
    BY DEF PipelineInv, TypesOK, Exact, ProgressOK, RerunIsNeverRefused
<1> QED BY Invariance, <1>1, PTL

-----------------------------------------------------------------------------
(* How far a promotion has come, and what a stable Release rests on.       *)
PromotionOK(run) ==
    /\ run.pc \in {"validate", "requalify", "attach", "publish"} => run.commit = gitTags[run.tag]
    /\ run.pc \in {"requalify", "attach", "publish"} =>
         releases[run.tag].qualification = run.qualification /\ gitTags[run.final] = None
    /\ run.pc = "publish" => registry[run.final] = run.qualification.digest

StableOK(v) ==
    releases[v] # None =>
        LET source == releases[v].promotedFrom
        IN  /\ releases[source] # None
            /\ releases[source].qualification = releases[v].qualification
            /\ gitTags[v] # None
            /\ gitTags[v] = gitTags[source] /\ gitTags[v] = releases[v].commit
            /\ registry[v] = releases[v].qualification.digest

StableInv == PromotionOK(promotion) /\ \A v \in Versions : StableOK(v)

(* What the candidate workflow leaves alone: the stable tags, and under a
   candidate tag with a Release the git tag and the qualification.         *)
Preserves ==
    /\ promotion' = promotion
    /\ \A v \in Versions : /\ registry'[v] = registry[v] /\ gitTags'[v] = gitTags[v]
                           /\ releases'[v] = releases[v]
    /\ \A t \in CandidateTags : releases[t] # None =>
         /\ releases'[t] # None /\ gitTags'[t] = gitTags[t]
         /\ releases[t].qualification # None =>
              releases'[t].qualification = releases[t].qualification

LEMMA CandidatePreserves ==
    ASSUME PipelineInv, CandidateStep
    PROVE  Preserves
<1>1. TypesOK
    BY DEF PipelineInv
<1> DEFINE t == candidate.push.tag
<1>2. candidate.pc # "ended" => t \in CandidateTags /\ t \in Tags /\ t \notin Versions
    BY <1>1, CandidateShapes, TagsAreTags DEF TypesOK
<1>3. CASE UNCHANGED <<registry, gitTags, releases, promotion>>
    BY <1>3 DEF Preserves
<1>4. CASE ResolveImage
    <2>1. /\ UNCHANGED <<gitTags, releases, promotion>> /\ t \in Tags /\ t \notin Versions
          /\ \/ registry' = registry
             \/ registry' = [registry EXCEPT ![t] = Len(images')]
        BY <1>2, <1>4 DEF ResolveImage
    <2>2. \A v \in Versions : registry'[v] = registry[v]
        BY <1>1, <2>1, TagsAreTags DEF TypesOK
    <2> QED BY <2>1, <2>2 DEF Preserves
<1>5. CASE CreateCandidateRelease
    <2>1. /\ UNCHANGED <<registry, promotion>> /\ t \in CandidateTags /\ t \in Tags
          /\ t \notin Versions
        BY <1>2, <1>5 DEF CreateCandidateRelease
    <2>2. CASE UNCHANGED <<gitTags, releases>>
        BY <2>1, <2>2, <1>3
    <2>3. CASE \E new, commit : CreateRelease(t, new, commit)
        <3>1. PICK new, commit : CreateRelease(t, new, commit)
            BY <2>3
        <3> HIDE DEF t
        <3>2. /\ releases[t] = None
              /\ \A u \in Tags \ {t} : releases'[u] = releases[u] /\ gitTags'[u] = gitTags[u]
            BY <1>1, <3>1 DEF CreateRelease, TypesOK
        <3> QED BY <2>1, <3>2, TagsAreTags DEF Preserves
    <2>4. UNCHANGED <<gitTags, releases>> \/ \E new, commit : CreateRelease(t, new, commit)
        BY <1>5 DEF CreateCandidateRelease
    <2> QED BY <2>2, <2>3, <2>4
<1>6. CASE UploadQualification
    <2> DEFINE more == [releases[t] EXCEPT !.qualification = candidate.qualification]
    <2>1. /\ UNCHANGED <<registry, gitTags, promotion>> /\ candidate.pc = "upload"
          /\ t \in CandidateTags /\ t \in Tags /\ t \notin Versions
          /\ releases' = IF releases[t].qualification = None
                         THEN [releases EXCEPT ![t] = more] ELSE releases
        BY <1>2, <1>6 DEF UploadQualification
    <2>2. CASE releases' = releases
        BY <1>3, <2>1, <2>2
    <2>3. CASE releases[t].qualification = None /\ releases' = [releases EXCEPT ![t] = more]
        <3>1. releases[t] \in Prereleases /\ candidate.qualification \in Qualifications
            <4>1. candidate \in [pc: {"release", "upload"}, push: Pushes, exists: BOOLEAN,
                                 qualification: Qualifications]
                BY <1>1, <2>1, CandidateShapes DEF TypesOK
            <4> QED BY <1>1, <2>1, <4>1 DEF TypesOK
        <3>2. more \in Prereleases
            BY <3>1 DEF Prereleases
        <3>3. more # None
            BY <3>2, NothingIsNone
        <3> HIDE DEF t, more
        <3>4. /\ releases'[t] = more
              /\ \A u \in Tags \ {t} : releases'[u] = releases[u]
            BY <1>1, <2>1, <2>3 DEF TypesOK
        <3> QED BY <2>1, <2>3, <3>3, <3>4, TagsAreTags DEF Preserves
    <2> QED BY <2>1, <2>2, <2>3
<1>7. QED
    <2>1. CASE \E p \in Pushes : StartCandidate(p)
        BY <1>3, <2>1 DEF StartCandidate, world
    <2>2. CASE VerifyCandidate \/ Qualify \/ CrashCandidate
        BY <1>3, <2>2 DEF VerifyCandidate, Qualify, CrashCandidate, world
    <2> QED BY <1>4, <1>5, <1>6, <2>1, <2>2 DEF CandidateStep

LEMMA PreservesStable ==
    ASSUME PipelineInv, misses = 0, StableInv, Preserves
    PROVE  StableInv'
<1>1. TypesOK /\ \A t \in CandidateTags : TagOK(t)
    BY DEF PipelineInv, Exact
<1>2. PromotionOK(promotion)'
    <2>1. promotion.pc \in {"validate", "requalify", "attach", "publish"} =>
            /\ promotion.tag \in CandidateTags /\ promotion.final \in Versions
            /\ releases[promotion.tag] # None
        BY <1>1, PromotionShapes DEF TypesOK
    <2>2. promotion.pc \in {"requalify", "attach", "publish"} =>
            promotion.qualification # None
        BY <1>1, PromotionShapes, NothingIsNone DEF TypesOK
    <2> QED BY <2>1, <2>2 DEF StableInv, PromotionOK, Preserves
<1>3. ASSUME NEW v \in Versions, releases[v] # None
      PROVE  StableOK(v)'
    <2> DEFINE source == releases[v].promotedFrom
    <2>1. releases[v] \in StableReleases
        BY <1>1, <1>3 DEF TypesOK
    <2>2. source \in CandidateTags /\ releases[v].qualification \in Qualifications
        BY <2>1 DEF StableReleases
    <2>3. releases[v].qualification # None
        BY <2>2, NothingIsNone
    <2>4. StableOK(v) /\ releases'[v] = releases[v] /\ gitTags'[v] = gitTags[v]
          /\ registry'[v] = registry[v]
        BY DEF StableInv, Preserves
    <2>5. /\ releases[source] # None /\ releases[source].qualification = releases[v].qualification
          /\ gitTags[v] = gitTags[source]
        BY <1>3, <2>4 DEF StableOK
    <2>6. /\ releases'[source] # None /\ gitTags'[source] = gitTags[source]
          /\ releases'[source].qualification = releases[source].qualification
        BY <2>2, <2>3, <2>5 DEF Preserves
    <2>7. releases'[v].promotedFrom = source
        BY <2>4
    <2> QED BY <1>3, <2>4, <2>5, <2>6, <2>7 DEF StableOK
<1>4. \A v \in Versions : StableOK(v)'
    BY <1>3 DEF StableOK, Preserves
<1> QED BY <1>2, <1>4 DEF StableInv

(* What is missed is never taken back. *)
LEMMA MissesStay ==
    ASSUME PipelineInv, [Next]_vars, misses' = 0
    PROVE  misses = 0
<1>1. misses \in Nat
    BY DEF PipelineInv, TypesOK
<1>2. CASE UNCHANGED misses
    BY <1>2
<1>3. CASE \E there, seen : Read(<<there>>, <<seen>>)
    BY <1>1, <1>3, ReadOne
<1>4. CASE VerifyCandidate
    <2>1. \E there, seen, thereToo, seenToo : Read(<<there, thereToo>>, <<seen, seenToo>>)
        BY <1>4 DEF VerifyCandidate
    <2> QED BY <1>1, <2>1, ReadTwo
<1>5. CASE ResolveImage \/ UploadQualification \/ ValidateQualification \/ AttachStable
    BY <1>3, <1>5 DEF ResolveImage, UploadQualification, ValidateQualification, AttachStable
<1>6. CASE UNCHANGED vars
    BY <1>2, <1>6 DEF vars, counts
<1> QED
    <2>1. CASE \E p \in Pushes : StartCandidate(p)
        BY <1>2, <2>1 DEF StartCandidate
    <2>2. CASE \E tag \in CandidateTags, final \in Versions : Dispatch(tag, final)
        BY <1>2, <2>2 DEF Dispatch
    <2>3. CASE Qualify \/ CreateCandidateRelease \/ CrashCandidate
        BY <1>2, <2>3 DEF Qualify, CreateCandidateRelease, CrashCandidate, counts
    <2>4. CASE ResolveCandidate \/ Requalify \/ PublishStable \/ CrashPromotion
        BY <1>2, <2>4 DEF ResolveCandidate, Requalify, PublishStable, CrashPromotion, counts
    <2> QED BY <1>4, <1>5, <1>6, <2>1, <2>2, <2>3, <2>4 DEF Next, CandidateStep, PromotionStep

(* A promotion that only moves its own run disturbs no stable Release.     *)
LEMMA StableKept ==
    ASSUME StableInv, UNCHANGED <<registry, gitTags, releases>>
    PROVE  \A v \in Versions : StableOK(v)'
BY DEF StableInv, StableOK

LEMMA PromotionStable ==
    ASSUME PipelineInv, misses = 0, StableInv, PromotionStep, misses' = 0
    PROVE  StableInv'
<1> DEFINE tag == promotion.tag
           final == promotion.final
<1>1. TypesOK /\ \A t \in CandidateTags : TagOK(t)
    BY DEF PipelineInv, Exact
<1>2. promotion.pc \in {"validate", "requalify", "attach", "publish"} =>
        /\ tag \in CandidateTags /\ tag \in Tags /\ final \in Versions /\ final \in Tags
        /\ tag # final /\ releases[tag] # None
    BY <1>1, PromotionShapes, TagsAreTags, PipelineAssumption DEF TypesOK
<1>3. promotion.pc \in {"requalify", "attach", "publish"} =>
        promotion \in [pc: {"requalify", "attach", "publish"}, tag: CandidateTags,
                       final: Versions, commit: Commits \union {None},
                       qualification: Qualifications]
    BY <1>1, PromotionShapes DEF TypesOK
<1>4. ASSUME UNCHANGED <<registry, gitTags, releases>>,
             promotion'.pc \in {"ended", "refused", "resolve"}
      PROVE  StableInv'
    BY <1>4, StableKept DEF StableInv, PromotionOK
<1>5. CASE \E t \in CandidateTags, v \in Versions : Dispatch(t, v)
    BY <1>4, <1>5 DEF Dispatch, world
<1>6. CASE CrashPromotion
    BY <1>4, <1>6 DEF CrashPromotion, world
<1>7. CASE ResolveCandidate
    <2>1. UNCHANGED <<registry, gitTags, releases>>
        BY <1>7 DEF ResolveCandidate, world
    <2>2. CASE promotion' = [pc |-> "validate", tag |-> tag, final |-> final,
                             commit |-> gitTags[tag]]
        BY <2>1, <2>2, StableKept DEF StableInv, PromotionOK
    <2>3. CASE promotion' = [pc |-> "refused"]
        BY <1>4, <2>1, <2>3
    <2> QED BY <1>7, <2>2, <2>3 DEF ResolveCandidate, Refuse
<1>8. CASE ValidateQualification
    <2>1. UNCHANGED <<registry, gitTags, releases>> /\ promotion.pc = "validate"
        BY <1>8 DEF ValidateQualification, world
    <2>2. PICK stable \in Readings(gitTags[final]) :
            /\ Read(<<gitTags[final]>>, <<stable>>)
            /\ \/ /\ stable = None
                  /\ promotion' = [pc |-> "requalify", tag |-> tag, final |-> final,
                                   commit |-> promotion.commit,
                                   qualification |-> releases[tag].qualification]
               \/ promotion' = [pc |-> "refused"]
        BY <1>8 DEF ValidateQualification, Refuse
    <2>3. stable = gitTags[final]
        BY <1>1, <2>2, ReadOne DEF TypesOK
    <2>4. CASE promotion' = [pc |-> "refused"]
        BY <1>4, <2>1, <2>4
    <2>5. CASE /\ stable = None
               /\ promotion' = [pc |-> "requalify", tag |-> tag, final |-> final,
                                commit |-> promotion.commit,
                                qualification |-> releases[tag].qualification]
        <3>1. promotion.commit = gitTags[tag] /\ gitTags[final] = None
            BY <2>1, <2>3, <2>5 DEF StableInv, PromotionOK
        <3> QED BY <2>1, <2>5, <3>1, StableKept DEF StableInv, PromotionOK
    <2> QED BY <2>2, <2>4, <2>5
<1>9. CASE Requalify
    <2>1. UNCHANGED <<registry, gitTags, releases>> /\ promotion.pc = "requalify"
        BY <1>9 DEF Requalify, world
    <2>2. CASE promotion' = [promotion EXCEPT !.pc = "attach"]
        <3>1. /\ promotion'.pc = "attach" /\ promotion'.tag = tag /\ promotion'.final = final
              /\ promotion'.commit = promotion.commit
              /\ promotion'.qualification = promotion.qualification
            BY <1>3, <2>1, <2>2
        <3> QED BY <2>1, <3>1, StableKept DEF StableInv, PromotionOK
    <2>3. CASE promotion' = [pc |-> "refused"]
        BY <1>4, <2>1, <2>3
    <2> QED BY <1>9, <2>2, <2>3 DEF Requalify, Refuse
<1>10. CASE AttachStable
    <2>1. UNCHANGED <<gitTags, releases>> /\ promotion.pc = "attach"
        BY <1>10 DEF AttachStable
    <2>2. CASE promotion' = [pc |-> "refused"] /\ UNCHANGED registry
        BY <1>4, <2>1, <2>2
    <2>3. CASE /\ registry' = [registry EXCEPT ![final] = promotion.qualification.digest]
               /\ promotion' = [promotion EXCEPT !.pc = "publish"]
        <3>1. /\ promotion'.pc = "publish" /\ promotion'.tag = tag /\ promotion'.final = final
              /\ promotion'.commit = promotion.commit
              /\ promotion'.qualification = promotion.qualification
            BY <1>3, <2>1, <2>3
        <3>2. /\ registry'[final] = promotion.qualification.digest
              /\ \A v \in Versions \ {final} : registry'[v] = registry[v]
            BY <1>1, <1>2, <2>1, <2>3, TagsAreTags DEF TypesOK
        <3>3. gitTags[final] = None
            BY <2>1 DEF StableInv, PromotionOK
        <3>4. \A v \in Versions : StableOK(v)'
            BY <2>1, <3>2, <3>3 DEF StableInv, StableOK
        <3>5. PromotionOK(promotion)'
            BY <2>1, <3>1, <3>2 DEF StableInv, PromotionOK
        <3> QED BY <3>4, <3>5 DEF StableInv
    <2> QED BY <1>10, <2>2, <2>3 DEF AttachStable, Refuse
<1>11. CASE PublishStable
    <2> DEFINE stable == [prerelease |-> FALSE, qualification |-> promotion.qualification,
                          promotedFrom |-> tag, commit |-> promotion.commit]
    <2>1. UNCHANGED registry /\ promotion.pc = "publish" /\ promotion'.pc \in {"ended", "refused"}
        BY <1>11 DEF PublishStable, Refuse
    <2>2. CASE UNCHANGED <<releases, gitTags>>
        BY <1>4, <2>1, <2>2
    <2>3. CASE CreateRelease(final, stable, promotion.commit)
        <3>1. /\ promotion.commit = gitTags[tag] /\ gitTags[final] = None
              /\ releases[tag].qualification = promotion.qualification
              /\ registry[final] = promotion.qualification.digest
            BY <2>1 DEF StableInv, PromotionOK
        <3>2. gitTags[tag] # None /\ releases[tag] # None
            BY <1>1, <1>2, <2>1 DEF TagOK
        <3>3. /\ stable.qualification = promotion.qualification /\ stable.promotedFrom = tag
              /\ stable.commit = promotion.commit
            OBVIOUS
        <3>4. /\ releases'[final] = stable
              /\ gitTags'[final] = promotion.commit
              /\ \A u \in Tags \ {final} : releases'[u] = releases[u] /\ gitTags'[u] = gitTags[u]
            <4> HIDE DEF stable
            <4> QED BY <1>1, <1>2, <2>1, <2>3, <3>1 DEF CreateRelease, TypesOK
        <3> HIDE DEF stable
        <3>5. ASSUME NEW v \in Versions, v = final PROVE StableOK(v)'
            <4>1. /\ releases'[v] = stable /\ stable.promotedFrom = tag
                  /\ gitTags'[v] = gitTags[tag] /\ registry'[v] = registry[final]
                BY <2>1, <3>1, <3>3, <3>4, <3>5
            <4>2. releases'[tag] = releases[tag] /\ gitTags'[tag] = gitTags[tag]
                BY <1>2, <2>1, <3>4
            <4> HIDE DEF tag, final
            <4> QED BY <3>1, <3>2, <3>3, <4>1, <4>2 DEF StableOK
        <3>6. ASSUME NEW v \in Versions, v # final PROVE StableOK(v)'
            <4>1. CASE releases[v] = None
                BY <3>4, <3>6, <4>1, TagsAreTags DEF StableOK
            <4>2. CASE releases[v] # None
                <5>1. releases[v] \in StableReleases
                    BY <1>1, <4>2 DEF TypesOK
                <5>2. /\ releases[v].promotedFrom \in CandidateTags
                      /\ releases[v].promotedFrom \in Tags \ {final}
                    BY <1>2, <2>1, <5>1, TagsAreTags, PipelineAssumption DEF StableReleases
                <5>3. StableOK(v) /\ releases'[v] = releases[v] /\ gitTags'[v] = gitTags[v]
                      /\ registry'[v] = registry[v]
                    BY <2>1, <3>4, <3>6, TagsAreTags DEF StableInv
                <5> QED BY <3>4, <4>2, <5>2, <5>3 DEF StableOK
            <4> QED BY <4>1, <4>2
        <3>7. PromotionOK(promotion)'
            BY <2>1 DEF PromotionOK
        <3> QED BY <3>5, <3>6, <3>7 DEF StableInv
    <2> QED BY <1>11, <2>2, <2>3 DEF PublishStable
<1> QED BY <1>5, <1>6, <1>7, <1>8, <1>9, <1>10, <1>11 DEF PromotionStep

LEMMA StableInvariance == Spec => [](misses = 0 => StableInv)
<1>1. Init => StableInv
    BY TagsAreTags DEF Init, StableInv, PromotionOK, StableOK
<1>2. ASSUME PipelineInv, misses = 0 => StableInv, [Next]_vars, misses' = 0
      PROVE  StableInv'
    <2>1. misses = 0 /\ StableInv
        BY <1>2, MissesStay
    <2>2. CASE CandidateStep
        BY <1>2, <2>1, <2>2, CandidatePreserves, PreservesStable
    <2>3. CASE PromotionStep
        BY <1>2, <2>1, <2>3, PromotionStable
    <2>4. CASE UNCHANGED vars
        BY <1>2, <2>1, <2>4, PreservesStable DEF vars, world, Preserves
    <2> QED BY <1>2, <2>2, <2>3, <2>4 DEF Next
<1>3. PipelineInv /\ (misses = 0 => StableInv) /\ [Next]_vars => (misses = 0 => StableInv)'
    BY <1>2
<1> QED BY Invariance, <1>1, <1>3, PTL DEF Spec

(* Whatever crashes and whichever runs of the two workflows overlap, what release-promote.yml
   published as stable is the candidate that was qualified, as long as no read missed
   anything. *)
THEOREM StableIsQualified == Spec => [](misses = 0 => StableIsTheQualifiedCandidate)
<1>1. PipelineInv /\ (misses = 0 => StableInv) =>
        (misses = 0 => StableIsTheQualifiedCandidate)
    <2> SUFFICES ASSUME PipelineInv, StableInv, misses = 0,
                        NEW v \in Versions, releases[v] # None
                 PROVE  LET q == releases[v].qualification
                            source == releases[v].promotedFrom
                        IN  /\ ~releases[v].prerelease
                            /\ releases[source] # None /\ releases[source].qualification = q
                            /\ gitTags[v] = gitTags[source] /\ gitTags[v] = releases[v].commit
                            /\ registry[v] = q.digest
                            /\ images[q.digest] =
                                 [authority |-> q.authority, commit |-> gitTags[v]]
        BY DEF StableIsTheQualifiedCandidate
    <2> DEFINE source == releases[v].promotedFrom
               q == releases[v].qualification
    <2>1. releases[v] \in StableReleases
        BY DEF PipelineInv, TypesOK
    <2>2. source \in CandidateTags /\ q \in Qualifications /\ ~releases[v].prerelease
        BY <2>1 DEF StableReleases
    <2>3. q # None
        BY <2>2, NothingIsNone
    <2>4. StableOK(v)
        BY DEF StableInv
    <2>5. PICK p \in asked : WorkOf(p, source, q)
        BY <2>2, <2>3, <2>4 DEF PipelineInv, Exact, TagOK, StableOK
    <2>6. images[q.digest] = [authority |-> q.authority, commit |-> gitTags[v]]
        <3>1. q.authority = p.authority /\ q.digest = registry[source] /\ gitTags[source] = p.commit
            BY <2>5 DEF WorkOf, Qualification
        <3> QED BY <2>4, <2>5, <3>1 DEF WorkOf, Built, StableOK
    <2> QED BY <2>2, <2>4, <2>6 DEF StableOK
<1> QED BY Invariance, StableInvariance, <1>1, PTL
=============================================================================
