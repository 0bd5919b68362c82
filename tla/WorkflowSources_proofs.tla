----------------------- MODULE WorkflowSources_proofs -----------------------
(***************************************************************************)
(* What is proved of the Workflow sources, in three parts: the resolver    *)
(* (WorkflowSources), the sides of concurrent requests over it             *)
(* (SideWorkflows) and one of its sources, the releases of a GitHub        *)
(* repository (GitHubSource).                                              *)
(***************************************************************************)
EXTENDS SideWorkflows, GitHubSource, TLAPS, FiniteSetTheorems

(***************************************************************************)
(* The safety invariants of WorkflowSources, proved for any number of      *)
(* callers, sources, Manifests and candidates and for any timeouts.        *)
(*                                                                         *)
(* An answer is right because of what its call did before it: the          *)
(* inductive invariant therefore says of a call that still fetches that    *)
(* its attempts are exactly the sources before the one being asked.        *)
(***************************************************************************)
ResolverCodes == {"DEADLINE_EXCEEDED", "ATTEMPTS_TRUNCATED"}

(* The attempts are those of the sources 1, 2, ..., each by its number. *)
Asked(attempts) ==
  /\ attempts \in Seq(Attempt)
  /\ \A i \in 1..Len(attempts) :
       /\ attempts[i].source = i /\ attempts[i].omitted = 0
       /\ attempts[i].code \in DiagnosticCodes \ ResolverCodes

FetchingOK(f) ==
  /\ f \in FetchingCall
  /\ Asked(f.attempts)
  /\ Len(f.attempts) = f.index - 1

(* The attempts of an answer: those of sources, or of sources and then the *)
(* deadline.                                                               *)
AttemptsOK(attempts) ==
  \/ Asked(attempts) /\ Len(attempts) <= NSources
  \/ \E asked : /\ Asked(asked) /\ Len(asked) < NSources
                /\ attempts = Append(asked, DeadlineExceeded)

AnswerOK(a, filled) ==
  /\ a \in ReturnedCall
  /\ AttemptsOK(a.attempts)
  /\ a.state = "AVAILABLE" =>
       /\ SameContent(a.candidate, a.manifest)
       /\ a.source # 0 /\ a.candidate \in Candidates
       /\ \/ a.source = Len(a.attempts) + 1
          \/ a.attempts = <<>> /\ ExactContentCoordinate(a.manifest) \in filled
  /\ a.state # "AVAILABLE" => a.source = 0 /\ a.candidate = NoCandidate
  /\ a.state = "NOT_FOUND" =>
       /\ Asked(a.attempts) /\ Len(a.attempts) = NSources
       /\ \A i \in 1..NSources : a.attempts[i].code \notin Indeterminate

CallOK(x, filled) == x \in StoppedCall \/ FetchingOK(x) \/ AnswerOK(x, filled)

Filled == {k \in CacheKeys : cache[k] # NoEntry}

CacheOK ==
  /\ cache \in [CacheKeys -> Entry \union {NoEntry}]
  /\ CacheIsExact

CallsOK ==
  /\ DOMAIN call = Callers
  /\ call = [c \in Callers |-> call[c]]
  /\ \A c \in Callers : CallOK(call[c], Filled)

IInv == CacheOK /\ CallsOK

-----------------------------------------------------------------------------
(* The shapes of a call are told apart by pc. *)
LEMMA Shapes ==
  /\ \A x \in StoppedCall : x.pc \in {"idle", "raised", "cancelled"}
  /\ \A x \in FetchingCall : x.pc = "fetching"
  /\ \A x \in ReturnedCall : x.pc = "returned"
  BY DEF StoppedCall, FetchingCall, ReturnedCall

LEMMA FetchingIsOK ==
  ASSUME NEW c \in Callers, IInv, IsFetching(c)
  PROVE  FetchingOK(call[c])
  BY Shapes DEF IInv, CallsOK, CallOK, IsFetching, AnswerOK

(* Nothing is truncated when no more attempts are reported than sources    *)
(* may be configured.                                                      *)
LEMMA NothingTruncated ==
  ASSUME NEW attempts, Len(attempts) <= MaxSources
  PROVE  BoundedAttempts(attempts) = attempts
  BY DEF BoundedAttempts

LEMMA FailedIsAttempt ==
  ASSUME NEW source \in 0..NSources, NEW code \in DiagnosticCodes
  PROVE  /\ Failed(source, code) \in Attempt
         /\ Failed(source, code).source = source
         /\ Failed(source, code).code = code
         /\ Failed(source, code).omitted = 0
  BY DEF Failed, Attempt

(* One more source asked. *)
LEMMA AskedOneMore ==
  ASSUME NEW attempts, Asked(attempts), NEW index \in 1..NSources,
         Len(attempts) = index - 1,
         NEW code \in DiagnosticCodes \ ResolverCodes
  PROVE  /\ Asked(Append(attempts, Failed(index, code)))
         /\ Len(Append(attempts, Failed(index, code))) = index
<1>1. Failed(index, code) \in Attempt
  BY FailedIsAttempt, ConfigAssumption
<1>2. attempts \in Seq(Attempt)
  BY DEF Asked
<1> DEFINE more == Append(attempts, Failed(index, code))
<1>3. more \in Seq(Attempt) /\ Len(more) = index
  BY <1>1, <1>2, ConfigAssumption
<1>4. ASSUME NEW i \in 1..Len(more)
      PROVE  /\ more[i].source = i /\ more[i].omitted = 0
             /\ more[i].code \in DiagnosticCodes \ ResolverCodes
  <2>1. CASE i = index
    BY <2>1, <1>2, FailedIsAttempt, ConfigAssumption
  <2>2. CASE i # index
    <3>1. i \in 1..Len(attempts) /\ more[i] = attempts[i]
      BY <2>2, <1>2, <1>3, ConfigAssumption
    <3> QED BY <3>1 DEF Asked
  <2> QED BY <2>1, <2>2
<1> QED BY <1>3, <1>4 DEF Asked

LEMMA AttemptsBounded ==
  ASSUME NEW attempts, AttemptsOK(attempts)
  PROVE  /\ attempts \in Seq(Attempt)
         /\ Len(attempts) <= NSources
         /\ BoundedAttempts(attempts) = attempts
<1>1. attempts \in Seq(Attempt) /\ Len(attempts) <= NSources
  <2>1. DeadlineExceeded \in Attempt
    BY FailedIsAttempt, ConfigAssumption DEF DeadlineExceeded, DiagnosticCodes
  <2> QED BY <2>1, ConfigAssumption DEF AttemptsOK, Asked
<1>2. Len(attempts) <= MaxSources
  BY <1>1, ConfigAssumption
<1> QED BY <1>1, <1>2, NothingTruncated

(* The deadline leaves the question open. *)
LEMMA DeadlineIsOpen ==
  ASSUME NEW asked \in Seq(Attempt)
  PROVE  UnresolvedState(Append(asked, DeadlineExceeded)) = "UNAVAILABLE"
<1> DEFINE attempts == Append(asked, DeadlineExceeded)
<1>1. DeadlineExceeded \in Attempt /\ DeadlineExceeded.code = "DEADLINE_EXCEEDED"
  BY FailedIsAttempt, ConfigAssumption DEF DeadlineExceeded, DiagnosticCodes
<1>2. Len(attempts) \in DOMAIN attempts /\ attempts[Len(attempts)] = DeadlineExceeded
  BY <1>1
<1> QED BY <1>1, <1>2 DEF UnresolvedState, Indeterminate

LEMMA UnresolvedIsOK ==
  ASSUME NEW m \in Manifests, NEW attempts, NEW filled, AttemptsOK(attempts),
         UnresolvedState(attempts) = "NOT_FOUND"
           => Asked(attempts) /\ Len(attempts) = NSources
  PROVE  AnswerOK(Unresolved(m, attempts), filled)
<1> DEFINE a == Unresolved(m, attempts)
<1>1. /\ attempts \in Seq(Attempt)
      /\ BoundedAttempts(attempts) = attempts
  BY AttemptsBounded
<1>2. /\ a.attempts = attempts /\ a.state = UnresolvedState(attempts)
      /\ a.source = 0 /\ a.candidate = NoCandidate
  BY <1>1 DEF Unresolved
<1>3. UnresolvedState(attempts) \in {"NOT_FOUND", "UNAVAILABLE"}
  BY DEF UnresolvedState
<1>4. a \in ReturnedCall
  BY <1>1, <1>3, ConfigAssumption DEF Unresolved, ReturnedCall
<1>5. ASSUME a.state = "NOT_FOUND"
      PROVE  \A i \in 1..NSources : a.attempts[i].code \notin Indeterminate
  <2>1. DOMAIN attempts = 1..NSources
    BY <1>1, <1>2, <1>5
  <2> QED BY <2>1, <1>2, <1>5 DEF UnresolvedState
<1> QED BY <1>2, <1>3, <1>4, <1>5 DEF AnswerOK

LEMMA FetchIsOK ==
  ASSUME NEW m \in Manifests, NEW index \in 1..NSources, NEW attempts,
         NEW left \in 0..TotalDeadline, Asked(attempts), Len(attempts) = index - 1
  PROVE  FetchingOK(Fetch(m, index, attempts, left))
<1>1. Shorter(RequestTimeout, left) \in 0..RequestTimeout
  BY ConfigAssumption DEF Shorter
<1> QED BY <1>1 DEF FetchingOK, Fetch, FetchingCall, Asked

LEMMA AvailableIsOK ==
  ASSUME NEW m \in Manifests, NEW attempts, NEW entry \in Entry, NEW filled,
         AttemptsOK(attempts), SameContent(entry.candidate, m),
         \/ entry.source = Len(attempts) + 1
         \/ attempts = <<>> /\ ExactContentCoordinate(m) \in filled
  PROVE  AnswerOK(Available(m, attempts, entry), filled)
<1>1. attempts \in Seq(Attempt)
  BY AttemptsBounded
<1>2. entry.source \in 1..NSources /\ entry.candidate \in Candidates
  BY DEF Entry
<1> QED BY <1>1, <1>2, ConfigAssumption DEF AnswerOK, Available, ReturnedCall

(* After a source failed, the call is fetching from the next one or has an *)
(* answer, and is right either way.                                        *)
LEMMA MoveOnIsOK ==
  ASSUME NEW f, NEW filled, FetchingOK(f), NEW code \in DiagnosticCodes \ ResolverCodes
  PROVE  CallOK(MoveOn(f, Failed(f.index, code)), filled)
<1> DEFINE attempts == Append(f.attempts, Failed(f.index, code))
<1>1. /\ f.manifest \in Manifests /\ f.index \in 1..NSources
      /\ f.left \in 0..TotalDeadline
  BY DEF FetchingOK, FetchingCall
<1>2. Asked(attempts) /\ Len(attempts) = f.index
  BY <1>1, AskedOneMore DEF FetchingOK
<1>3. CASE f.index = NSources
  <2>1. MoveOn(f, Failed(f.index, code)) = Unresolved(f.manifest, attempts)
    BY <1>1, <1>3, ConfigAssumption DEF MoveOn
  <2>2. AttemptsOK(attempts)
    BY <1>2, <1>3, ConfigAssumption DEF AttemptsOK
  <2>3. AnswerOK(Unresolved(f.manifest, attempts), filled)
    BY <1>1, <1>2, <1>3, <2>2, UnresolvedIsOK
  <2> QED BY <2>1, <2>3 DEF CallOK
<1>4. CASE f.index < NSources /\ f.left = 0
  <2>1. MoveOn(f, Failed(f.index, code))
          = Unresolved(f.manifest, Append(attempts, DeadlineExceeded))
    BY <1>1, <1>4, ConfigAssumption DEF MoveOn
  <2>2. AttemptsOK(Append(attempts, DeadlineExceeded))
    BY <1>1, <1>2, <1>4 DEF AttemptsOK
  <2>3. UnresolvedState(Append(attempts, DeadlineExceeded)) = "UNAVAILABLE"
    BY <1>2, DeadlineIsOpen DEF Asked
  <2>4. AnswerOK(Unresolved(f.manifest, Append(attempts, DeadlineExceeded)), filled)
    BY <1>1, <2>2, <2>3, UnresolvedIsOK
  <2> QED BY <2>1, <2>4 DEF CallOK
<1>5. CASE f.index < NSources /\ f.left > 0
  <2>1. MoveOn(f, Failed(f.index, code)) = Fetch(f.manifest, f.index + 1, attempts, f.left)
    BY <1>1, <1>5, ConfigAssumption DEF MoveOn
  <2>2. f.index + 1 \in 1..NSources /\ Len(attempts) = (f.index + 1) - 1
    BY <1>1, <1>2, <1>5, ConfigAssumption
  <2>3. FetchingOK(Fetch(f.manifest, f.index + 1, attempts, f.left))
    BY <1>1, <1>2, <2>2, FetchIsOK
  <2> QED BY <2>1, <2>3 DEF CallOK
<1> QED BY <1>1, <1>3, <1>4, <1>5, ConfigAssumption

-----------------------------------------------------------------------------
(* A candidate without a mismatch is the content the Manifest names, and   *)
(* the key of the Manifest is that content: the two are written apart.     *)
LEMMA NoMismatchIsSameContent ==
  ASSUME NEW m, NEW candidate, CandidateMismatch(m, candidate) = "NONE"
  PROVE  /\ SameContent(candidate, m)
         /\ SameContent(candidate, ExactContentCoordinate(m))
<1>1. /\ candidate.package = m.package
      /\ candidate.packageDigest = m.packageDigest
      /\ candidate.workflow = m.workflow
      /\ candidate.snapshot = m.snapshot
      /\ candidate.roles = m.roles
  BY DEF CandidateMismatch
<1> QED BY <1>1 DEF SameContent, ExactContentCoordinate

LEMMA MismatchIsDiagnostic ==
  ASSUME NEW m, NEW candidate, CandidateMismatch(m, candidate) # "NONE"
  PROVE  CandidateMismatch(m, candidate) \in DiagnosticCodes \ ResolverCodes
  BY DEF CandidateMismatch, DiagnosticCodes, ResolverCodes

LEMMA KeyIsSameContent ==
  ASSUME NEW m, NEW candidate, SameContent(candidate, ExactContentCoordinate(m))
  PROVE  SameContent(candidate, m)
  BY DEF SameContent, ExactContentCoordinate

(* Whatever holds of a call keeps holding when the cache fills.            *)
LEMMA CallOKGrows ==
  ASSUME NEW x, NEW filled, NEW more, filled \subseteq more, CallOK(x, filled)
  PROVE  CallOK(x, more)
  BY DEF CallOK, AnswerOK

(* A step of one call.                                                     *)
LEMMA OneCall ==
  ASSUME CallsOK, NEW c \in Callers, NEW x, call' = [call EXCEPT ![c] = x],
         CallOK(x, Filled'), Filled \subseteq Filled'
  PROVE  CallsOK'
<1>1. ASSUME NEW d \in Callers
      PROVE  CallOK(call'[d], Filled')
  <2>1. CASE d = c
    BY <2>1 DEF CallsOK
  <2>2. CASE d # c
    <3>1. call'[d] = call[d]
      BY <2>2 DEF CallsOK
    <3> QED BY <3>1, CallOKGrows DEF CallsOK
  <2> QED BY <2>1, <2>2
<1>2. DOMAIN call' = Callers /\ call' = [d \in Callers |-> call'[d]]
  BY DEF CallsOK
<1> QED BY <1>1, <1>2 DEF CallsOK

-----------------------------------------------------------------------------
LEMMA InitIInv == Init => IInv
<1> SUFFICES ASSUME Init PROVE IInv
  OBVIOUS
<1>1. CacheOK
  BY DEF Init, CacheOK, CacheIsExact
<1>2. CallsOK
  BY DEF Init, CallsOK, CallOK, StoppedCall
<1> QED BY <1>1, <1>2 DEF IInv

LEMMA ResolveIInv ==
  ASSUME IInv, NEW c \in Callers, NEW m \in Manifests, Resolve(c, m)
  PROVE  IInv'
<1> DEFINE key == ExactContentCoordinate(m)
           entry == cache[key]
           x == IF entry # NoEntry THEN Available(m, <<>>, entry)
                ELSE Fetch(m, 1, <<>>, TotalDeadline)
<1>1. Asked(<<>>) /\ AttemptsOK(<<>>)
  BY ConfigAssumption DEF Asked, AttemptsOK
<1>2. CallOK(x, Filled)
  <2>1. key \in CacheKeys /\ entry \in Entry \union {NoEntry}
    BY DEF IInv, CacheOK, CacheKeys
  <2>2. CASE entry # NoEntry
    <3>1. SameContent(entry.candidate, m)
      BY <2>1, <2>2, KeyIsSameContent DEF IInv, CacheOK, CacheIsExact
    <3>2. key \in Filled
      BY <2>1, <2>2 DEF Filled
    <3>3. AnswerOK(Available(m, <<>>, entry), Filled)
      BY <1>1, <2>1, <2>2, <3>1, <3>2, AvailableIsOK
    <3> QED BY <2>2, <3>3 DEF CallOK
  <2>3. CASE entry = NoEntry
    <3>1. FetchingOK(Fetch(m, 1, <<>>, TotalDeadline))
      BY <1>1, ConfigAssumption, FetchIsOK
    <3> QED BY <2>3, <3>1 DEF CallOK
  <2> QED BY <2>2, <2>3
<1>3. cache' = cache /\ call' = [call EXCEPT ![c] = x]
  BY DEF Resolve
<1>4. Filled' = Filled
  BY <1>3 DEF Filled
<1>5. CallsOK'
  BY <1>2, <1>3, <1>4, OneCall DEF IInv
<1>6. CacheOK'
  BY <1>3 DEF IInv, CacheOK, CacheIsExact
<1> QED BY <1>5, <1>6 DEF IInv

(* A step of one call that leaves the cache alone.                         *)
LEMMA OneCallIInv ==
  ASSUME IInv, NEW c \in Callers, NEW x, CallOK(x, Filled),
         call' = [call EXCEPT ![c] = x], UNCHANGED cache
  PROVE  IInv'
<1>1. Filled' = Filled
  BY DEF Filled
<1>2. CallsOK'
  BY <1>1, OneCall DEF IInv
<1>3. CacheOK'
  BY DEF IInv, CacheOK, CacheIsExact
<1> QED BY <1>2, <1>3 DEF IInv

LEMMA ReceiveCandidateIInv ==
  ASSUME IInv, NEW c \in Callers, NEW candidate \in Candidates,
         ReceiveCandidate(c, candidate)
  PROVE  IInv'
<1> DEFINE f == call[c]
           mismatch == CandidateMismatch(f.manifest, candidate)
           entry == [source |-> f.index, candidate |-> candidate]
           key == ExactContentCoordinate(f.manifest)
<1>1. FetchingOK(f) /\ f.manifest \in Manifests /\ f.index \in 1..NSources
  BY FetchingIsOK DEF ReceiveCandidate, FetchingOK, FetchingCall
<1>2. CASE mismatch # "NONE"
  <2>1. CallOK(MoveOn(f, Failed(f.index, mismatch)), Filled)
    BY <1>1, <1>2, MismatchIsDiagnostic, MoveOnIsOK
  <2>2. /\ call' = [call EXCEPT ![c] = MoveOn(f, Failed(f.index, mismatch))]
        /\ UNCHANGED cache
    BY <1>2 DEF ReceiveCandidate
  <2> QED BY <2>1, <2>2, OneCallIInv
<1>3. CASE mismatch = "NONE"
  <2>1. /\ call' = [call EXCEPT ![c] =
                      Available(f.manifest, BoundedAttempts(f.attempts), entry)]
        /\ cache' = [cache EXCEPT ![key] = entry]
    BY <1>3 DEF ReceiveCandidate
  <2>2. entry \in Entry /\ entry # NoEntry /\ key \in CacheKeys
    BY <1>1, EntryAssumption DEF Entry, CacheKeys
  <2>3. SameContent(candidate, f.manifest) /\ SameContent(candidate, key)
    BY <1>3, NoMismatchIsSameContent
  <2>4. CacheOK'
    <3>1. cache' \in [CacheKeys -> Entry \union {NoEntry}]
      BY <2>1, <2>2 DEF IInv, CacheOK
    <3>2. ASSUME NEW k \in CacheKeys, cache'[k] # NoEntry
          PROVE  SameContent(cache'[k].candidate, k)
      <4>1. CASE k = key
        BY <4>1, <2>1, <2>2, <2>3 DEF IInv, CacheOK
      <4>2. CASE k # key
        <5>1. cache'[k] = cache[k]
          BY <4>2, <2>1 DEF IInv, CacheOK
        <5> QED BY <5>1, <3>2 DEF IInv, CacheOK, CacheIsExact
      <4> QED BY <4>1, <4>2
    <3> QED BY <3>1, <3>2 DEF CacheOK, CacheIsExact
  <2>5. Filled \subseteq Filled'
    BY <2>1, <2>2 DEF IInv, CacheOK, Filled
  <2>6. AttemptsOK(f.attempts) /\ f.index = Len(f.attempts) + 1
    BY <1>1, ConfigAssumption DEF FetchingOK, FetchingCall, AttemptsOK, Asked
  <2>7. AnswerOK(Available(f.manifest, BoundedAttempts(f.attempts), entry), Filled')
    BY <1>1, <2>2, <2>3, <2>6, AttemptsBounded, AvailableIsOK
  <2>8. CallsOK'
    BY <2>1, <2>5, <2>7, OneCall DEF CallOK, IInv
  <2> QED BY <2>4, <2>8 DEF IInv
<1> QED BY <1>2, <1>3

LEMMA ReceiveFailureIInv ==
  ASSUME IInv, NEW c \in Callers, NEW code \in FailureCodes, ReceiveFailure(c, code)
  PROVE  IInv'
<1>1. FetchingOK(call[c])
  BY FetchingIsOK DEF ReceiveFailure
<1>2. code \in DiagnosticCodes \ ResolverCodes
  BY SourceAssumption DEF ResolverCodes
<1>3. CallOK(MoveOn(call[c], Failed(call[c].index, code)), Filled)
  BY <1>1, <1>2, MoveOnIsOK
<1> QED BY <1>3, OneCallIInv DEF ReceiveFailure

LEMMA TimeOutIInv ==
  ASSUME IInv, NEW c \in Callers, TimeOut(c)
  PROVE  IInv'
<1> DEFINE f == call[c]
           attempts == Append(f.attempts, DeadlineExceeded)
<1>1. FetchingOK(f) /\ f.manifest \in Manifests
  BY FetchingIsOK DEF TimeOut, FetchingOK, FetchingCall
<1>2. CASE f.left = 0
  <2>1. AttemptsOK(attempts)
    BY <1>1, ConfigAssumption DEF FetchingOK, FetchingCall, AttemptsOK
  <2>2. UnresolvedState(attempts) = "UNAVAILABLE"
    BY <1>1, DeadlineIsOpen DEF FetchingOK, Asked
  <2>3. AnswerOK(Unresolved(f.manifest, attempts), Filled)
    BY <1>1, <2>1, <2>2, UnresolvedIsOK
  <2>4. call' = [call EXCEPT ![c] = Unresolved(f.manifest, attempts)] /\ UNCHANGED cache
    BY <1>2 DEF TimeOut
  <2> QED BY <2>3, <2>4, OneCallIInv DEF CallOK
<1>3. CASE f.left # 0
  <2>1. "SOURCE_UNAVAILABLE" \in DiagnosticCodes \ ResolverCodes
    BY DEF DiagnosticCodes, ResolverCodes
  <2>2. CallOK(MoveOn(f, Failed(f.index, "SOURCE_UNAVAILABLE")), Filled)
    BY <1>1, <2>1, MoveOnIsOK
  <2>3. /\ call' = [call EXCEPT ![c] = MoveOn(f, Failed(f.index, "SOURCE_UNAVAILABLE"))]
        /\ UNCHANGED cache
    BY <1>3 DEF TimeOut
  <2> QED BY <2>2, <2>3, OneCallIInv
<1> QED BY <1>2, <1>3

LEMMA StopIInv ==
  ASSUME IInv, NEW c \in Callers, Escape(c) \/ Cancel(c)
  PROVE  IInv'
<1>1. PICK x \in StoppedCall : call' = [call EXCEPT ![c] = x]
  <2>1. [pc |-> "raised"] \in StoppedCall /\ [pc |-> "cancelled"] \in StoppedCall
    BY DEF StoppedCall
  <2> QED BY <2>1 DEF Escape, Cancel
<1>2. UNCHANGED cache
  BY DEF Escape, Cancel
<1> QED BY <1>1, <1>2, OneCallIInv DEF CallOK

(* A tick changes the timers of a fetching call and nothing else of it.     *)
LEMMA OlderCall ==
  ASSUME NEW f \in FetchingCall
  PROVE  LET aged == [f EXCEPT !.left = IF @ > 0 THEN @ - 1 ELSE 0,
                               !.timer = IF @ > 0 THEN @ - 1 ELSE 0]
         IN /\ aged \in FetchingCall
            /\ aged.attempts = f.attempts /\ aged.index = f.index
<1> DEFINE left == IF f.left > 0 THEN f.left - 1 ELSE 0
           timer == IF f.timer > 0 THEN f.timer - 1 ELSE 0
           once == [f EXCEPT !.left = left]
<1>1. left \in 0..TotalDeadline /\ timer \in 0..RequestTimeout
  BY ConfigAssumption DEF FetchingCall
<1>2. /\ once \in FetchingCall /\ once.timer = f.timer
      /\ once.attempts = f.attempts /\ once.index = f.index
  <2> HIDE DEF left
  <2> QED BY <1>1 DEF FetchingCall
<1>3. LET twice == [once EXCEPT !.timer = timer]
      IN /\ twice \in FetchingCall
         /\ twice.attempts = f.attempts /\ twice.index = f.index
  <2> HIDE DEF timer, once
  <2> QED BY <1>1, <1>2 DEF FetchingCall
<1> QED BY <1>2, <1>3

LEMMA ElapseIInv == IInv /\ Elapse => IInv'
<1> SUFFICES ASSUME IInv, Elapse PROVE IInv'
  OBVIOUS
<1>1. UNCHANGED cache
  BY DEF Elapse
<1>2. CacheOK' /\ Filled' = Filled
  BY <1>1 DEF IInv, CacheOK, CacheIsExact, Filled
<1>3. ASSUME NEW c \in Callers
      PROVE  CallOK(call'[c], Filled)
  <2>1. CASE IsFetching(c)
    <3> DEFINE f == call[c]
               aged == [f EXCEPT !.left = IF @ > 0 THEN @ - 1 ELSE 0,
                                 !.timer = IF @ > 0 THEN @ - 1 ELSE 0]
    <3>1. call'[c] = aged
      BY <2>1 DEF Elapse
    <3>2. FetchingOK(f)
      BY <2>1, FetchingIsOK
    <3>3. f \in FetchingCall
      BY <3>2 DEF FetchingOK
    <3>4. aged \in FetchingCall /\ aged.attempts = f.attempts /\ aged.index = f.index
      BY <3>3, OlderCall
    <3> QED BY <3>1, <3>2, <3>4 DEF CallOK, FetchingOK
  <2>2. CASE ~IsFetching(c)
    BY <2>2 DEF Elapse, IInv, CallsOK
  <2> QED BY <2>1, <2>2
<1>4. DOMAIN call' = Callers /\ call' = [c \in Callers |-> call'[c]]
  BY DEF Elapse
<1>5. CallsOK'
  BY <1>2, <1>3, <1>4 DEF CallsOK
<1> QED BY <1>2, <1>5 DEF IInv

LEMMA NextIInv == IInv /\ [Next]_vars => IInv'
<1> SUFFICES ASSUME IInv, [Next]_vars PROVE IInv'
  OBVIOUS
<1>1. ASSUME NEW c \in Callers, NEW m \in Manifests, Resolve(c, m) PROVE IInv'
  BY <1>1, ResolveIInv
<1>2. ASSUME NEW c \in Callers, NEW candidate \in Candidates, ReceiveCandidate(c, candidate)
      PROVE IInv'
  BY <1>2, ReceiveCandidateIInv
<1>3. ASSUME NEW c \in Callers, NEW code \in FailureCodes, ReceiveFailure(c, code)
      PROVE IInv'
  BY <1>3, ReceiveFailureIInv
<1>4. ASSUME NEW c \in Callers, TimeOut(c) PROVE IInv'
  BY <1>4, TimeOutIInv
<1>5. ASSUME NEW c \in Callers, Escape(c) \/ Cancel(c) PROVE IInv'
  BY <1>5, StopIInv
<1>6. CASE Elapse
  BY <1>6, ElapseIInv
<1>7. CASE UNCHANGED vars
  BY <1>7 DEF vars, IInv, CacheOK, CacheIsExact, CallsOK, Filled
<1> QED BY <1>1, <1>2, <1>3, <1>4, <1>5, <1>6, <1>7 DEF Next

(* Every reachable state satisfies the inductive invariant. *)
THEOREM Invariance == Spec => []IInv
<1> QED BY InitIInv, NextIInv, PTL DEF Spec

-----------------------------------------------------------------------------
(* An answer that is right in the sense of the inductive invariant.        *)
LEMMA AnswerIsOK ==
  ASSUME IInv, NEW c \in Callers, call[c].pc = "returned"
  PROVE  AnswerOK(call[c], Filled)
  BY Shapes DEF IInv, CallsOK, CallOK, FetchingOK

(* Every call has one of its shapes and the cache holds nothing but        *)
(* sources and candidates, for every configuration.                        *)
THEOREM TypeCorrect == Spec => []TypeOK
<1>1. IInv => TypeOK
  BY DEF IInv, CallsOK, CacheOK, CallOK, FetchingOK, AnswerOK, TypeOK
<1> QED BY <1>1, Invariance, PTL

(* The cache agrees with its keys, whichever calls fill it in which order. *)
THEOREM CacheExact == Spec => []CacheIsExact
<1>1. IInv => CacheIsExact
  BY DEF IInv, CacheOK
<1> QED BY <1>1, Invariance, PTL

(* An AVAILABLE answer is the content the caller's Manifest names.         *)
THEOREM AvailableExact == Spec => []AvailableIsExact
<1>1. IInv => AvailableIsExact
  BY AnswerIsOK DEF AvailableIsExact, AnswerOK
<1> QED BY <1>1, Invariance, PTL

(* NOT_FOUND is answered only after every source was asked and answered.   *)
THEOREM NotFoundDefinite == Spec => []NotFoundIsDefinite
<1>1. IInv => NotFoundIsDefinite
  BY AnswerIsOK DEF NotFoundIsDefinite, AnswerOK, Asked
<1> QED BY <1>1, Invariance, PTL

(* The attempts of an answer are those of the sources asked, in order.     *)
THEOREM AttemptsComplete == Spec => []AttemptsTellTheWholeStory
<1>1. ASSUME IInv, NEW c \in Callers, call[c].pc = "returned",
             NEW i \in DOMAIN call[c].attempts
      PROVE  \/ call[c].attempts[i].source = i
             \/ /\ i = Len(call[c].attempts)
                /\ call[c].attempts[i] = DeadlineExceeded
  <2>1. AttemptsOK(call[c].attempts)
    BY <1>1, AnswerIsOK DEF AnswerOK
  <2>2. CASE Asked(call[c].attempts)
    BY <1>1, <2>2 DEF Asked
  <2>3. CASE ~Asked(call[c].attempts)
    <3>1. PICK asked : /\ Asked(asked)
                       /\ call[c].attempts = Append(asked, DeadlineExceeded)
      BY <2>1, <2>3 DEF AttemptsOK
    <3>2. asked \in Seq(Attempt)
      BY <3>1 DEF Asked
    <3>3. DeadlineExceeded \in Attempt
      BY FailedIsAttempt, ConfigAssumption DEF DeadlineExceeded, DiagnosticCodes
    <3>4. CASE i = Len(asked) + 1
      BY <3>1, <3>2, <3>3, <3>4
    <3>5. CASE i # Len(asked) + 1
      <4>1. i \in 1..Len(asked) /\ call[c].attempts[i] = asked[i]
        BY <1>1, <3>1, <3>2, <3>3, <3>5
      <4> QED BY <4>1, <3>1 DEF Asked
    <3> QED BY <3>4, <3>5
  <2> QED BY <2>2, <2>3
<1>2. ASSUME IInv, NEW c \in Callers, call[c].pc = "returned", call[c].state = "AVAILABLE"
      PROVE  \/ call[c].source = Len(call[c].attempts) + 1
             \/ /\ call[c].attempts = <<>>
                /\ cache[ExactContentCoordinate(call[c].manifest)] # NoEntry
  BY <1>2, AnswerIsOK DEF AnswerOK, Filled
<1>3. IInv => AttemptsTellTheWholeStory
  BY <1>1, <1>2 DEF AttemptsTellTheWholeStory
<1> QED BY <1>3, Invariance, PTL

(* Every answer passes the validators of the receipt.                      *)
THEOREM AnswerFits == Spec => []AnswerFitsReceipt
<1>1. DeadlineExceeded \in Attempt /\ AttemptFits(DeadlineExceeded)
  BY FailedIsAttempt, ConfigAssumption
  DEF DeadlineExceeded, DiagnosticCodes, AttemptFits
<1>2. ASSUME NEW asked, Asked(asked), NEW i \in 1..Len(asked)
      PROVE  AttemptFits(asked[i])
  BY <1>2, ConfigAssumption DEF Asked, AttemptFits, ResolverCodes
<1>3. ASSUME NEW attempts, AttemptsOK(attempts), NEW i \in DOMAIN attempts
      PROVE  AttemptFits(attempts[i])
  <2>1. CASE Asked(attempts)
    BY <2>1, <1>2, <1>3 DEF Asked
  <2>2. CASE ~Asked(attempts)
    <3>1. PICK asked : Asked(asked) /\ attempts = Append(asked, DeadlineExceeded)
      BY <1>3, <2>2 DEF AttemptsOK
    <3>2. asked \in Seq(Attempt)
      BY <3>1 DEF Asked
    <3>3. CASE i = Len(asked) + 1
      BY <1>1, <3>1, <3>2, <3>3
    <3>4. CASE i # Len(asked) + 1
      <4>1. i \in 1..Len(asked) /\ attempts[i] = asked[i]
        BY <1>1, <1>3, <3>1, <3>2, <3>4
      <4> QED BY <4>1, <3>1, <1>2
    <3> QED BY <3>3, <3>4
  <2> QED BY <2>1, <2>2
<1>4. ASSUME IInv, NEW c \in Callers, call[c].pc = "returned"
      PROVE  EntryFits(call[c])
  <2>1. AnswerOK(call[c], Filled)
    BY <1>4, AnswerIsOK
  <2>2. Len(call[c].attempts) <= MaxSources
    BY <2>1, AttemptsBounded, ConfigAssumption DEF AnswerOK
  <2>3. \A i \in DOMAIN call[c].attempts : AttemptFits(call[c].attempts[i])
    BY <2>1, <1>3 DEF AnswerOK
  <2> QED BY <2>1, <2>2, <2>3, SourceAssumption DEF EntryFits, AnswerOK, SameContent
<1>5. IInv => AnswerFitsReceipt
  BY <1>4 DEF AnswerFitsReceipt
<1> QED BY <1>5, Invariance, PTL

-----------------------------------------------------------------------------
(* A request that MoveOn starts has time left and fits into it.            *)
LEMMA MoveOnInTime ==
  ASSUME NEW f \in FetchingCall, NEW attempt, MoveOn(f, attempt).pc = "fetching"
  PROVE  /\ MoveOn(f, attempt).timer > 0
         /\ MoveOn(f, attempt).timer <= MoveOn(f, attempt).left
<1> DEFINE attempts == Append(f.attempts, attempt)
<1>1. f.index \in 1..NSources /\ f.left \in 0..TotalDeadline
  BY DEF FetchingCall
<1>2. CASE f.index < NSources /\ f.left > 0
  <2>1. MoveOn(f, attempt) = Fetch(f.manifest, f.index + 1, attempts, f.left)
    BY <1>1, <1>2, ConfigAssumption DEF MoveOn
  <2>2. /\ MoveOn(f, attempt).timer = Shorter(RequestTimeout, f.left)
        /\ MoveOn(f, attempt).left = f.left
    BY <2>1 DEF Fetch
  <2> QED BY <2>2, <1>1, <1>2, ConfigAssumption DEF Shorter
<1>3. CASE ~(f.index < NSources /\ f.left > 0)
  <2>1. CASE f.index = NSources
    <3>1. MoveOn(f, attempt) = Unresolved(f.manifest, attempts)
      BY <1>1, <2>1, ConfigAssumption DEF MoveOn
    <3> QED BY <3>1 DEF Unresolved
  <2>2. CASE f.index < NSources /\ f.left = 0
    <3>1. MoveOn(f, attempt) = Unresolved(f.manifest, Append(attempts, DeadlineExceeded))
      BY <1>1, <2>2, ConfigAssumption DEF MoveOn
    <3> QED BY <3>1 DEF Unresolved
  <2> QED BY <1>1, <1>3, <2>1, <2>2, ConfigAssumption
<1> QED BY <1>2, <1>3

(* No step of any call starts a request past the deadline of that call.    *)
THEOREM DeadlineRespected == Spec => RequestsWithinDeadline
<1> DEFINE Fresh(c) == IsFetching(c)' /\ (IsFetching(c) => call'[c].index # call[c].index)
           InTime(c) == call'[c].timer > 0 /\ call'[c].timer <= call'[c].left
<1>1. ASSUME IInv, [Next]_vars, NEW c \in Callers, Fresh(c)
      PROVE  InTime(c)
  <2>1. ASSUME NEW d \in Callers, NEW x, call' = [call EXCEPT ![d] = x],
               x.pc = "fetching" => x.timer > 0 /\ x.timer <= x.left
        PROVE  InTime(c)
    <3>1. CASE c = d
      BY <1>1, <2>1, <3>1 DEF IInv, CallsOK, IsFetching
    <3>2. CASE c # d
      <4>1. call'[c] = call[c]
        BY <2>1, <3>2 DEF IInv, CallsOK
      <4> QED BY <1>1, <4>1 DEF IsFetching
    <3> QED BY <3>1, <3>2
  <2>2. ASSUME NEW d \in Callers, NEW m \in Manifests, Resolve(d, m)
        PROVE  InTime(c)
    <3> DEFINE entry == cache[ExactContentCoordinate(m)]
               x == IF entry # NoEntry THEN Available(m, <<>>, entry)
                    ELSE Fetch(m, 1, <<>>, TotalDeadline)
    <3>1. x.pc = "fetching" => x.timer > 0 /\ x.timer <= x.left
      BY ConfigAssumption DEF Available, Fetch, Shorter
    <3>2. call' = [call EXCEPT ![d] = x]
      BY <2>2 DEF Resolve
    <3> HIDE DEF x
    <3> QED BY <2>1, <3>1, <3>2
  <2>3. ASSUME NEW d \in Callers, IsFetching(d), NEW attempt,
               call' = [call EXCEPT ![d] = MoveOn(call[d], attempt)]
        PROVE  InTime(c)
    <3>1. call[d] \in FetchingCall
      BY <1>1, <2>3, FetchingIsOK DEF FetchingOK
    <3> QED BY <2>1, <2>3, <3>1, MoveOnInTime
  <2>4. ASSUME NEW d \in Callers, NEW candidate \in Candidates, ReceiveCandidate(d, candidate)
        PROVE  InTime(c)
    <3> DEFINE f == call[d]
               mismatch == CandidateMismatch(f.manifest, candidate)
               x == Available(f.manifest, BoundedAttempts(f.attempts),
                              [source |-> f.index, candidate |-> candidate])
    <3>1. CASE mismatch # "NONE"
      BY <2>3, <2>4, <3>1 DEF ReceiveCandidate
    <3>2. CASE mismatch = "NONE"
      <4>1. call' = [call EXCEPT ![d] = x] /\ x.pc # "fetching"
        BY <2>4, <3>2 DEF ReceiveCandidate, Available
      <4> HIDE DEF x
      <4> QED BY <2>1, <4>1
    <3> QED BY <3>1, <3>2
  <2>5. ASSUME NEW d \in Callers, NEW code \in FailureCodes, ReceiveFailure(d, code)
        PROVE  InTime(c)
    BY <2>3, <2>5 DEF ReceiveFailure
  <2>6. ASSUME NEW d \in Callers, TimeOut(d)
        PROVE  InTime(c)
    <3> DEFINE x == Unresolved(call[d].manifest, Append(call[d].attempts, DeadlineExceeded))
    <3>1. CASE call[d].left = 0
      <4>1. call' = [call EXCEPT ![d] = x] /\ x.pc # "fetching"
        BY <2>6, <3>1 DEF TimeOut, Unresolved
      <4> HIDE DEF x
      <4> QED BY <2>1, <4>1
    <3>2. CASE call[d].left # 0
      BY <2>3, <2>6, <3>2 DEF TimeOut
    <3> QED BY <3>1, <3>2
  <2>7. ASSUME NEW d \in Callers, Escape(d) \/ Cancel(d)
        PROVE  InTime(c)
    <3>1. CASE Escape(d)
      BY <2>1, <3>1 DEF Escape
    <3>2. CASE Cancel(d)
      BY <2>1, <3>2 DEF Cancel
    <3> QED BY <2>7, <3>1, <3>2
  <2>8. CASE Elapse
    <3>1. IsFetching(c)
      BY <1>1, <2>8 DEF Elapse, IsFetching
    <3>2. call[c] \in FetchingCall
      BY <1>1, <3>1, FetchingIsOK DEF FetchingOK
    <3>3. call'[c].index = call[c].index
      BY <2>8, <3>1, <3>2, OlderCall DEF Elapse
    <3> QED BY <1>1, <3>1, <3>3
  <2>9. CASE UNCHANGED vars
    BY <1>1, <2>9 DEF vars, IsFetching
  <2> QED BY <1>1, <2>2, <2>4, <2>5, <2>6, <2>7, <2>8, <2>9 DEF Next
<1>2. IInv /\ [Next]_vars =>
        [\A c \in Callers :
           IsFetching(c)' /\ (IsFetching(c) => call'[c].index # call[c].index)
             => /\ call'[c].timer > 0
                /\ call'[c].timer <= call'[c].left]_vars
  BY <1>1
<1> QED
  <2> HIDE DEF Fresh, InTime
  <2> QED BY <1>2, Invariance, PTL DEF Spec, RequestsWithinDeadline

-----------------------------------------------------------------------------
(***************************************************************************)
(* The sides of concurrent requests over the shared resolver, proved for   *)
(* any number of callers, any Populations and any deadlines.               *)
(*                                                                         *)
(* The sides take only steps of WorkflowSources, so what is proved of the  *)
(* resolver holds of it here.  The invariant about a side says what its    *)
(* receipt owes to the cache it began with, and that the time it has spent *)
(* is paid for: by TotalDeadline for each Manifest it had to fetch, less   *)
(* what is left of the deadline of the fetch in progress.                  *)
(***************************************************************************)
SideRecord ==
  [pc: {"idle", "ready", "waiting", "observing", "done", "failed", "raised"},
   population: Seq(Manifests),
   entries: Seq({"AVAILABLE", "NOT_FOUND", "UNAVAILABLE"}),
   left: Nat, began: Nat, known: SUBSET CacheKeys]

Key(s, i) == ExactContentCoordinate(s.population[i])

(* What the first n Manifests of side s may have cost.                     *)
Fetched(s, n) == {i \in 1..n : Key(s, i) \notin s.known}

Paid(s, n) == TotalDeadline * Cardinality(Fetched(s, n))

(* The side s while the call of its caller is x.                           *)
SideOK(s, x, filled) ==
  LET n == Len(s.entries) IN
  /\ s \in SideRecord
  /\ n <= Len(s.population)
  /\ s.known \subseteq filled
  /\ \A i \in 1..n : Key(s, i) \in s.known => s.entries[i] = "AVAILABLE"
  /\ x.pc = "fetching" =>
       /\ s.pc = "waiting" /\ x.manifest = s.population[n + 1]
       /\ Key(s, n + 1) \notin s.known
       /\ x.timer <= x.left
       /\ s.began - s.left <= Paid(s, n + 1) - x.left
  /\ s.pc = "ready" => s.began - s.left <= Paid(s, n)
  /\ s.pc = "waiting" =>
       /\ n < Len(s.population)
       /\ s.began - s.left <= Paid(s, n + 1)
       /\ x.pc = "returned" /\ Key(s, n + 1) \in s.known => x.state = "AVAILABLE"
  /\ s.pc = "observing" => n = Len(s.population)
  /\ s.pc = "failed" /\ n < Len(s.population) => s.began <= Paid(s, n + 1)

SideInv ==
  /\ IInv
  /\ side \in [Callers -> SideRecord]
  /\ \A c \in Callers : SideOK(side[c], call[c], Filled)

-----------------------------------------------------------------------------
LEMMA PaidMore ==
  ASSUME NEW s, NEW n \in Nat
  PROVE  /\ Paid(s, n) \in Nat /\ Paid(s, n + 1) \in Nat
         /\ Key(s, n + 1) \in s.known => Paid(s, n + 1) = Paid(s, n)
         /\ Key(s, n + 1) \notin s.known => Paid(s, n + 1) = Paid(s, n) + TotalDeadline
<1>1. IsFiniteSet(Fetched(s, n)) /\ Cardinality(Fetched(s, n)) \in Nat
  <2>1. IsFiniteSet(1..n)
    BY FS_Interval
  <2>2. IsFiniteSet(Fetched(s, n))
    BY <2>1, FS_Subset DEF Fetched
  <2> QED BY <2>2, FS_CardinalityType
<1>2. TotalDeadline \in Nat
  BY ConfigAssumption
<1>3. CASE Key(s, n + 1) \in s.known
  <2>1. Fetched(s, n + 1) = Fetched(s, n)
    BY <1>3 DEF Fetched
  <2> QED BY <1>1, <1>2, <1>3, <2>1 DEF Paid
<1>4. CASE Key(s, n + 1) \notin s.known
  <2>1. Fetched(s, n + 1) = Fetched(s, n) \union {n + 1} /\ n + 1 \notin Fetched(s, n)
    BY <1>4 DEF Fetched
  <2>2. Cardinality(Fetched(s, n + 1)) = Cardinality(Fetched(s, n)) + 1
    BY <1>1, <2>1, FS_AddElement
  <2>3. \A k \in Nat : TotalDeadline * k \in Nat
                       /\ TotalDeadline * (k + 1) = TotalDeadline * k + TotalDeadline
    BY <1>2
  <2> QED BY <1>1, <1>4, <2>2, <2>3 DEF Paid
<1> QED BY <1>3, <1>4

(* What a change of pc and time leaves of a side. *)
LEMMA Moved ==
  ASSUME NEW s \in SideRecord,
         NEW pc \in {"idle", "ready", "waiting", "observing", "done", "failed", "raised"}
  PROVE  LET t == [s EXCEPT !.pc = pc]
         IN /\ t \in SideRecord
            /\ t.pc = pc /\ t.population = s.population /\ t.entries = s.entries
            /\ t.left = s.left /\ t.began = s.began /\ t.known = s.known
            /\ \A n : Paid(t, n) = Paid(s, n) /\ Key(t, n) = Key(s, n)
<1> DEFINE t == [s EXCEPT !.pc = pc]
<1>1. /\ t \in SideRecord
      /\ t.pc = pc /\ t.population = s.population /\ t.entries = s.entries
      /\ t.left = s.left /\ t.began = s.began /\ t.known = s.known
  BY DEF SideRecord
<1> HIDE DEF t
<1>2. \A n : Paid(t, n) = Paid(s, n) /\ Key(t, n) = Key(s, n)
  BY <1>1 DEF Paid, Fetched, Key
<1> QED BY <1>1, <1>2 DEF t

LEMMA Older ==
  ASSUME NEW s \in SideRecord, s.left > 0
  PROVE  LET t == [s EXCEPT !.left = @ - 1]
         IN /\ t \in SideRecord
            /\ t.pc = s.pc /\ t.population = s.population /\ t.entries = s.entries
            /\ t.left = s.left - 1 /\ t.began = s.began /\ t.known = s.known
            /\ \A n : Paid(t, n) = Paid(s, n) /\ Key(t, n) = Key(s, n)
<1> DEFINE t == [s EXCEPT !.left = @ - 1]
<1>1. /\ t \in SideRecord
      /\ t.pc = s.pc /\ t.population = s.population /\ t.entries = s.entries
      /\ t.left = s.left - 1 /\ t.began = s.began /\ t.known = s.known
  BY DEF SideRecord
<1> HIDE DEF t
<1>2. \A n : Paid(t, n) = Paid(s, n) /\ Key(t, n) = Key(s, n)
  BY <1>1 DEF Paid, Fetched, Key
<1> QED BY <1>1, <1>2 DEF t

LEMMA SideOKGrows ==
  ASSUME NEW s, NEW x, NEW filled, NEW more, filled \subseteq more, SideOK(s, x, filled)
  PROVE  SideOK(s, x, more)
  BY DEF SideOK

(* No step of the resolver takes anything out of its cache. *)
LEMMA FilledGrows ==
  ASSUME IInv, [Next]_vars
  PROVE  Filled \subseteq Filled'
<1>1. CASE UNCHANGED cache
  BY <1>1 DEF Filled
<1>2. CASE ~UNCHANGED cache
  <2>1. PICK c \in Callers, candidate \in Candidates :
          /\ ReceiveCandidate(c, candidate)
          /\ cache' = [cache EXCEPT ![ExactContentCoordinate(call[c].manifest)] =
                         [source |-> call[c].index, candidate |-> candidate]]
    BY <1>2 DEF Next, vars, Resolve, ReceiveCandidate, ReceiveFailure, TimeOut,
                Escape, Cancel, Elapse
  <2> DEFINE entry == [source |-> call[c].index, candidate |-> candidate]
  <2>2. call[c].index \in 1..NSources
    BY <2>1, FetchingIsOK DEF ReceiveCandidate, FetchingOK, FetchingCall
  <2>3. entry \in Entry /\ entry # NoEntry
    BY <2>2, EntryAssumption DEF Entry
  <2> HIDE DEF entry
  <2>4. cache' = [cache EXCEPT ![ExactContentCoordinate(call[c].manifest)] = entry]
    BY <2>1 DEF entry
  <2> QED BY <2>3, <2>4 DEF Filled, IInv, CacheOK
<1> QED BY <1>1, <1>2

(* One side and its call change, and the cache only grows. *)
LEMMA OneSide ==
  ASSUME SideInv, IInv', Filled \subseteq Filled',
         NEW c \in Callers, NEW s, NEW x,
         side' = [side EXCEPT ![c] = s], call' = [call EXCEPT ![c] = x],
         SideOK(s, x, Filled')
  PROVE  SideInv'
<1>1. side' \in [Callers -> SideRecord]
  BY DEF SideInv, SideOK
<1>2. ASSUME NEW d \in Callers PROVE SideOK(side'[d], call'[d], Filled')
  <2>1. CASE d = c
    BY <2>1 DEF SideInv, IInv, CallsOK
  <2>2. CASE d # c
    <3>1. side'[d] = side[d] /\ call'[d] = call[d]
      BY <2>2 DEF SideInv, IInv, CallsOK
    <3> QED BY <3>1, SideOKGrows DEF SideInv
  <2> QED BY <2>1, <2>2
<1> QED BY <1>1, <1>2 DEF SideInv

LEMMA OnlyTheSide ==
  ASSUME SideInv, NEW c \in Callers, NEW s, SideOK(s, call[c], Filled),
         side' = [side EXCEPT ![c] = s], UNCHANGED vars
  PROVE  SideInv'
<1>1. IInv' /\ Filled' = Filled
  BY NextIInv DEF SideInv, vars, Filled
<1>2. call' = [call EXCEPT ![c] = call[c]]
  BY DEF SideInv, IInv, CallsOK, vars
<1>3. SideOK(s, call[c], Filled')
  BY <1>1
<1> QED BY <1>1, <1>2, <1>3, OneSide

-----------------------------------------------------------------------------
(* A further request of a call is for the same Manifest, at the same time, *)
(* with a timeout of its own.                                              *)
Continues(f, x) ==
  /\ x.manifest = f.manifest
  /\ x.left = f.left /\ x.left > 0
  /\ x.timer = Shorter(RequestTimeout, x.left) /\ x.timer <= x.left

LEMMA MoveOnKeeps ==
  ASSUME NEW f \in FetchingCall, NEW attempt, MoveOn(f, attempt).pc = "fetching"
  PROVE  Continues(f, MoveOn(f, attempt))
<1> DEFINE attempts == Append(f.attempts, attempt)
<1>1. f.index \in 1..NSources /\ f.left \in 0..TotalDeadline
  BY DEF FetchingCall
<1>2. CASE f.index < NSources /\ f.left > 0
  <2>1. MoveOn(f, attempt) = Fetch(f.manifest, f.index + 1, attempts, f.left)
    BY <1>1, <1>2, ConfigAssumption DEF MoveOn
  <2>2. /\ MoveOn(f, attempt).manifest = f.manifest
        /\ MoveOn(f, attempt).left = f.left
        /\ MoveOn(f, attempt).timer = Shorter(RequestTimeout, f.left)
    BY <2>1 DEF Fetch
  <2>3. Shorter(RequestTimeout, f.left) <= f.left
    BY <1>1, ConfigAssumption DEF Shorter
  <2> QED BY <2>2, <2>3, <1>2 DEF Continues
<1>3. CASE f.index = NSources
  <2>1. MoveOn(f, attempt) = Unresolved(f.manifest, attempts)
    BY <1>1, <1>3, ConfigAssumption DEF MoveOn
  <2> QED BY <2>1 DEF Unresolved
<1>4. CASE f.index < NSources /\ f.left = 0
  <2>1. MoveOn(f, attempt) = Unresolved(f.manifest, Append(attempts, DeadlineExceeded))
    BY <1>1, <1>4, ConfigAssumption DEF MoveOn
  <2> QED BY <2>1 DEF Unresolved
<1> QED BY <1>1, <1>2, <1>3, <1>4, ConfigAssumption

(* What a source, or its timeout, makes of a call. *)
LEMMA SourceStepCall ==
  ASSUME IInv, NEW c \in Callers,
         \/ \E candidate \in Candidates : ReceiveCandidate(c, candidate)
         \/ \E code \in FailureCodes : ReceiveFailure(c, code)
         \/ TimeOut(c)
         \/ Escape(c)
  PROVE  /\ IsFetching(c)
         /\ \E x : /\ call' = [call EXCEPT ![c] = x]
                   /\ x.pc = "fetching" => Continues(call[c], x)
<1> DEFINE f == call[c]
           Good(x) == /\ call' = [call EXCEPT ![c] = x]
                      /\ x.pc = "fetching" => Continues(call[c], x)
<1>1. IsFetching(c)
  BY DEF ReceiveCandidate, ReceiveFailure, TimeOut, Escape
<1>2. f \in FetchingCall
  BY <1>1, FetchingIsOK DEF FetchingOK
<1>3. ASSUME NEW attempt, call' = [call EXCEPT ![c] = MoveOn(f, attempt)]
      PROVE  \E x : Good(x)
  <2>1. Good(MoveOn(f, attempt))
    BY <1>2, <1>3, MoveOnKeeps
  <2> QED BY <2>1
<1>4. ASSUME NEW x, call' = [call EXCEPT ![c] = x], x.pc # "fetching"
      PROVE  \E y : Good(y)
  BY <1>4
<1> HIDE DEF Good
<1>5. ASSUME NEW candidate \in Candidates, ReceiveCandidate(c, candidate)
      PROVE  \E x : Good(x)
  <2> DEFINE answer == Available(f.manifest, BoundedAttempts(f.attempts),
                                 [source |-> f.index, candidate |-> candidate])
  <2>1. answer.pc # "fetching"
    BY DEF Available
  <2>2. \/ \E attempt : call' = [call EXCEPT ![c] = MoveOn(f, attempt)]
        \/ call' = [call EXCEPT ![c] = answer]
    BY <1>5 DEF ReceiveCandidate
  <2> HIDE DEF answer
  <2> QED BY <1>3, <1>4, <2>1, <2>2
<1>6. ASSUME NEW code \in FailureCodes, ReceiveFailure(c, code)
      PROVE  \E x : Good(x)
  BY <1>3, <1>6 DEF ReceiveFailure
<1>7. ASSUME TimeOut(c) PROVE \E x : Good(x)
  <2> DEFINE answer == Unresolved(f.manifest, Append(f.attempts, DeadlineExceeded))
  <2>1. answer.pc # "fetching"
    BY DEF Unresolved
  <2>2. \/ call' = [call EXCEPT ![c] = MoveOn(f, Failed(f.index, "SOURCE_UNAVAILABLE"))]
        \/ call' = [call EXCEPT ![c] = answer]
    BY <1>7 DEF TimeOut
  <2>3. CASE call' = [call EXCEPT ![c] = answer]
    <3> HIDE DEF answer
    <3> QED BY <1>4, <2>1, <2>3
  <2>4. CASE call' = [call EXCEPT ![c] = MoveOn(f, Failed(f.index, "SOURCE_UNAVAILABLE"))]
    BY <1>3, <2>4
  <2> QED BY <2>2, <2>3, <2>4
<1>8. ASSUME Escape(c) PROVE \E x : Good(x)
  <2> DEFINE stopped == [pc |-> "raised"]
  <2>1. call' = [call EXCEPT ![c] = stopped] /\ stopped.pc # "fetching"
    BY <1>8 DEF Escape
  <2> HIDE DEF stopped
  <2> QED BY <1>4, <2>1
<1> QED BY <1>1, <1>5, <1>6, <1>7, <1>8 DEF Good

-----------------------------------------------------------------------------
LEMMA SideInitInv == SideInit => SideInv
<1> SUFFICES ASSUME SideInit PROVE SideInv
  OBVIOUS
<1>1. IInv
  BY InitIInv DEF SideInit
<1>2. NoSide \in SideRecord
  BY DEF NoSide, SideRecord
<1>3. side \in [Callers -> SideRecord]
  BY <1>2 DEF SideInit
<1>4. ASSUME NEW c \in Callers PROVE SideOK(side[c], call[c], Filled)
  <2>1. side[c] = NoSide /\ call[c].pc = "idle"
    BY DEF SideInit, Init
  <2>2. /\ NoSide.pc = "idle" /\ NoSide.population = <<>> /\ NoSide.entries = <<>>
        /\ NoSide.known = {}
    BY DEF NoSide
  <2> QED BY <1>2, <2>1, <2>2 DEF SideOK
<1> QED BY <1>1, <1>3, <1>4 DEF SideInv

LEMMA BeginInv ==
  ASSUME SideInv, NEW c \in Callers, NEW population \in Populations, NEW spent \in Spent,
         Begin(c, population, spent)
  PROVE  SideInv'
<1> DEFINE s == [pc |-> "ready", population |-> population, entries |-> <<>>,
                 left |-> SideTicks - spent, began |-> SideTicks - spent, known |-> Known]
<1>1. population \in Seq(Manifests) /\ SideTicks - spent \in Nat
  BY SideAssumption
<1>2. Known = Filled /\ Filled \in SUBSET CacheKeys
  BY DEF Known, Filled
<1>3. s \in SideRecord
  BY <1>1, <1>2 DEF SideRecord
<1>4. /\ s.pc = "ready" /\ s.population = population /\ s.entries = <<>>
      /\ s.left = SideTicks - spent /\ s.began = s.left /\ s.known = Filled
  BY <1>2
<1>5. Paid(s, 0) \in Nat
  BY PaidMore
<1>6. call[c].pc # "fetching"
  BY DEF SideInv, SideOK, Begin, Running
<1>7. side' = [side EXCEPT ![c] = s] /\ UNCHANGED vars
  BY DEF Begin
<1> HIDE DEF s
<1>8. Len(s.entries) = 0 /\ s.began - s.left = 0 /\ Len(s.population) \in Nat
  BY <1>1, <1>4
<1>9. SideOK(s, call[c], Filled)
  BY <1>3, <1>4, <1>5, <1>6, <1>8 DEF SideOK
<1> QED BY <1>7, <1>9, OnlyTheSide

LEMMA AskNextInv ==
  ASSUME SideInv, NEW c \in Callers, AskNext(c)
  PROVE  SideInv' /\ Next
<1> DEFINE s == side[c]
           n == Len(s.entries)
           m == s.population[n + 1]
           t == [s EXCEPT !.pc = "waiting"]
           entry == cache[ExactContentCoordinate(m)]
           x == IF entry # NoEntry THEN Available(m, <<>>, entry)
                ELSE Fetch(m, 1, <<>>, TotalDeadline)
<1>1. s \in SideRecord /\ SideOK(s, call[c], Filled) /\ s.pc = "ready" /\ n < Len(s.population)
  BY DEF SideInv, AskNext
<1>2. n \in Nat /\ m \in Manifests
  BY <1>1 DEF SideRecord
<1>3. Resolve(c, m)
  BY DEF AskNext, NextManifest
<1>4. Next
  BY <1>2, <1>3 DEF Next
<1>5. IInv' /\ Filled \subseteq Filled'
  BY <1>4, NextIInv, FilledGrows DEF SideInv
<1>6. call' = [call EXCEPT ![c] = x] /\ side' = [side EXCEPT ![c] = t]
  BY <1>3 DEF Resolve, AskNext
<1>7. /\ t \in SideRecord /\ t.pc = "waiting" /\ t.population = s.population
      /\ t.entries = s.entries /\ t.left = s.left /\ t.began = s.began /\ t.known = s.known
      /\ \A i : Paid(t, i) = Paid(s, i) /\ Key(t, i) = Key(s, i)
  BY <1>1, Moved
<1>8. Key(s, n + 1) = ExactContentCoordinate(m) /\ ExactContentCoordinate(m) \in CacheKeys
  BY <1>2 DEF Key, CacheKeys
<1>9. /\ s.left \in Nat /\ s.began \in Nat
      /\ s.began - s.left <= Paid(s, n) /\ Paid(s, n) \in Nat /\ Paid(s, n + 1) \in Nat
      /\ TotalDeadline \in Nat
      /\ Key(s, n + 1) \in s.known => Paid(s, n + 1) = Paid(s, n)
      /\ Key(s, n + 1) \notin s.known => Paid(s, n + 1) = Paid(s, n) + TotalDeadline
  BY <1>1, <1>2, PaidMore, ConfigAssumption DEF SideOK, SideRecord
<1>10. s.began - s.left <= Paid(s, n + 1)
  BY <1>9
<1> HIDE DEF s, t
<1>11. CASE entry # NoEntry
  <2>1. x.pc = "returned" /\ x.state = "AVAILABLE"
    BY <1>11 DEF Available
  <2> HIDE DEF x, n
  <2>2. SideOK(t, x, Filled)
    BY <1>1, <1>7, <1>10, <2>1 DEF SideOK, n
  <2> QED BY <1>4, <1>5, <1>6, <2>2, SideOKGrows, OneSide
<1>12. CASE entry = NoEntry
  <2>1. /\ x.pc = "fetching" /\ x.manifest = m /\ x.left = TotalDeadline
        /\ x.timer = Shorter(RequestTimeout, TotalDeadline)
    BY <1>12 DEF Fetch
  <2>2. x.timer <= x.left
    BY <2>1, ConfigAssumption DEF Shorter
  <2>3. Key(s, n + 1) \notin s.known
    BY <1>1, <1>8, <1>12 DEF SideOK, Filled
  <2>4. s.began - s.left <= Paid(s, n + 1) - x.left
    BY <1>9, <2>1, <2>3
  <2> HIDE DEF x, n
  <2>5. SideOK(t, x, Filled)
    BY <1>1, <1>7, <1>10, <2>1, <2>2, <2>3, <2>4 DEF SideOK, n
  <2> QED BY <1>4, <1>5, <1>6, <2>5, SideOKGrows, OneSide
<1> QED BY <1>11, <1>12
LEMMA CollectInv ==
  ASSUME SideInv, NEW c \in Callers, Collect(c)
  PROVE  SideInv'
<1> DEFINE s == side[c]
           n == Len(s.entries)
           state == call[c].state
           t == [s EXCEPT !.pc = "ready", !.entries = Append(@, state)]
<1>1. s \in SideRecord /\ SideOK(s, call[c], Filled) /\ s.pc = "waiting"
  BY DEF SideInv, Collect
<1>2. call[c].pc = "returned" /\ state \in {"AVAILABLE", "NOT_FOUND", "UNAVAILABLE"}
  BY AnswerIsOK DEF SideInv, Collect, AnswerOK, ReturnedCall
<1> HIDE DEF state
<1>3. s.entries \in Seq({"AVAILABLE", "NOT_FOUND", "UNAVAILABLE"}) /\ n \in Nat
  BY <1>1 DEF SideRecord
<1>4. /\ Append(s.entries, state) \in Seq({"AVAILABLE", "NOT_FOUND", "UNAVAILABLE"})
      /\ Len(Append(s.entries, state)) = n + 1
      /\ Append(s.entries, state)[n + 1] = state
      /\ \A i \in 1..n : Append(s.entries, state)[i] = s.entries[i]
  BY <1>2, <1>3
<1>5. /\ t \in SideRecord /\ t.pc = "ready" /\ t.population = s.population
      /\ t.entries = Append(s.entries, state)
      /\ t.left = s.left /\ t.began = s.began /\ t.known = s.known
  <2> DEFINE entries == Append(s.entries, state)
  <2> HIDE DEF entries
  <2> QED BY <1>1, <1>4 DEF SideRecord, entries
<1>6. side' = [side EXCEPT ![c] = t] /\ UNCHANGED vars
  BY DEF Collect, state
<1> HIDE DEF s, t
<1>7. \A i : Paid(t, i) = Paid(s, i) /\ Key(t, i) = Key(s, i)
  BY <1>5 DEF Paid, Fetched, Key
<1>8. Len(t.entries) = n + 1
  BY <1>4, <1>5
<1>9. /\ n + 1 <= Len(s.population) /\ s.began - s.left <= Paid(s, n + 1)
      /\ Key(s, n + 1) \in s.known => state = "AVAILABLE"
  BY <1>1, <1>2, <1>3 DEF SideOK, SideRecord, state
<1>10. ASSUME NEW i \in 1..Len(t.entries), Key(t, i) \in t.known
       PROVE  t.entries[i] = "AVAILABLE"
  <2>1. CASE i = n + 1
    BY <2>1, <1>4, <1>5, <1>7, <1>9, <1>10
  <2>2. CASE i # n + 1
    <3>1. i \in 1..n
      BY <2>2, <1>3, <1>8, <1>10
    <3> QED BY <3>1, <1>1, <1>4, <1>5, <1>7, <1>10 DEF SideOK
  <2> QED BY <2>1, <2>2
<1>11. SideOK(t, call[c], Filled)
  <2> HIDE DEF n
  <2> QED BY <1>1, <1>2, <1>5, <1>7, <1>8, <1>9, <1>10 DEF SideOK
<1> QED BY <1>6, <1>11, OnlyTheSide

(* A side goes on, or ends, without the resolver. *)
LEMMA GoOnInv ==
  ASSUME SideInv, NEW c \in Callers,
         Propagate(c) \/ Observe(c) \/ Finish(c) \/ ObservedTooLong(c)
  PROVE  SideInv'
<1>1. PICK pc \in {"raised", "observing", "done", "failed"} :
        /\ side' = [side EXCEPT ![c] = [side[c] EXCEPT !.pc = pc]]
        /\ pc \in {"observing", "failed"} => Len(side[c].entries) = Len(side[c].population)
  BY DEF Propagate, Observe, Finish, ObservedTooLong, SideInv, SideOK
<1>2. UNCHANGED vars /\ call[c].pc # "fetching"
  BY DEF Propagate, Observe, Finish, ObservedTooLong, SideInv, SideOK
<1> DEFINE s == side[c]
           t == [s EXCEPT !.pc = pc]
<1>3. s \in SideRecord /\ SideOK(s, call[c], Filled)
  BY DEF SideInv
<1>4. /\ t \in SideRecord /\ t.pc = pc /\ t.population = s.population
      /\ t.entries = s.entries /\ t.left = s.left /\ t.began = s.began /\ t.known = s.known
      /\ \A i : Paid(t, i) = Paid(s, i) /\ Key(t, i) = Key(s, i)
  <2>1. pc \in {"idle", "ready", "waiting", "observing", "done", "failed", "raised"}
    OBVIOUS
  <2> QED BY <1>3, <2>1, Moved
<1>5. side' = [side EXCEPT ![c] = t]
  BY <1>1
<1>6. pc \in {"observing", "failed"} => Len(s.entries) = Len(s.population)
  BY <1>1
<1> HIDE DEF s, t
<1>7. Len(s.population) \in Nat
  BY <1>3 DEF SideRecord
<1>8. SideOK(t, call[c], Filled)
  BY <1>2, <1>3, <1>4, <1>6, <1>7 DEF SideOK
<1> QED BY <1>2, <1>5, <1>8, OnlyTheSide

LEMMA SourceStepInv ==
  ASSUME SideInv, NEW c \in Callers, SourceStep(c)
  PROVE  SideInv' /\ Next
<1> DEFINE s == side[c]
<1>1. Next
  BY DEF SourceStep, Next
<1>2. IInv' /\ Filled \subseteq Filled'
  BY <1>1, NextIInv, FilledGrows DEF SideInv
<1>3. /\ IsFetching(c)
      /\ \E x : /\ call' = [call EXCEPT ![c] = x]
                /\ x.pc = "fetching" => Continues(call[c], x)
  BY SourceStepCall DEF SourceStep, SideInv
<1>4. PICK x : /\ call' = [call EXCEPT ![c] = x]
               /\ x.pc = "fetching" => Continues(call[c], x)
  BY <1>3
<1>5. SideOK(s, call[c], Filled)
  BY DEF SideInv
<1>6. side' = [side EXCEPT ![c] = s]
  BY DEF SourceStep, SideInv
<1> HIDE DEF s
<1>7. SideOK(s, x, Filled)
  BY <1>3, <1>4, <1>5 DEF SideOK, IsFetching, Continues
<1> QED BY <1>1, <1>2, <1>4, <1>6, <1>7, SideOKGrows, OneSide

LEMMA CancelAtDeadlineInv ==
  ASSUME SideInv, NEW c \in Callers, CancelAtDeadline(c)
  PROVE  SideInv' /\ Next
<1> DEFINE s == side[c]
           t == [s EXCEPT !.pc = "failed"]
           x == [pc |-> "cancelled"]
<1>1. Next
  BY DEF CancelAtDeadline, Next
<1>2. IInv' /\ Filled \subseteq Filled'
  BY <1>1, NextIInv, FilledGrows DEF SideInv
<1>3. /\ call' = [call EXCEPT ![c] = x] /\ side' = [side EXCEPT ![c] = t]
      /\ s.pc = "waiting" /\ s.left = 0 /\ x.pc = "cancelled"
  BY DEF CancelAtDeadline, Cancel
<1>4. s \in SideRecord /\ SideOK(s, call[c], Filled)
  BY DEF SideInv
<1>5. /\ t \in SideRecord /\ t.pc = "failed" /\ t.population = s.population
      /\ t.entries = s.entries /\ t.left = s.left /\ t.began = s.began /\ t.known = s.known
      /\ \A i : Paid(t, i) = Paid(s, i) /\ Key(t, i) = Key(s, i)
  BY <1>4, Moved
<1> HIDE DEF s, t, x
<1>6. s.began - s.left = s.began
  BY <1>3, <1>4 DEF SideRecord
<1>7. SideOK(t, x, Filled)
  BY <1>3, <1>4, <1>5, <1>6 DEF SideOK
<1> QED BY <1>1, <1>2, <1>3, <1>7, SideOKGrows, OneSide

(* A tick takes from a side what it takes from the fetch the side awaits.  *)
LEMMA TickInv ==
  ASSUME SideInv, Tick
  PROVE  SideInv' /\ [Next]_vars
<1>1. [Next]_vars
  BY DEF Tick, Next
<1>2. IInv' /\ Filled \subseteq Filled'
  BY <1>1, NextIInv, FilledGrows DEF SideInv
<1>3. ASSUME NEW c \in Callers
      PROVE  side'[c] \in SideRecord /\ SideOK(side'[c], call'[c], Filled)
  <2> DEFINE s == side[c]
             t == [s EXCEPT !.left = @ - 1]
  <2>1. s \in SideRecord /\ SideOK(s, call[c], Filled)
    BY DEF SideInv
  <2>2. Running(c) => s.left > 0
    BY DEF Tick
  <2>3. Running(c) => /\ t \in SideRecord /\ t.pc = s.pc /\ t.population = s.population
                      /\ t.entries = s.entries /\ t.left = s.left - 1
                      /\ t.began = s.began /\ t.known = s.known
                      /\ \A i : Paid(t, i) = Paid(s, i) /\ Key(t, i) = Key(s, i)
    BY <2>1, <2>2, Older
  <2>4. side'[c] = IF Running(c) THEN t ELSE s
    BY DEF Tick
  <2>5. CASE IsFetching(c)
    <3> DEFINE f == call[c]
               x == [f EXCEPT !.left = IF @ > 0 THEN @ - 1 ELSE 0,
                              !.timer = IF @ > 0 THEN @ - 1 ELSE 0]
    <3>1. Elapse /\ f.timer > 0
      BY <2>5 DEF Tick
    <3>2. f \in FetchingCall
      BY <2>5, FetchingIsOK DEF SideInv, FetchingOK
    <3>3. s.pc = "waiting" /\ Running(c) /\ f.timer <= f.left
      BY <2>1, <2>5 DEF SideOK, IsFetching, Running
    <3>4. f.left \in Nat /\ f.timer \in Nat /\ f.left > 0
      BY <3>1, <3>2, <3>3, ConfigAssumption DEF FetchingCall
    <3>5. /\ x.pc = f.pc /\ x.manifest = f.manifest
          /\ x.left = f.left - 1 /\ x.timer = f.timer - 1
      <4> DEFINE once == [f EXCEPT !.left = IF @ > 0 THEN @ - 1 ELSE 0]
      <4>1. /\ once.pc = f.pc /\ once.manifest = f.manifest /\ once.timer = f.timer
            /\ once.left = f.left - 1
            /\ DOMAIN once = {"pc", "manifest", "index", "attempts", "left", "timer"}
        BY <3>2, <3>4 DEF FetchingCall
      <4>2. x = [once EXCEPT !.timer = IF @ > 0 THEN @ - 1 ELSE 0]
        OBVIOUS
      <4> HIDE DEF once, x
      <4> QED BY <3>1, <4>1, <4>2
    <3>6. call'[c] = x
      BY <2>5, <3>1 DEF Elapse
    <3>7. side'[c] = t
      BY <2>4, <3>3
    <3>8. s.left \in Nat /\ s.began \in Nat /\ Len(s.entries) \in Nat
      BY <2>1 DEF SideRecord
    <3>9. Paid(s, Len(s.entries) + 1) \in Nat
      BY <3>8, PaidMore
    <3>10. /\ s.began - s.left <= Paid(s, Len(s.entries) + 1) - f.left
           /\ f.manifest = s.population[Len(s.entries) + 1]
           /\ Key(s, Len(s.entries) + 1) \notin s.known
      BY <2>1, <2>5 DEF SideOK, IsFetching
    <3>11. /\ s.began - (s.left - 1) <= Paid(s, Len(s.entries) + 1) - (f.left - 1)
           /\ s.began - (s.left - 1) <= Paid(s, Len(s.entries) + 1)
           /\ f.timer - 1 <= f.left - 1
      <4>1. \A began, left, paid, rest \in Nat :
              began - left <= paid - rest /\ rest > 0
                => /\ began - (left - 1) <= paid - (rest - 1)
                   /\ began - (left - 1) <= paid
        OBVIOUS
      <4> HIDE DEF s, f
      <4> QED BY <3>3, <3>4, <3>8, <3>9, <3>10, <4>1
    <3> HIDE DEF s, t, x, f
    <3>12. SideOK(t, x, Filled)
      BY <2>1, <2>3, <3>3, <3>5, <3>10, <3>11 DEF SideOK
    <3> QED BY <2>3, <3>3, <3>6, <3>7, <3>12
  <2>6. CASE ~IsFetching(c)
    <3>1. call'[c] = call[c] /\ call[c].pc # "fetching"
      BY <2>6 DEF Tick, Elapse, vars, IsFetching
    <3>2. s.pc \notin {"ready", "waiting"}
      BY <2>6 DEF Tick, Urgent
    <3> HIDE DEF s, t
    <3>3. CASE Running(c)
      <4>1. SideOK(t, call[c], Filled)
        <5>1. s.pc = "observing"
          BY <3>2, <3>3 DEF Running, s
        <5> QED BY <2>1, <2>3, <3>1, <3>3, <5>1 DEF SideOK
      <4> QED BY <2>3, <2>4, <3>1, <3>3, <4>1
    <3>4. CASE ~Running(c)
      BY <2>1, <2>4, <3>1, <3>4
    <3> QED BY <3>3, <3>4
  <2> QED BY <2>5, <2>6
<1>4. side' \in [Callers -> SideRecord]
  BY <1>3 DEF Tick
<1>5. \A c \in Callers : SideOK(side'[c], call'[c], Filled')
  BY <1>2, <1>3, SideOKGrows
<1> QED BY <1>1, <1>2, <1>4, <1>5 DEF SideInv

(* Every step of the sides keeps the invariant and is a step of the        *)
(* resolver, or none of its business.                                      *)
LEMMA StepInv ==
  ASSUME SideInv, [SideNext]_sideVars
  PROVE  SideInv' /\ [Next]_vars
<1>1. ASSUME NEW c \in Callers, NEW population \in Populations, NEW spent \in Spent,
             Begin(c, population, spent)
      PROVE  SideInv' /\ UNCHANGED vars
  BY <1>1, BeginInv DEF Begin
<1>2. ASSUME NEW c \in Callers, AskNext(c) PROVE SideInv' /\ Next
  BY <1>2, AskNextInv
<1>3. ASSUME NEW c \in Callers, Collect(c) PROVE SideInv' /\ UNCHANGED vars
  BY <1>3, CollectInv DEF Collect
<1>4. ASSUME NEW c \in Callers,
             Propagate(c) \/ Observe(c) \/ Finish(c) \/ ObservedTooLong(c)
      PROVE  SideInv' /\ UNCHANGED vars
  BY <1>4, GoOnInv DEF Propagate, Observe, Finish, ObservedTooLong
<1>5. ASSUME NEW c \in Callers, SourceStep(c) PROVE SideInv' /\ Next
  BY <1>5, SourceStepInv
<1>9. ASSUME side' = side, UNCHANGED vars PROVE SideInv'
  <2>1. IInv' /\ Filled' = Filled
    BY <1>9, NextIInv DEF SideInv, vars, Filled
  <2> QED BY <1>9, <2>1 DEF SideInv, vars
<1>10. ASSUME NEW c \in Callers, CheckArchive(c) PROVE SideInv' /\ UNCHANGED vars
  <2>1. side' = side /\ UNCHANGED vars
    BY <1>10 DEF CheckArchive
  <2> QED BY <1>9, <2>1
<1>11. ASSUME NEW w \in Workers, EndUnnoticed(w) PROVE SideInv' /\ UNCHANGED vars
  <2>1. side' = side /\ UNCHANGED vars
    BY <1>11 DEF EndUnnoticed
  <2> QED BY <1>9, <2>1
<1>6. ASSUME NEW c \in Callers, CancelAtDeadline(c) PROVE SideInv' /\ Next
  BY <1>6, CancelAtDeadlineInv
<1>7. CASE Tick
  BY <1>7, TickInv
<1>8. CASE UNCHANGED sideVars
  <2>1. side' = side /\ UNCHANGED vars
    BY <1>8 DEF sideVars, vars
  <2> QED BY <1>9, <2>1
<1> QED BY <1>1, <1>2, <1>3, <1>4, <1>5, <1>6, <1>7, <1>8, <1>10, <1>11 DEF SideNext

(* The invariant of the sides holds in every reachable state.              *)
THEOREM SideInvariance == SideSpec => []SideInv
<1>1. SideInv /\ [SideNext]_sideVars => SideInv'
  BY StepInv
<1> QED BY <1>1, SideInitInv, PTL DEF SideSpec

(* The sides use the resolver as its own specification says it may be      *)
(* used: whatever is proved of WorkflowSources holds under their deadlines.*)
THEOREM SidesRunTheResolver == SideSpec => Spec
<1>1. SideInit => Init
  BY DEF SideInit
<1>2. SideInv /\ [SideNext]_sideVars => [Next]_vars
  BY StepInv
<1> QED BY <1>1, <1>2, SideInvariance, PTL DEF SideSpec, Spec

-----------------------------------------------------------------------------
(***************************************************************************)
(* The threads a side leaves behind.  Of the n it has abandoned so far,    *)
(* overdue ones ended a resolution that ran into its total deadline; the   *)
(* others lasted a whole request timeout each.  While a fetch is in        *)
(* progress, the time of its resolution is not yet spent on a total        *)
(* deadline, and its own time is not yet spent on a request timeout,       *)
(* unless the timer is the rest of the deadline.                           *)
(***************************************************************************)
(* A product that the steps below reason about by the facts of Multiples.  *)
Times(time, k) == time * k

Split(spent, n, overdue) ==
  /\ overdue \in 0..n
  /\ Times(TotalDeadline, overdue) <= spent
  /\ Times(RequestTimeout, n - overdue) <= spent

Unspent(spent, n, overdue, x) ==
  /\ Times(TotalDeadline, overdue) + (TotalDeadline - x.left) <= spent
  /\ \/ x.timer = x.left
     \/ Times(RequestTimeout, n - overdue) + (RequestTimeout - x.timer) <= spent

SplitAtTheEnd(spent, n, overdue) ==
  /\ overdue \in 0..n
  /\ Times(TotalDeadline, overdue) <= spent
  /\ Times(RequestTimeout, n - overdue - 1) <= spent

BehindOK(s, x, n) ==
  /\ n \in Nat
  /\ \E overdue \in 0..n :
       IF s.pc = "failed" THEN SplitAtTheEnd(s.began - s.left, n, overdue)
       ELSE /\ Split(s.began - s.left, n, overdue)
            /\ x.pc = "fetching" => Unspent(s.began - s.left, n, overdue, x)

BehindInv ==
  /\ abandoned \in [Callers -> Nat]
  /\ \A c \in Callers : BehindOK(side[c], call[c], abandoned[c])

LEMMA Multiples ==
  ASSUME NEW k \in Int
  PROVE  /\ RequestTimeout \in Nat /\ RequestTimeout > 0
         /\ TotalDeadline \in Nat /\ TotalDeadline > 0
         /\ Times(RequestTimeout, k) \in Int /\ Times(TotalDeadline, k) \in Int
         /\ Times(RequestTimeout, k + 1) = Times(RequestTimeout, k) + RequestTimeout
         /\ Times(RequestTimeout, k - 1) = Times(RequestTimeout, k) - RequestTimeout
         /\ Times(TotalDeadline, k + 1) = Times(TotalDeadline, k) + TotalDeadline
         /\ Times(RequestTimeout, 0) = 0 /\ Times(TotalDeadline, 0) = 0
<1>1. \A r \in Nat : r * 0 = 0
  OBVIOUS
<1>2. \A r \in Nat, m \in Int : /\ r * m \in Int
                              /\ r * (m + 1) = r * m + r
                              /\ r * (m - 1) = r * m - r
  OBVIOUS
<1>3. RequestTimeout \in Nat /\ RequestTimeout > 0 /\ TotalDeadline \in Nat /\ TotalDeadline > 0
  BY ConfigAssumption
<1> QED BY <1>1, <1>2, <1>3 DEF Times

LEMMA Products ==
  ASSUME NEW k \in Int
  PROVE  /\ RequestTimeout \in Int /\ TotalDeadline \in Int
         /\ Times(RequestTimeout, k) \in Int /\ Times(TotalDeadline, k) \in Int
BY Multiples

(* One side, its call and its count change. *)
LEMMA OneBehind ==
  ASSUME SideInv, BehindInv, NEW c \in Callers, NEW s, NEW x, NEW n,
         side' = [side EXCEPT ![c] = s], call' = [call EXCEPT ![c] = x],
         abandoned' = [abandoned EXCEPT ![c] = n], BehindOK(s, x, n)
  PROVE  BehindInv'
<1>1. abandoned' \in [Callers -> Nat]
  BY DEF BehindInv, BehindOK
<1>2. ASSUME NEW d \in Callers PROVE BehindOK(side'[d], call'[d], abandoned'[d])
  <2>1. CASE d = c
    BY <2>1 DEF SideInv, IInv, CallsOK, BehindInv
  <2>2. CASE d # c
    <3>1. side'[d] = side[d] /\ call'[d] = call[d] /\ abandoned'[d] = abandoned[d]
      BY <2>2 DEF SideInv, IInv, CallsOK, BehindInv
    <3> QED BY <3>1 DEF BehindInv
  <2> QED BY <2>1, <2>2
<1> QED BY <1>1, <1>2 DEF BehindInv

LEMMA BehindInitially == SideInit => BehindInv
<1> SUFFICES ASSUME SideInit PROVE BehindInv
  OBVIOUS
<1>1. abandoned \in [Callers -> Nat]
  BY DEF SideInit
<1>2. ASSUME NEW c \in Callers PROVE BehindOK(side[c], call[c], abandoned[c])
  <2>1. side[c] = NoSide /\ call[c].pc = "idle" /\ abandoned[c] = 0
    BY DEF SideInit, Init
  <2>2. NoSide.pc = "idle" /\ NoSide.began - NoSide.left = 0
    BY DEF NoSide
  <2>3. Split(0, 0, 0)
    BY Multiples DEF Split
  <2> QED BY <2>1, <2>2, <2>3 DEF BehindOK
<1> QED BY <1>1, <1>2 DEF BehindInv

LEMMA BeginBehind ==
  ASSUME SideInv, BehindInv, NEW c \in Callers, NEW population \in Populations,
         NEW spent \in Spent, Begin(c, population, spent)
  PROVE  BehindInv'
<1> DEFINE s == [pc |-> "ready", population |-> population, entries |-> <<>>,
                 left |-> SideTicks - spent, began |-> SideTicks - spent, known |-> Known]
<1>1. s.pc = "ready" /\ s.began - s.left = 0
  BY SideAssumption
<1>2. call[c].pc # "fetching"
  BY DEF SideInv, SideOK, Begin, Running
<1>3. /\ side' = [side EXCEPT ![c] = s]
      /\ abandoned' = [abandoned EXCEPT ![c] = 0]
      /\ call' = [call EXCEPT ![c] = call[c]]
  BY DEF Begin, vars, SideInv, IInv, CallsOK
<1> HIDE DEF s
<1>4. Split(0, 0, 0)
  BY Multiples DEF Split
<1>5. BehindOK(s, call[c], 0)
  BY <1>1, <1>2, <1>4 DEF BehindOK
<1> QED BY <1>3, <1>5, OneBehind

LEMMA AskNextBehind ==
  ASSUME SideInv, BehindInv, NEW c \in Callers, AskNext(c)
  PROVE  BehindInv'
<1> DEFINE s == side[c]
           n == abandoned[c]
           m == NextManifest(c)
           t == [s EXCEPT !.pc = "waiting"]
           entry == cache[ExactContentCoordinate(m)]
           x == IF entry # NoEntry THEN Available(m, <<>>, entry)
                ELSE Fetch(m, 1, <<>>, TotalDeadline)
<1>1. s \in SideRecord /\ s.pc = "ready" /\ BehindOK(s, call[c], n) /\ n \in Nat
  BY DEF SideInv, AskNext, BehindInv
<1>2. t.pc = "waiting" /\ t.began = s.began /\ t.left = s.left
  BY <1>1, Moved
<1>3. /\ side' = [side EXCEPT ![c] = t] /\ call' = [call EXCEPT ![c] = x]
      /\ abandoned' = [abandoned EXCEPT ![c] = n]
  BY DEF AskNext, Resolve, threads, BehindInv
<1>4. x.pc = "fetching" => /\ x.left = TotalDeadline
                           /\ x.timer = Shorter(RequestTimeout, TotalDeadline)
  BY DEF Available, Fetch
<1>5. s.began - s.left \in Int
  BY <1>1 DEF SideRecord
<1> HIDE DEF s, t, x, n
<1>6. PICK overdue \in 0..n : Split(s.began - s.left, n, overdue)
  BY <1>1 DEF BehindOK
<1>7. x.pc = "fetching" => Unspent(s.began - s.left, n, overdue, x)
  <2> SUFFICES ASSUME x.pc = "fetching" PROVE Unspent(s.began - s.left, n, overdue, x)
    OBVIOUS
  <2>1. Times(TotalDeadline, overdue) + (TotalDeadline - x.left) <= s.began - s.left
    <3>1. TotalDeadline \in Int /\ Times(TotalDeadline, overdue) \in Int
      BY <1>1, Products
    <3> QED BY <1>4, <1>5, <1>6, <3>1 DEF Split
  <2>2. \/ x.timer = x.left
        \/ x.timer = RequestTimeout
    BY <1>4 DEF Shorter
  <2>3. Times(RequestTimeout, n - overdue) + (RequestTimeout - RequestTimeout) <= s.began - s.left
    <3>1. RequestTimeout \in Int /\ Times(RequestTimeout, n - overdue) \in Int
      BY <1>1, Products
    <3> QED BY <1>5, <1>6, <3>1 DEF Split
  <2> QED BY <2>1, <2>2, <2>3 DEF Unspent
<1>8. BehindOK(t, x, n)
  BY <1>1, <1>2, <1>6, <1>7 DEF BehindOK
<1> QED BY <1>3, <1>8, OneBehind

(* A side goes on, or ends, without the resolver. *)
LEMMA GoOnBehind ==
  ASSUME SideInv, BehindInv, NEW c \in Callers,
         Collect(c) \/ Propagate(c) \/ Observe(c) \/ Finish(c) \/ ObservedTooLong(c)
  PROVE  BehindInv'
<1> DEFINE s == side[c]
           n == abandoned[c]
<1>1. s \in SideRecord /\ s.pc # "failed" /\ BehindOK(s, call[c], n) /\ n \in Nat
  BY DEF SideInv, BehindInv, Collect, Propagate, Observe, Finish, ObservedTooLong
<1>2. \E t : /\ side' = [side EXCEPT ![c] = t]
             /\ t.began = s.began /\ t.left = s.left
  <2>1. CASE Collect(c)
    <3> DEFINE t == [s EXCEPT !.pc = "ready", !.entries = Append(@, call[c].state)]
    <3>1. side' = [side EXCEPT ![c] = t]
      BY <2>1 DEF Collect
    <3>2. t.began = s.began /\ t.left = s.left
      BY <1>1 DEF SideRecord
    <3> QED BY <3>1, <3>2
  <2>2. CASE ~Collect(c)
    <3>1. PICK pc \in {"raised", "observing", "done", "failed"} :
            side' = [side EXCEPT ![c] = [side[c] EXCEPT !.pc = pc]]
      BY <2>2 DEF Propagate, Observe, Finish, ObservedTooLong
    <3> DEFINE t == [s EXCEPT !.pc = pc]
    <3>2. t.began = s.began /\ t.left = s.left
      BY <1>1 DEF SideRecord
    <3> QED BY <3>1, <3>2
  <2> QED BY <2>1, <2>2
<1>3. PICK t : /\ side' = [side EXCEPT ![c] = t]
               /\ t.began = s.began /\ t.left = s.left
  BY <1>2
<1>4. call[c].pc # "fetching" /\ UNCHANGED call /\ UNCHANGED abandoned
  BY DEF Collect, Propagate, Observe, Finish, ObservedTooLong, SideInv, SideOK, vars, threads
<1>5. /\ call' = [call EXCEPT ![c] = call[c]]
      /\ abandoned' = [abandoned EXCEPT ![c] = n]
  BY <1>4 DEF SideInv, IInv, CallsOK, BehindInv
<1>6. s.began - s.left \in Int
  BY <1>1 DEF SideRecord
<1> HIDE DEF s, n
<1>7. PICK overdue \in 0..n : Split(s.began - s.left, n, overdue)
  BY <1>1 DEF BehindOK
<1>8. SplitAtTheEnd(s.began - s.left, n, overdue)
  BY <1>1, <1>6, <1>7, Multiples DEF Split, SplitAtTheEnd
<1>9. BehindOK(t, call[c], n)
  BY <1>1, <1>3, <1>4, <1>7, <1>8 DEF BehindOK
<1> QED BY <1>3, <1>5, <1>9, OneBehind

(* The fetch of c ends, or another one follows; a timeout may leave a      *)
(* thread behind.                                                          *)
LEMMA SourceStepBehind ==
  ASSUME SideInv, BehindInv, NEW c \in Callers, SourceStep(c)
  PROVE  BehindInv'
<1> DEFINE s == side[c]
           f == call[c]
           n == abandoned[c]
           spent == s.began - s.left
<1>1. s \in SideRecord /\ BehindOK(s, f, n) /\ n \in Nat /\ SideOK(s, f, Filled)
  BY DEF SideInv, BehindInv
<1>2. f.pc = "fetching"
  BY SourceStepCall DEF SourceStep, SideInv, IsFetching
<1>3. PICK x : /\ call' = [call EXCEPT ![c] = x]
               /\ x.pc = "fetching" => Continues(call[c], x)
  BY SourceStepCall DEF SourceStep, SideInv
<1>4. side' = [side EXCEPT ![c] = s]
  BY DEF SourceStep, SideInv
<1>5. f.left \in Nat /\ f.timer \in Nat
  <2>1. f \in FetchingCall
    BY <1>2, FetchingIsOK DEF SideInv, FetchingOK, IsFetching
  <2> QED BY <2>1, ConfigAssumption DEF FetchingCall
<1>6. s.pc = "waiting" /\ spent \in Int
  BY <1>1, <1>2 DEF SideOK, SideRecord
<1>7. \/ abandoned' = [abandoned EXCEPT ![c] = n]
      \/ f.timer = 0 /\ abandoned' = [abandoned EXCEPT ![c] = n + 1]
  <2>1. CASE Joined(c)
    BY <2>1 DEF Joined, BehindInv
  <2>2. CASE TimeOut(c) /\ LeftBehind(c)
    BY <2>2 DEF TimeOut, LeftBehind, BehindInv
  <2> QED BY <2>1, <2>2 DEF SourceStep
<1> HIDE DEF s, f, n, spent
<1>8. PICK overdue \in 0..n : Split(spent, n, overdue) /\ Unspent(spent, n, overdue, f)
  BY <1>1, <1>2, <1>6 DEF BehindOK, spent
<1>9. ASSUME NEW k \in Nat, NEW more \in 0..k, Split(spent, k, more), x.pc = "fetching",
             Times(TotalDeadline, more) + (TotalDeadline - f.left) <= spent
      PROVE  Unspent(spent, k, more, x)
  <2>1. x.left = f.left /\ (x.timer = x.left \/ x.timer = RequestTimeout)
    BY <1>3, <1>9 DEF Continues, Shorter, f
  <2>2. Times(RequestTimeout, k - more) + (RequestTimeout - RequestTimeout) <= spent
    <3>1. RequestTimeout \in Int /\ Times(RequestTimeout, k - more) \in Int
      BY Products
    <3> QED BY <1>6, <1>9, <3>1 DEF Split
  <2> QED BY <1>9, <2>1, <2>2 DEF Unspent
<1>10. CASE abandoned' = [abandoned EXCEPT ![c] = n]
  <2>1. x.pc = "fetching" => Unspent(spent, n, overdue, x)
    BY <1>1, <1>8, <1>9 DEF Unspent
  <2>2. BehindOK(s, x, n)
    BY <1>1, <1>6, <1>8, <2>1 DEF BehindOK, spent
  <2> QED BY <1>3, <1>4, <1>10, <2>2, OneBehind
<1>11. CASE f.timer = 0 /\ abandoned' = [abandoned EXCEPT ![c] = n + 1]
  <2>1. CASE f.left = 0
    <3>1. x.pc # "fetching"
      BY <1>3, <1>5, <2>1 DEF Continues, f
    <3>2. overdue + 1 \in 0..(n + 1) /\ (n + 1) - (overdue + 1) = n - overdue
      BY <1>1
    <3>3. Times(TotalDeadline, overdue + 1) <= spent
      <4>1. Times(TotalDeadline, overdue + 1) = Times(TotalDeadline, overdue) + TotalDeadline
        BY <1>1, Multiples
      <4>2. TotalDeadline \in Int /\ Times(TotalDeadline, overdue) \in Int
        BY <1>1, Products
      <4> QED BY <1>6, <1>8, <2>1, <4>1, <4>2 DEF Unspent
    <3>4. Split(spent, n + 1, overdue + 1)
      <4>1. Times(RequestTimeout, (n + 1) - (overdue + 1)) = Times(RequestTimeout, n - overdue)
        BY <3>2
      <4> QED BY <1>1, <1>8, <3>2, <3>3, <4>1 DEF Split
    <3>5. BehindOK(s, x, n + 1)
      BY <1>1, <1>6, <3>1, <3>2, <3>4 DEF BehindOK, spent
    <3> QED BY <1>3, <1>4, <1>11, <3>5, OneBehind
  <2>2. CASE f.left # 0
    <3>1. Times(RequestTimeout, n - overdue) + RequestTimeout <= spent
      <4>1. RequestTimeout \in Int /\ Times(RequestTimeout, n - overdue) \in Int
        BY <1>1, Products
      <4>2. f.timer # f.left
        BY <1>11, <2>2
      <4> QED BY <1>8, <1>11, <4>1, <4>2 DEF Unspent
    <3>2. overdue \in 0..(n + 1) /\ (n + 1) - overdue = (n - overdue) + 1
      BY <1>1
    <3>3. Times(RequestTimeout, (n + 1) - overdue) <= spent
      <4>1. Times(RequestTimeout, (n - overdue) + 1) = Times(RequestTimeout, n - overdue) + RequestTimeout
        BY <1>1, Multiples
      <4> QED BY <3>1, <3>2, <4>1
    <3>4. Split(spent, n + 1, overdue)
      <4>1. Times(TotalDeadline, overdue) <= spent
        BY <1>8 DEF Split
      <4>2. overdue \in 0..(n + 1)
        BY <3>2
      <4> QED BY <3>3, <4>1, <4>2 DEF Split
    <3>5. x.pc = "fetching" => Unspent(spent, n + 1, overdue, x)
      BY <1>1, <1>8, <1>9, <3>2, <3>4 DEF Unspent
    <3>6. BehindOK(s, x, n + 1)
      BY <1>1, <1>6, <3>2, <3>4, <3>5 DEF BehindOK, spent
    <3> QED BY <1>3, <1>4, <1>11, <3>6, OneBehind
  <2> QED BY <2>1, <2>2
<1> QED BY <1>7, <1>10, <1>11

(* The deadline of the side may leave one more behind. *)
LEMMA CancelBehind ==
  ASSUME SideInv, BehindInv, NEW c \in Callers, CancelAtDeadline(c)
  PROVE  BehindInv'
<1> DEFINE s == side[c]
           n == abandoned[c]
           t == [s EXCEPT !.pc = "failed"]
           x == [pc |-> "cancelled"]
<1>1. s \in SideRecord /\ s.pc = "waiting" /\ BehindOK(s, call[c], n) /\ n \in Nat
  BY DEF SideInv, BehindInv, CancelAtDeadline
<1>2. t.pc = "failed" /\ t.began = s.began /\ t.left = s.left
  BY <1>1, Moved
<1>3. side' = [side EXCEPT ![c] = t] /\ call' = [call EXCEPT ![c] = x]
  BY DEF CancelAtDeadline, Cancel
<1>4. PICK k \in {n, n + 1} : abandoned' = [abandoned EXCEPT ![c] = k]
  BY DEF CancelAtDeadline, LeftBehind, BehindInv
<1>5. s.began - s.left \in Int
  BY <1>1 DEF SideRecord
<1> HIDE DEF s, n, t, x
<1>6. PICK overdue \in 0..n : Split(s.began - s.left, n, overdue)
  BY <1>1 DEF BehindOK
<1>7. k \in Nat /\ overdue \in 0..k
  BY <1>1
<1>8. Times(RequestTimeout, k - overdue - 1) <= s.began - s.left
  <2>1. CASE k = n
    <3>1. /\ Times(RequestTimeout, (n - overdue) - 1) = Times(RequestTimeout, n - overdue) - RequestTimeout
          /\ (n - overdue) - 1 = k - overdue - 1
      BY <1>1, <2>1, Multiples
    <3>2. /\ RequestTimeout \in Nat /\ Times(RequestTimeout, n - overdue) \in Int
      BY <1>1, Multiples
    <3> QED BY <1>5, <1>6, <3>1, <3>2 DEF Split
  <2>2. CASE k = n + 1
    <3>1. k - overdue - 1 = n - overdue
      BY <1>1, <2>2
    <3> QED BY <1>6, <3>1 DEF Split
  <2> QED BY <2>1, <2>2
<1>9. BehindOK(t, x, k)
  BY <1>2, <1>6, <1>7, <1>8 DEF BehindOK, Split, SplitAtTheEnd
<1> QED BY <1>3, <1>4, <1>9, OneBehind

LEMMA TickBehind ==
  ASSUME SideInv, BehindInv, Tick
  PROVE  BehindInv'
<1>1. abandoned' = abandoned
  BY DEF Tick, threads
<1>2. ASSUME NEW c \in Callers PROVE BehindOK(side'[c], call'[c], abandoned[c])
  <2> DEFINE s == side[c]
             t == [s EXCEPT !.left = @ - 1]
             n == abandoned[c]
             f == call[c]
  <2>1. s \in SideRecord /\ SideOK(s, f, Filled) /\ BehindOK(s, f, n) /\ n \in Nat
    BY DEF SideInv, BehindInv
  <2>2. side'[c] = IF Running(c) THEN t ELSE s
    BY DEF Tick
  <2>3. Running(c) => s.left > 0 /\ s.pc # "failed"
    BY DEF Tick, Running
  <2>4. Running(c) => t.pc = s.pc /\ t.began = s.began /\ t.left = s.left - 1
    BY <2>1, <2>3, Older
  <2>5. s.began \in Int /\ s.left \in Int
    BY <2>1 DEF SideRecord
  <2>6. CASE ~Running(c)
    <3>1. ~IsFetching(c)
      BY <2>1, <2>6 DEF SideOK, IsFetching, Running
    <3>2. call'[c] = f
      BY <3>1 DEF Tick, Elapse, vars
    <3> QED BY <2>1, <2>2, <2>6, <3>2
  <2>7. CASE Running(c)
    <3>1. IsFetching(c) => /\ f.left \in Nat /\ f.timer \in Nat
                           /\ f.timer > 0 /\ f.left > 0
      <4> SUFFICES ASSUME IsFetching(c)
                   PROVE  f.left \in Nat /\ f.timer \in Nat /\ f.timer > 0 /\ f.left > 0
        OBVIOUS
      <4>1. f \in FetchingCall
        BY FetchingIsOK DEF SideInv, FetchingOK
      <4>2. f.left \in Nat /\ f.timer \in Nat
        BY <4>1, ConfigAssumption DEF FetchingCall
      <4>3. f.timer > 0 /\ f.timer <= f.left
        BY <2>1 DEF Tick, SideOK, IsFetching
      <4> QED BY <4>2, <4>3
    <3>2. call'[c].pc = "fetching" => /\ IsFetching(c)
                                      /\ call'[c].left = f.left - 1
                                      /\ call'[c].timer = f.timer - 1
      <4>1. CASE ~IsFetching(c)
        BY <4>1 DEF Tick, Elapse, vars, IsFetching
      <4>2. CASE IsFetching(c)
        <5> DEFINE once == [f EXCEPT !.left = IF @ > 0 THEN @ - 1 ELSE 0]
                   x == [once EXCEPT !.timer = IF @ > 0 THEN @ - 1 ELSE 0]
        <5>1. f \in FetchingCall
          BY <4>2, FetchingIsOK DEF SideInv, FetchingOK
        <5>2. /\ once.timer = f.timer /\ once.left = f.left - 1
              /\ DOMAIN once = {"pc", "manifest", "index", "attempts", "left", "timer"}
          BY <3>1, <4>2, <5>1 DEF FetchingCall
        <5>3. call'[c] = x
          BY <4>2 DEF Tick, Elapse
        <5> HIDE DEF once
        <5>4. x.left = f.left - 1 /\ x.timer = f.timer - 1
          BY <3>1, <4>2, <5>2
        <5> QED BY <4>2, <5>3, <5>4
      <4> QED BY <4>1, <4>2
    <3> HIDE DEF s, t, n, f
    <3>3. PICK overdue \in 0..n :
            /\ Split(s.began - s.left, n, overdue)
            /\ f.pc = "fetching" => Unspent(s.began - s.left, n, overdue, f)
      BY <2>1, <2>3, <2>7 DEF BehindOK
    <3>4. t.began - t.left = (s.began - s.left) + 1
      BY <2>4, <2>5, <2>7
    <3> DEFINE spent == s.began - s.left
    <3>5. spent \in Int
      BY <2>5
    <3>6. Split(spent + 1, n, overdue)
      <4> HIDE DEF spent
      <4>1. Split(spent, n, overdue)
        BY <3>3 DEF spent
      <4>2. Times(TotalDeadline, overdue) \in Int /\ Times(RequestTimeout, n - overdue) \in Int
        BY <2>1, Products
      <4> QED BY <3>5, <4>1, <4>2 DEF Split
    <3>7. call'[c].pc = "fetching" => Unspent(spent + 1, n, overdue, call'[c])
      <4> SUFFICES ASSUME call'[c].pc = "fetching"
                   PROVE  Unspent(spent + 1, n, overdue, call'[c])
        OBVIOUS
      <4>1. Unspent(spent, n, overdue, f) /\ f.left \in Nat /\ f.timer \in Nat
        BY <3>1, <3>2, <3>3 DEF IsFetching, f
      <4> HIDE DEF spent
      <4>2. Times(TotalDeadline, overdue) + (TotalDeadline - (f.left - 1)) <= spent + 1
        <5>1. TotalDeadline \in Int /\ Times(TotalDeadline, overdue) \in Int
          BY <2>1, Products
        <5> QED BY <3>5, <4>1, <5>1 DEF Unspent
      <4>3. \/ f.timer - 1 = f.left - 1
            \/ Times(RequestTimeout, n - overdue) + (RequestTimeout - (f.timer - 1)) <= spent + 1
        <5>1. RequestTimeout \in Int /\ Times(RequestTimeout, n - overdue) \in Int
          BY <2>1, Products
        <5> QED BY <3>5, <4>1, <5>1 DEF Unspent
      <4> QED BY <3>2, <4>2, <4>3 DEF Unspent
    <3>8. BehindOK(t, call'[c], n)
      BY <2>1, <2>3, <2>4, <2>7, <3>4, <3>6, <3>7 DEF BehindOK
    <3> QED BY <2>2, <2>7, <3>8 DEF n
  <2> QED BY <2>6, <2>7
<1> QED BY <1>1, <1>2 DEF BehindInv

LEMMA StepBehind ==
  ASSUME SideInv, BehindInv, [SideNext]_sideVars
  PROVE  BehindInv'
<1>1. ASSUME NEW c \in Callers, NEW population \in Populations, NEW spent \in Spent,
             Begin(c, population, spent)
      PROVE  BehindInv'
  BY <1>1, BeginBehind
<1>2. ASSUME NEW c \in Callers, AskNext(c) PROVE BehindInv'
  BY <1>2, AskNextBehind
<1>3. ASSUME NEW c \in Callers,
             Collect(c) \/ Propagate(c) \/ Observe(c) \/ Finish(c) \/ ObservedTooLong(c)
      PROVE  BehindInv'
  BY <1>3, GoOnBehind
<1>4. ASSUME NEW c \in Callers, SourceStep(c) PROVE BehindInv'
  BY <1>4, SourceStepBehind
<1>5. ASSUME NEW c \in Callers, CancelAtDeadline(c) PROVE BehindInv'
  BY <1>5, CancelBehind
<1>6. CASE Tick
  BY <1>6, TickBehind
<1>7. ASSUME side' = side, call' = call, abandoned' = abandoned PROVE BehindInv'
  BY <1>7 DEF BehindInv
<1>8. ASSUME NEW c \in Callers, CheckArchive(c) PROVE BehindInv'
  <2>1. side' = side /\ call' = call /\ abandoned' = abandoned
    BY <1>8 DEF CheckArchive, vars
  <2> QED BY <1>7, <2>1
<1>9. ASSUME NEW w \in Workers, EndUnnoticed(w) PROVE BehindInv'
  <2>1. side' = side /\ call' = call /\ abandoned' = abandoned
    BY <1>9 DEF EndUnnoticed, vars
  <2> QED BY <1>7, <2>1
<1>10. CASE UNCHANGED sideVars
  <2>1. side' = side /\ call' = call /\ abandoned' = abandoned
    BY <1>10 DEF sideVars
  <2> QED BY <1>7, <2>1
<1> QED BY <1>1, <1>2, <1>3, <1>4, <1>5, <1>6, <1>8, <1>9, <1>10 DEF SideNext

(* Threads left behind are paid for in time, for any timeouts, deadlines   *)
(* and numbers of sources, callers and workers.                            *)
THEOREM ThreadsArePaidFor == SideSpec => []ThreadsLeftBehindTookTime
<1>1. ASSUME SideInv, BehindInv PROVE ThreadsLeftBehindTookTime
  <2> SUFFICES ASSUME NEW c \in Callers
               PROVE  LET spent == side[c].began - side[c].left
                          last == IF side[c].pc = "failed" THEN 1 ELSE 0
                      IN \E overdue \in 0..abandoned[c] :
                           /\ TotalDeadline * overdue <= spent
                           /\ RequestTimeout * (abandoned[c] - overdue - last) <= spent
    BY DEF ThreadsLeftBehindTookTime
  <2> DEFINE n == abandoned[c]
             spent == side[c].began - side[c].left
  <2>1. BehindOK(side[c], call[c], n) /\ n \in Nat
    BY <1>1 DEF BehindInv
  <2>2. CASE side[c].pc = "failed"
    BY <2>1, <2>2 DEF BehindOK, SplitAtTheEnd, Times
  <2>3. CASE side[c].pc # "failed"
    <3>1. PICK overdue \in 0..n : Split(spent, n, overdue)
      BY <2>1, <2>3 DEF BehindOK
    <3>2. n - overdue - 0 = n - overdue
      BY <2>1
    <3> QED BY <2>3, <3>1, <3>2 DEF Split, Times
  <2> QED BY <2>2, <2>3
<1>2. SideInv /\ BehindInv /\ [SideNext]_sideVars => BehindInv'
  BY StepBehind
<1> QED BY <1>1, <1>2, BehindInitially, SideInvariance, PTL DEF SideSpec

(* What was cached when a side began is AVAILABLE in its receipt.          *)
THEOREM KnownAvailable == SideSpec => []KnownStaysAvailable
<1>1. ASSUME SideInv, NEW c \in Callers, NEW i \in DOMAIN side[c].entries,
             ExactContentCoordinate(side[c].population[i]) \in side[c].known
      PROVE  side[c].entries[i] = "AVAILABLE"
  <2>1. side[c] \in SideRecord /\ SideOK(side[c], call[c], Filled)
    BY <1>1 DEF SideInv
  <2>2. i \in 1..Len(side[c].entries)
    BY <1>1, <2>1 DEF SideRecord
  <2> QED BY <1>1, <2>1, <2>2 DEF SideOK, Key
<1>2. SideInv => KnownStaysAvailable
  BY <1>1 DEF KnownStaysAvailable
<1> QED BY <1>2, SideInvariance, PTL

(* A side that fails in its Workflow step had enough to fetch to spend its *)
(* deadline on, whatever the deadlines are.                                *)
THEOREM FetchingIsPaidFor == SideSpec => []OnlyFetchingTakesTime
<1>1. ASSUME SideInv, NEW c \in Callers, side[c].pc = "failed",
             Len(side[c].entries) < Len(side[c].population)
      PROVE  side[c].began <= TotalDeadline * Cardinality(Uncached(c))
  <2>1. side[c].began <= Paid(side[c], Len(side[c].entries) + 1)
    BY <1>1 DEF SideInv, SideOK
  <2>2. Fetched(side[c], Len(side[c].entries) + 1) = Uncached(c)
    BY DEF Fetched, Uncached, Key
  <2> QED BY <2>1, <2>2 DEF Paid
<1>2. SideInv => OnlyFetchingTakesTime
  BY <1>1 DEF OnlyFetchingTakesTime
<1> QED BY <1>2, SideInvariance, PTL

-----------------------------------------------------------------------------
(***************************************************************************)
(* GitHubSource.                                                           *)
(*                                                                         *)
(* While nothing is deleted the list found at the beginning is still there *)
(* behind the releases published since, and every release of it on a page  *)
(* read so far was seen.  Publishing moves a release to a later position,  *)
(* possibly back onto a page that is still to be read: the second fact     *)
(* only speaks of the positions before the page asked for.                 *)
(***************************************************************************)
Shifted ==
  /\ Len(published) = Len(before) + changes.published
  /\ \A i \in DOMAIN before : published[i + changes.published] = before[i]

SeenSoFar ==
  phase = "list" =>
    \A i \in DOMAIN before :
      i + changes.published <= (page - 1) * PageSize => before[i] \in Range(releases)

AbsenceIsProved ==
  Ended("failure") /\ outcome.failure = "NOT_FOUND" /\ outcome.by = "list"
    => Wanted(before) = {}

ListingOK == changes.deleted = 0 => Shifted /\ SeenSoFar /\ AbsenceIsProved

(* The selected release is the only one of its tag, and a historical one   *)
(* is only selected without one of the exact tag.                          *)
SelectedOK ==
  /\ selected \in Releases /\ selected.tag \in {"exact", "historical"}
  /\ \E i \in DOMAIN releases : Tagged(releases, selected.tag) = {i}
  /\ selected.tag = "historical" => Tagged(releases, "exact") = {}

ProvenanceOK ==
  got.descriptor.form = "v2" =>
    /\ "provenance" \in DOMAIN got
    /\ got.provenance.digest = got.descriptor.provenance
    /\ got.provenance.subject = got.descriptor.archive

ChecksumOK ==
  /\ selected.tag = "exact" =>
       "checksum" \in DOMAIN got /\ got.checksum = got.descriptor.archive
  /\ ProvenanceOK

(* What the answers received so far have established, request by request.  *)
AnswersOK ==
  /\ phase \in {"descriptor", "provenance", "checksum", "archive", "validate"} => SelectedOK
  /\ phase \in {"provenance", "checksum", "archive", "validate"} => "descriptor" \in DOMAIN got
  /\ phase \in {"provenance", "checksum"} => selected.tag = "exact"
  /\ phase = "checksum" => ProvenanceOK
  /\ phase \in {"archive", "validate"} => ChecksumOK
  /\ phase = "validate" =>
       "archive" \in DOMAIN got /\ got.archive.digest = got.descriptor.archive

(* The codes a source may fail with.                                       *)
SourceCodes == DiagnosticCodes \ {"DEADLINE_EXCEEDED", "ATTEMPTS_TRUNCATED"}

FailureCode == Ended("failure") => outcome.failure \in SourceCodes

FetchInv ==
  /\ FetchTypeOK /\ ListingOK /\ AnswersOK /\ CandidateIsVouchedFor /\ FailureCode

-----------------------------------------------------------------------------
(* What a page of the list holds: the releases at its positions, and all   *)
(* of the rest of the list when it is not full.                            *)
LEMMA PageHolds ==
  ASSUME published \in Seq(Releases), NEW n \in Nat \ {0}
  PROVE  /\ Page(n) \in Seq(Releases)
         /\ \A j \in DOMAIN published :
              (n - 1) * PageSize < j /\ j <= n * PageSize => published[j] \in Range(Page(n))
         /\ Len(Page(n)) < PageSize => Len(published) <= n * PageSize
<1> DEFINE first == (n - 1) * PageSize
           last == n * PageSize
           end == IF last <= Len(published) THEN last ELSE Len(published)
<1>1. /\ PageSize \in Nat \ {0}
      /\ first \in Nat /\ last \in Nat /\ last = first + PageSize
  BY GitHubAssumption
<1>2. Page(n) = SubSeq(published, first + 1, end)
  BY DEF Page
<1> HIDE DEF first, last
<1>3. end \in Nat /\ end <= Len(published)
  BY <1>1
<1>4. Page(n) \in Seq(Releases)
  BY <1>1, <1>2, <1>3
<1>5. ASSUME NEW j \in DOMAIN published, first < j, j <= last
      PROVE  published[j] \in Range(Page(n))
  <2>1. j \in Nat /\ j <= end /\ j - first \in 1..(end - first)
    BY <1>1, <1>3, <1>5
  <2>2. j - first \in DOMAIN Page(n) /\ Page(n)[j - first] = published[j]
    BY <1>1, <1>2, <1>3, <2>1
  <2>3. QED
    BY <2>2 DEF Range
<1>6. Len(Page(n)) < PageSize => Len(published) <= last
  BY <1>1, <1>2, <1>3
<1>7. QED
  BY <1>4, <1>5, <1>6 DEF first, last

(* Nothing is lost when a page is added to the releases read.              *)
LEMMA ConcatHolds ==
  ASSUME NEW s \in Seq(Releases), NEW t \in Seq(Releases)
  PROVE  s \o t \in Seq(Releases) /\ Range(s \o t) = Range(s) \union Range(t)
<1>1. s \o t \in Seq(Releases)
  OBVIOUS
<1>2. ASSUME NEW x \in Range(s \o t) PROVE x \in Range(s) \union Range(t)
  <2>1. PICK i \in DOMAIN (s \o t) : x = (s \o t)[i]
    BY DEF Range
  <2>2. CASE i <= Len(s)
    BY <2>1, <2>2 DEF Range
  <2>3. CASE i > Len(s)
    <3>1. i - Len(s) \in DOMAIN t /\ x = t[i - Len(s)]
      BY <2>1, <2>3
    <3>2. QED
      BY <3>1 DEF Range
  <2>4. QED
    BY <2>1, <2>2, <2>3
<1>3. ASSUME NEW x \in Range(s) PROVE x \in Range(s \o t)
  <2>1. PICK i \in DOMAIN s : x = s[i]
    BY <1>3 DEF Range
  <2>2. i \in DOMAIN (s \o t) /\ (s \o t)[i] = x
    BY <2>1
  <2>3. QED
    BY <2>2 DEF Range
<1>4. ASSUME NEW x \in Range(t) PROVE x \in Range(s \o t)
  <2>1. PICK i \in DOMAIN t : x = t[i]
    BY <1>4 DEF Range
  <2>2. i + Len(s) \in DOMAIN (s \o t) /\ (s \o t)[i + Len(s)] = x
    BY <2>1
  <2>3. QED
    BY <2>2 DEF Range
<1>5. QED
  BY <1>1, <1>2, <1>3, <1>4

(* A page read while nothing was deleted: what was seen so far, and what   *)
(* the page adds to it.                                                    *)
LEMMA ReadPage ==
  ASSUME FetchTypeOK, Shifted, SeenSoFar, phase = "list",
         NEW i \in DOMAIN before, i + changes.published <= page * PageSize
  PROVE  before[i] \in Range(releases \o Page(page))
<1> DEFINE j == i + changes.published
<1>1. /\ published \in Seq(Releases) /\ before \in Seq(Releases)
      /\ releases \in Seq(Releases) /\ page \in Nat \ {0}
      /\ changes.published \in Nat /\ PageSize \in Nat \ {0}
  BY GitHubAssumption DEF FetchTypeOK
<1>2. j \in DOMAIN published /\ published[j] = before[i]
  BY <1>1 DEF Shifted
<1>3. Range(releases \o Page(page)) = Range(releases) \union Range(Page(page))
  BY <1>1, PageHolds, ConcatHolds
<1>4. CASE j <= (page - 1) * PageSize
  BY <1>3, <1>4 DEF SeenSoFar
<1>5. CASE (page - 1) * PageSize < j
  BY <1>1, <1>2, <1>3, <1>5, PageHolds
<1>6. (page - 1) * PageSize \in Nat /\ j \in Nat
  BY <1>1
<1>7. QED
  BY <1>4, <1>5, <1>6

(* Without a release of either tag among all those read, none was in the   *)
(* list when the fetch began.                                              *)
LEMMA NoneWanted ==
  ASSUME FetchTypeOK, Shifted, SeenSoFar, phase = "list",
         Len(Page(page)) < PageSize,
         Tagged(releases \o Page(page), "exact") = {},
         Tagged(releases \o Page(page), "historical") = {}
  PROVE  Wanted(before) = {}
<1> DEFINE all == releases \o Page(page)
<1>1. /\ published \in Seq(Releases) /\ before \in Seq(Releases)
      /\ page \in Nat \ {0} /\ changes.published \in Nat /\ PageSize \in Nat
  BY GitHubAssumption DEF FetchTypeOK
<1>2. Len(published) <= page * PageSize
  BY <1>1, PageHolds
<1>3. SUFFICES ASSUME NEW release \in Wanted(before) PROVE FALSE
  OBVIOUS
<1>4. PICK i \in DOMAIN before : release = before[i]
  BY <1>3 DEF Wanted, Range
<1>5. i + changes.published <= page * PageSize
  <2>1. i + changes.published <= Len(published) /\ page * PageSize \in Nat
    BY <1>1, <1>4 DEF Shifted
  <2>2. QED
    BY <1>1, <1>2, <2>1
<1>6. release \in Range(all)
  BY <1>4, <1>5, ReadPage
<1>7. PICK n \in DOMAIN all : release = all[n]
  BY <1>6 DEF Range
<1>8. n \in Tagged(all, "exact") \union Tagged(all, "historical")
  BY <1>3, <1>7 DEF Wanted, Tagged
<1>9. QED
  BY <1>8

-----------------------------------------------------------------------------
LEMMA Codes ==
  /\ {"NOT_FOUND", "SOURCE_UNAVAILABLE", "INVALID_DESCRIPTOR", "CHECKSUM_MISMATCH",
      "INVALID_ARCHIVE", "INVALID_WORKFLOW"} \subseteq SourceCodes
  /\ "NOT_FOUND" \notin {"SOURCE_UNAVAILABLE", "INVALID_DESCRIPTOR", "CHECKSUM_MISMATCH",
                         "INVALID_ARCHIVE", "INVALID_WORKFLOW"}
BY DEF SourceCodes, DiagnosticCodes

(* The listing says the same as long as what it speaks of is unchanged.    *)
LEMMA ListingKept ==
  ASSUME ListingOK, Unchanged, phase' # "list",
         outcome'.failure = "NOT_FOUND" /\ outcome'.by = "list" /\ changes.deleted = 0
         /\ Ended("failure")' => Wanted(before) = {}
  PROVE  ListingOK'
BY DEF ListingOK, Shifted, SeenSoFar, AbsenceIsProved, Unchanged, Wanted, Range, Ended

(* A failure keeps the invariant: one that claims absence has proved it.   *)
LEMMA FailKeeps ==
  ASSUME FetchInv, phase # "done",
         NEW code \in SourceCodes,
         NEW by, Fail(code, by),
         code = "NOT_FOUND" /\ by = "list" /\ changes.deleted = 0 => Wanted(before) = {}
  PROVE  FetchInv'
<1>1. /\ phase' = "done" /\ outcome' = [failure |-> code, by |-> by]
      /\ Unchanged /\ UNCHANGED <<page, releases, selected, got>>
  BY DEF Fail, End
<1>2. DOMAIN outcome' = {"failure", "by"} /\ outcome'.failure = code /\ outcome'.by = by
  BY <1>1
<1>3. FetchTypeOK'
  BY <1>1, <1>2 DEF FetchInv, FetchTypeOK, Unchanged
<1>4. ListingOK'
  BY <1>1, <1>2, ListingKept DEF FetchInv
<1>5. AnswersOK' /\ CandidateIsVouchedFor' /\ FailureCode'
  BY <1>1, <1>2 DEF AnswersOK, CandidateIsVouchedFor, FailureCode, Ended
<1>6. QED
  BY <1>3, <1>4, <1>5 DEF FetchInv

LEMMA RaiseKeeps ==
  ASSUME FetchInv, phase # "done", NEW by, Raise(by)
  PROVE  FetchInv'
<1>1. /\ phase' = "done" /\ outcome' = [raised |-> TRUE, by |-> by]
      /\ Unchanged /\ UNCHANGED <<page, releases, selected, got>>
  BY DEF Raise, End
<1>2. DOMAIN outcome' = {"raised", "by"}
  BY <1>1
<1>3. FetchTypeOK'
  BY <1>1, <1>2 DEF FetchInv, FetchTypeOK, Unchanged
<1>4. ListingOK'
  BY <1>1, <1>2, ListingKept DEF FetchInv, Ended
<1>5. AnswersOK' /\ CandidateIsVouchedFor' /\ FailureCode'
  BY <1>1, <1>2 DEF AnswersOK, CandidateIsVouchedFor, FailureCode, Ended
<1>6. QED
  BY <1>3, <1>4, <1>5 DEF FetchInv

(* An answer that is accepted keeps the types and the listing, and adds    *)
(* one body to those received.                                             *)
LEMMA AwaitKeeps ==
  ASSUME FetchInv, phase \notin {"done", "list"},
         NEW next \in {"provenance", "checksum", "archive", "validate"},
         NEW kind \in {"descriptor", "provenance", "checksum", "archive"},
         NEW body, Await(next, kind, body)
  PROVE  /\ FetchTypeOK' /\ ListingOK' /\ CandidateIsVouchedFor' /\ FailureCode'
         /\ got'[kind] = body
         /\ \A k \in DOMAIN got \ {kind} : got'[k] = got[k]
         /\ phase' = next /\ UNCHANGED <<selected, releases>>
<1>1. /\ phase' = next
      /\ got' = [k \in DOMAIN got \union {kind} |-> IF k = kind THEN body ELSE got[k]]
      /\ Unchanged /\ UNCHANGED <<page, releases, selected, outcome>>
  BY DEF Await
<1>2. FetchTypeOK'
  BY <1>1 DEF FetchInv, FetchTypeOK, Unchanged
<1>3. ListingOK'
  BY <1>1, ListingKept DEF FetchInv, Ended
<1>4. CandidateIsVouchedFor' /\ FailureCode'
  BY <1>1 DEF CandidateIsVouchedFor, FailureCode, Ended
<1>5. QED
  BY <1>1, <1>2, <1>3, <1>4

-----------------------------------------------------------------------------
LEMMA PublishKeeps ==
  ASSUME FetchInv, NEW release \in Releases, Publish(release)
  PROVE  FetchInv'
<1>1. /\ phase = "list" /\ published' = <<release>> \o published
      /\ changes.published < MaxPublished
      /\ changes' = [changes EXCEPT !.published = @ + 1]
      /\ UNCHANGED <<before, phase, page, releases, selected, got, outcome>>
  BY DEF Publish, client
<1>2. published \in Seq(Releases) /\ before \in Seq(Releases)
  BY DEF FetchInv, FetchTypeOK
<1>3. /\ changes \in [published: 0..MaxPublished, deleted: 0..MaxDeleted]
      /\ MaxPublished \in Nat /\ MaxDeleted \in Nat
      /\ changes.published < MaxPublished
      /\ changes' = [changes EXCEPT !.published = @ + 1]
  BY <1>1, GitHubAssumption DEF FetchInv, FetchTypeOK
<1>4. /\ changes'.published = changes.published + 1 /\ changes'.deleted = changes.deleted
      /\ changes' \in [published: 0..MaxPublished, deleted: 0..MaxDeleted]
      /\ changes.published \in Nat
  BY <1>3
<1>5. /\ published' \in Seq(Releases) /\ Len(published') = Len(published) + 1
      /\ \A j \in DOMAIN published : published'[j + 1] = published[j]
  BY <1>1, <1>2
<1>6. FetchTypeOK'
  BY <1>1, <1>4, <1>5 DEF FetchInv, FetchTypeOK
<1>7. ListingOK'
  <2> SUFFICES ASSUME changes.deleted = 0 PROVE (Shifted /\ SeenSoFar /\ AbsenceIsProved)'
    BY <1>4 DEF ListingOK
  <2>1. Shifted /\ SeenSoFar
    BY DEF FetchInv, ListingOK
  <2>2. Shifted'
    <3>1. Len(published') = Len(before) + changes'.published
      BY <1>2, <1>4, <1>5, <2>1 DEF Shifted
    <3>2. ASSUME NEW i \in DOMAIN before
          PROVE  published'[i + changes'.published] = before[i]
      <4> DEFINE j == i + changes.published
      <4>1. j \in DOMAIN published /\ published[j] = before[i]
        BY <1>2, <1>4, <2>1 DEF Shifted
      <4>2. i + changes'.published = j + 1
        BY <1>2, <1>4
      <4>3. QED
        BY <1>5, <4>1, <4>2
    <3>3. QED
      BY <1>1, <3>1, <3>2 DEF Shifted
  <2>3. SeenSoFar'
    <3> SUFFICES ASSUME NEW i \in DOMAIN before,
                        i + changes'.published <= (page - 1) * PageSize
                 PROVE  before[i] \in Range(releases)
      BY <1>1 DEF SeenSoFar, Range
    <3>1. i + changes.published <= (page - 1) * PageSize
      <4>1. (page - 1) * PageSize \in Int /\ i \in Nat /\ changes.published \in Nat
        BY <1>2, GitHubAssumption DEF FetchInv, FetchTypeOK
      <4>2. QED
        BY <1>4, <4>1
    <3>2. QED
      BY <1>1, <2>1, <3>1 DEF SeenSoFar
  <2>4. AbsenceIsProved'
    BY <1>1 DEF AbsenceIsProved, Ended
  <2>5. QED
    BY <2>2, <2>3, <2>4
<1>8. AnswersOK' /\ CandidateIsVouchedFor' /\ FailureCode'
  BY <1>1 DEF AnswersOK, CandidateIsVouchedFor, FailureCode, Ended
<1>9. QED
  BY <1>6, <1>7, <1>8 DEF FetchInv

LEMMA DeleteKeeps ==
  ASSUME FetchInv, NEW i \in DOMAIN published, Delete(i)
  PROVE  FetchInv'
<1>1. /\ phase = "list" /\ published' = RemoveAt(published, i)
      /\ changes.deleted < MaxDeleted
      /\ changes' = [changes EXCEPT !.deleted = @ + 1]
      /\ UNCHANGED <<before, phase, page, releases, selected, got, outcome>>
  BY DEF Delete, client
<1>2. /\ published \in Seq(Releases) /\ MaxPublished \in Nat /\ MaxDeleted \in Nat
      /\ changes \in [published: 0..MaxPublished, deleted: 0..MaxDeleted]
  BY GitHubAssumption DEF FetchInv, FetchTypeOK
<1>3. /\ changes' \in [published: 0..MaxPublished, deleted: 0..MaxDeleted]
      /\ changes'.deleted # 0
  BY <1>1, <1>2
<1>4. published' \in Seq(Releases)
  BY <1>1, <1>2 DEF RemoveAt
<1>5. FetchTypeOK'
  BY <1>1, <1>3, <1>4 DEF FetchInv, FetchTypeOK
<1>6. ListingOK'
  BY <1>3 DEF ListingOK
<1>7. AnswersOK' /\ CandidateIsVouchedFor' /\ FailureCode'
  BY <1>1 DEF AnswersOK, CandidateIsVouchedFor, FailureCode, Ended
<1>8. QED
  BY <1>5, <1>6, <1>7 DEF FetchInv

LEMMA ListFullPageKeeps ==
  ASSUME FetchInv, ListFullPage
  PROVE  FetchInv'
<1>1. phase = "list"
  BY DEF ListFullPage, Readable
<1>2. CASE page = MaxReleasePages /\ Fail("SOURCE_UNAVAILABLE", "list")
  BY <1>1, <1>2, FailKeeps, Codes
<1>3. CASE /\ page < MaxReleasePages
           /\ page' = page + 1
           /\ releases' = releases \o Page(page)
           /\ Unchanged /\ UNCHANGED <<phase, selected, got, outcome>>
  <2>1. /\ page \in 1..MaxReleasePages /\ MaxReleasePages \in Nat /\ PageSize \in Nat \ {0}
        /\ published \in Seq(Releases) /\ releases \in Seq(Releases)
        /\ UNCHANGED <<published, before, changes>>
    BY <1>3, GitHubAssumption DEF FetchInv, FetchTypeOK, Unchanged
  <2>2. page' \in 1..MaxReleasePages /\ releases' \in Seq(Releases)
    BY <1>3, <2>1, PageHolds, ConcatHolds
  <2>3. FetchTypeOK'
    BY <1>3, <2>1, <2>2 DEF FetchInv, FetchTypeOK
  <2>4. ListingOK'
    <3> SUFFICES ASSUME changes.deleted = 0 PROVE (Shifted /\ SeenSoFar /\ AbsenceIsProved)'
      BY <2>1 DEF ListingOK
    <3>1. Shifted /\ SeenSoFar
      BY DEF FetchInv, ListingOK
    <3>2. Shifted'
      BY <2>1, <3>1 DEF Shifted
    <3>3. SeenSoFar'
      <4> SUFFICES ASSUME NEW i \in DOMAIN before,
                          i + changes.published <= (page' - 1) * PageSize
                   PROVE  before[i] \in Range(releases')
        BY <1>1, <1>3, <2>1 DEF SeenSoFar
      <4>1. page' - 1 = page
        BY <1>3, <2>1
      <4>2. before[i] \in Range(releases \o Page(page))
        BY <1>1, <3>1, <4>1, ReadPage DEF FetchInv
      <4>3. QED
        BY <1>3, <4>2
    <3>4. AbsenceIsProved'
      BY <1>1, <1>3 DEF AbsenceIsProved, Ended
    <3>5. QED
      BY <3>2, <3>3, <3>4
  <2>5. AnswersOK' /\ CandidateIsVouchedFor' /\ FailureCode'
    BY <1>1, <1>3 DEF AnswersOK, CandidateIsVouchedFor, FailureCode, Ended
  <2>6. QED
    BY <2>3, <2>4, <2>5 DEF FetchInv
<1>4. QED
  BY <1>2, <1>3 DEF ListFullPage

(* The release that is selected is the only one of its tag.                *)
LEMMA SelectKeeps ==
  ASSUME FetchInv, phase = "list", NEW all \in Seq(Releases),
         NEW tag \in {"exact", "historical"}, NEW i \in DOMAIN all,
         Tagged(all, tag) = {i}, tag = "historical" => Tagged(all, "exact") = {},
         NEW fits \in BOOLEAN, Select(all[i], fits, all)
  PROVE  FetchInv'
<1>1. CASE ~fits /\ Fail("INVALID_DESCRIPTOR", "list")
  BY <1>1, FailKeeps, Codes
<1>2. CASE /\ phase' = "descriptor" /\ selected' = all[i] /\ releases' = all
           /\ Unchanged /\ UNCHANGED <<page, got, outcome>>
  <2>1. selected' \in Releases /\ selected'.tag = tag
    BY <1>2 DEF Tagged
  <2>2. FetchTypeOK'
    BY <1>2, <2>1 DEF FetchInv, FetchTypeOK, Unchanged
  <2>3. ListingOK'
    BY <1>2, ListingKept DEF FetchInv, Ended
  <2>4. SelectedOK'
    BY <1>2, <2>1 DEF SelectedOK, Tagged
  <2>5. AnswersOK' /\ CandidateIsVouchedFor' /\ FailureCode'
    BY <1>2, <2>4 DEF AnswersOK, CandidateIsVouchedFor, FailureCode, Ended
  <2>6. QED
    BY <2>2, <2>3, <2>5 DEF FetchInv
<1>3. QED
  BY <1>1, <1>2 DEF Select

LEMMA ListLastPageKeeps ==
  ASSUME FetchInv, ListLastPage
  PROVE  FetchInv'
<1> DEFINE all == releases \o Page(page)
           exact == Tagged(all, "exact")
           historical == Tagged(all, "historical")
<1>1. phase = "list" /\ Len(Page(page)) < PageSize
  BY DEF ListLastPage, Readable
<1>2. all \in Seq(Releases)
  <2>1. published \in Seq(Releases) /\ releases \in Seq(Releases) /\ page \in Nat \ {0}
    BY GitHubAssumption DEF FetchInv, FetchTypeOK
  <2>2. QED
    BY <2>1, PageHolds, ConcatHolds
<1>3. exact \subseteq DOMAIN all /\ historical \subseteq DOMAIN all
  BY DEF Tagged
<1>4. CASE Fail("INVALID_DESCRIPTOR", "list")
  BY <1>1, <1>4, FailKeeps, Codes
<1>5. ASSUME NEW i \in exact, exact = {i}, Select(all[i], ExactReleaseFits(all[i]), all)
      PROVE  FetchInv'
  <2>1. ExactReleaseFits(all[i]) \in BOOLEAN
    BY DEF ExactReleaseFits
  <2>2. QED
    BY <1>1, <1>2, <1>3, <1>5, <2>1, SelectKeeps
<1>6. CASE exact = {} /\ historical = {} /\ Fail("NOT_FOUND", "list")
  <2>1. changes.deleted = 0 => Wanted(before) = {}
    BY <1>1, <1>6, NoneWanted DEF FetchInv, ListingOK
  <2>2. QED
    BY <1>1, <1>6, <2>1, FailKeeps, Codes
<1>7. ASSUME exact = {}, NEW i \in historical, historical = {i},
             Select(all[i], OneAsset(all[i], "descriptor"), all)
      PROVE  FetchInv'
  <2>1. OneAsset(all[i], "descriptor") \in BOOLEAN
    BY DEF OneAsset
  <2>2. QED
    BY <1>1, <1>2, <1>3, <1>7, <2>1, SelectKeeps
<1>8. QED
  BY <1>4, <1>5, <1>6, <1>7 DEF ListLastPage

-----------------------------------------------------------------------------
LEMMA ExactDescriptorKeeps ==
  ASSUME FetchInv, NEW d \in Descriptors, ReceiveExactDescriptor(d)
  PROVE  FetchInv'
<1>1. phase = "descriptor" /\ selected.tag = "exact"
  BY DEF ReceiveExactDescriptor
<1>2. CASE Fail("INVALID_DESCRIPTOR", "descriptor")
  BY <1>1, <1>2, FailKeeps, Codes
<1>3. CASE /\ ExactDescriptorFits(selected, d)
           /\ Await(IF d.form = "v2" THEN "provenance" ELSE "checksum", "descriptor", d)
  <2> DEFINE next == IF d.form = "v2" THEN "provenance" ELSE "checksum"
  <2>1. /\ FetchTypeOK' /\ ListingOK' /\ CandidateIsVouchedFor' /\ FailureCode'
        /\ got'["descriptor"] = d /\ phase' = next /\ UNCHANGED <<selected, releases>>
    BY <1>1, <1>3, AwaitKeeps
  <2>2. "descriptor" \in DOMAIN got'
    BY <1>3 DEF Await
  <2>3. SelectedOK'
    BY <1>1, <2>1 DEF FetchInv, AnswersOK, SelectedOK, Tagged
  <2>4. AnswersOK'
    BY <1>1, <2>1, <2>2, <2>3 DEF AnswersOK, ProvenanceOK
  <2>5. QED
    BY <2>1, <2>4 DEF FetchInv
<1>4. CASE Raise("descriptor")
  BY <1>1, <1>4, RaiseKeeps
<1>5. QED
  BY <1>2, <1>3, <1>4 DEF ReceiveExactDescriptor

LEMMA HistoricalDescriptorKeeps ==
  ASSUME FetchInv, NEW d \in Descriptors, ReceiveHistoricalDescriptor(d)
  PROVE  FetchInv'
<1>1. phase = "descriptor" /\ selected.tag = "historical"
  BY DEF ReceiveHistoricalDescriptor
<1>2. CASE Fail("INVALID_DESCRIPTOR", "descriptor")
  BY <1>1, <1>2, FailKeeps, Codes
<1>3. CASE Fail("NOT_FOUND", "descriptor")
  BY <1>1, <1>3, FailKeeps, Codes
<1>4. CASE d.form = "aggregate" /\ Await("archive", "descriptor", d)
  <2>1. /\ FetchTypeOK' /\ ListingOK' /\ CandidateIsVouchedFor' /\ FailureCode'
        /\ got'["descriptor"] = d /\ phase' = "archive" /\ UNCHANGED <<selected, releases>>
    BY <1>1, <1>4, AwaitKeeps
  <2>2. "descriptor" \in DOMAIN got'
    BY <1>4 DEF Await
  <2>3. SelectedOK'
    BY <1>1, <2>1 DEF FetchInv, AnswersOK, SelectedOK, Tagged
  <2>4. AnswersOK'
    BY <1>1, <1>4, <2>1, <2>2, <2>3 DEF AnswersOK, ChecksumOK, ProvenanceOK
  <2>5. QED
    BY <2>1, <2>4 DEF FetchInv
<1>5. QED
  BY <1>2, <1>3, <1>4 DEF ReceiveHistoricalDescriptor

LEMMA ProvenanceKeeps ==
  ASSUME FetchInv, NEW p \in Provenances, ReceiveProvenance(p)
  PROVE  FetchInv'
<1>1. phase = "provenance"
  BY DEF ReceiveProvenance
<1>2. CASE Fail("CHECKSUM_MISMATCH", "provenance") \/ Fail("INVALID_DESCRIPTOR", "provenance")
  BY <1>1, <1>2, FailKeeps, Codes
<1>3. CASE /\ p.digest = got.descriptor.provenance
           /\ ProvenanceFits(p, got.descriptor) /\ Await("checksum", "provenance", p)
  <2>1. /\ FetchTypeOK' /\ ListingOK' /\ CandidateIsVouchedFor' /\ FailureCode'
        /\ got'["provenance"] = p
        /\ \A k \in DOMAIN got \ {"provenance"} : got'[k] = got[k]
        /\ phase' = "checksum" /\ UNCHANGED <<selected, releases>>
    BY <1>1, <1>3, AwaitKeeps
  <2>2. /\ "descriptor" \in DOMAIN got' /\ "provenance" \in DOMAIN got'
        /\ got'["descriptor"] = got["descriptor"]
    BY <1>1, <1>3, <2>1 DEF Await, FetchInv, AnswersOK
  <2>3. SelectedOK'
    BY <1>1, <2>1 DEF FetchInv, AnswersOK, SelectedOK, Tagged
  <2>4. ProvenanceOK'
    BY <1>3, <2>1, <2>2 DEF ProvenanceOK, ProvenanceFits
  <2>5. AnswersOK'
    BY <1>1, <2>1, <2>2, <2>3, <2>4 DEF FetchInv, AnswersOK
  <2>6. QED
    BY <2>1, <2>5 DEF FetchInv
<1>4. QED
  BY <1>2, <1>3 DEF ReceiveProvenance

LEMMA ChecksumKeeps ==
  ASSUME FetchInv, NEW checksum \in Checksums, ReceiveChecksum(checksum)
  PROVE  FetchInv'
<1>1. phase = "checksum"
  BY DEF ReceiveChecksum
<1>2. CASE Fail("CHECKSUM_MISMATCH", "checksum")
  BY <1>1, <1>2, FailKeeps, Codes
<1>3. CASE checksum = got.descriptor.archive /\ Await("archive", "checksum", checksum)
  <2>1. /\ FetchTypeOK' /\ ListingOK' /\ CandidateIsVouchedFor' /\ FailureCode'
        /\ got'["checksum"] = checksum
        /\ \A k \in DOMAIN got \ {"checksum"} : got'[k] = got[k]
        /\ phase' = "archive" /\ UNCHANGED <<selected, releases>>
    BY <1>1, <1>3, AwaitKeeps
  <2>2. "checksum" \in DOMAIN got' /\ DOMAIN got \subseteq DOMAIN got'
    BY <1>3 DEF Await
  <2>3. "descriptor" \in DOMAIN got /\ got'["descriptor"] = got["descriptor"]
    BY <1>1, <2>1 DEF FetchInv, AnswersOK
  <2>4. SelectedOK'
    BY <1>1, <2>1 DEF FetchInv, AnswersOK, SelectedOK, Tagged
  <2>5. ProvenanceOK'
    <3>1. ProvenanceOK
      BY <1>1 DEF FetchInv, AnswersOK
    <3>2. "provenance" \in DOMAIN got => got'["provenance"] = got["provenance"]
      BY <2>1
    <3>3. QED
      BY <2>2, <2>3, <3>1, <3>2 DEF ProvenanceOK
  <2>6. ChecksumOK'
    BY <1>3, <2>1, <2>2, <2>3, <2>5 DEF ChecksumOK
  <2>7. AnswersOK'
    BY <2>1, <2>2, <2>3, <2>4, <2>6 DEF AnswersOK
  <2>8. QED
    BY <2>1, <2>7 DEF FetchInv
<1>4. QED
  BY <1>2, <1>3 DEF ReceiveChecksum

LEMMA ArchiveKeeps ==
  ASSUME FetchInv, NEW a \in Archives, ReceiveArchive(a)
  PROVE  FetchInv'
<1>1. phase = "archive"
  BY DEF ReceiveArchive
<1>2. CASE Fail("INVALID_ARCHIVE", "archive")
  BY <1>1, <1>2, FailKeeps, Codes
<1>3. CASE ArchiveFits(a, got.descriptor) /\ Await("validate", "archive", a)
  <2>1. /\ FetchTypeOK' /\ ListingOK' /\ CandidateIsVouchedFor' /\ FailureCode'
        /\ got'["archive"] = a
        /\ \A k \in DOMAIN got \ {"archive"} : got'[k] = got[k]
        /\ phase' = "validate" /\ UNCHANGED <<selected, releases>>
    BY <1>1, <1>3, AwaitKeeps
  <2>2. "archive" \in DOMAIN got' /\ DOMAIN got \subseteq DOMAIN got'
    BY <1>3 DEF Await
  <2>3. "descriptor" \in DOMAIN got /\ got'["descriptor"] = got["descriptor"]
    BY <1>1, <2>1 DEF FetchInv, AnswersOK
  <2>4. SelectedOK'
    BY <1>1, <2>1 DEF FetchInv, AnswersOK, SelectedOK, Tagged
  <2>5. ChecksumOK'
    <3>1. ChecksumOK
      BY <1>1 DEF FetchInv, AnswersOK
    <3>2. /\ "provenance" \in DOMAIN got => got'["provenance"] = got["provenance"]
          /\ "checksum" \in DOMAIN got => got'["checksum"] = got["checksum"]
      BY <2>1
    <3>3. QED
      BY <2>1, <2>2, <2>3, <3>1, <3>2 DEF ChecksumOK, ProvenanceOK
  <2>6. got'["archive"].digest = got'["descriptor"].archive
    BY <1>3, <2>1, <2>3 DEF ArchiveFits
  <2>7. AnswersOK'
    BY <2>1, <2>2, <2>3, <2>4, <2>5, <2>6 DEF AnswersOK
  <2>8. QED
    BY <2>1, <2>7 DEF FetchInv
<1>4. QED
  BY <1>2, <1>3 DEF ReceiveArchive

LEMMA ValidateKeeps ==
  ASSUME FetchInv, Validate
  PROVE  FetchInv'
<1>1. phase = "validate"
  BY DEF Validate
<1>2. CASE Fail("INVALID_WORKFLOW", "archive") \/ Fail("INVALID_DESCRIPTOR", "archive")
  BY <1>1, <1>2, FailKeeps, Codes
<1>3. CASE /\ got.archive.package = got.descriptor.package
           /\ End([candidate |-> [package |-> got.archive.package,
                                  archive |-> got.archive.digest]])
  <2>1. /\ phase' = "done"
        /\ outcome' = [candidate |-> [package |-> got.archive.package,
                                      archive |-> got.archive.digest]]
        /\ Unchanged /\ UNCHANGED <<page, releases, selected, got>>
    BY <1>3 DEF End
  <2>2. /\ DOMAIN outcome' = {"candidate"}
        /\ outcome'.candidate.package = got.archive.package
        /\ outcome'.candidate.archive = got.archive.digest
    BY <2>1
  <2>3. FetchTypeOK'
    BY <2>1, <2>2 DEF FetchInv, FetchTypeOK, Unchanged
  <2>4. ListingOK' /\ FailureCode' /\ AnswersOK'
    BY <2>1, <2>2, ListingKept DEF FetchInv, Ended, FailureCode, AnswersOK
  <2>5. /\ ChecksumOK /\ SelectedOK
        /\ got.archive.digest = got.descriptor.archive
    BY <1>1 DEF FetchInv, AnswersOK
  <2>6. Cardinality(Tagged(releases, selected.tag)) = 1
    BY <2>5, FS_Singleton DEF SelectedOK
  <2>7. CandidateIsVouchedFor'
    BY <1>3, <2>1, <2>2, <2>5, <2>6
      DEF CandidateIsVouchedFor, ChecksumOK, ProvenanceOK, SelectedOK, Tagged
  <2>8. QED
    BY <2>3, <2>4, <2>7 DEF FetchInv
<1>4. QED
  BY <1>2, <1>3 DEF Validate

-----------------------------------------------------------------------------
LEMMA FetchInvInitially ==
  ASSUME FetchInit
  PROVE  FetchInv
<1> USE DEF FetchInit
<1>1. published \in Seq(Releases) /\ before = published
  BY GitHubAssumption
<1>2. changes \in [published: 0..MaxPublished, deleted: 0..MaxDeleted]
  BY GitHubAssumption
<1>3. FetchTypeOK
  BY <1>1, <1>2, GitHubAssumption DEF FetchTypeOK
<1>4. ListingOK
  <2>1. Shifted
    BY <1>1 DEF Shifted
  <2>2. SeenSoFar
    BY <1>1, GitHubAssumption DEF SeenSoFar
  <2>3. QED
    BY <2>1, <2>2 DEF ListingOK, AbsenceIsProved, Ended
<1>5. AnswersOK /\ CandidateIsVouchedFor /\ FailureCode
  BY DEF AnswersOK, CandidateIsVouchedFor, FailureCode, Ended
<1>6. QED
  BY <1>3, <1>4, <1>5 DEF FetchInv

LEMMA FetchInvPreserved ==
  ASSUME FetchInv, [FetchNext]_fetchVars
  PROVE  FetchInv'
<1>1. CASE UNCHANGED fetchVars
  BY <1>1 DEF fetchVars, FetchInv, FetchTypeOK, ListingOK, Shifted, SeenSoFar,
       AbsenceIsProved, AnswersOK, SelectedOK, ProvenanceOK, ChecksumOK,
       CandidateIsVouchedFor, FailureCode, Ended, Wanted, Range, Tagged
<1>2. CASE Listing
  <2>1. CASE RepositoryMissing
    BY <2>1, FailKeeps, Codes DEF RepositoryMissing
  <2>2. CASE ListMalformed
    BY <2>2, FailKeeps, RaiseKeeps, Codes DEF ListMalformed
  <2>3. QED
    BY <1>2, <2>1, <2>2, ListFullPageKeeps, ListLastPageKeeps DEF Listing
<1>3. CASE Receiving
  BY <1>3, ExactDescriptorKeeps, HistoricalDescriptorKeeps, ProvenanceKeeps,
     ChecksumKeeps, ArchiveKeeps DEF Receiving
<1>4. CASE RequestFails
  BY <1>4, FailKeeps, Codes DEF RequestFails
<1>5. CASE Exceeds
  BY <1>5, FailKeeps, RaiseKeeps, Codes DEF Exceeds
<1>6. CASE \E release \in Releases : Publish(release)
  BY <1>6, PublishKeeps
<1>7. CASE \E i \in DOMAIN published : Delete(i)
  BY <1>7, DeleteKeeps
<1>8. QED
  BY <1>1, <1>2, <1>3, <1>4, <1>5, <1>6, <1>7, ValidateKeeps DEF FetchNext

THEOREM FetchInvariant == FetchSpec => []FetchInv
<1>1. FetchInv /\ [FetchNext]_fetchVars => FetchInv'
  BY FetchInvPreserved
<1>2. QED
  BY <1>1, FetchInvInitially, PTL DEF FetchSpec

THEOREM FetchTypeCorrect == FetchSpec => []FetchTypeOK
BY FetchInvariant, PTL DEF FetchInv

(* NOT_FOUND because of the release list is a proof of absence, however    *)
(* many releases are published between the requests for its pages.         *)
THEOREM PublishingNeverHidesHolds == FetchSpec => []PublishingNeverHides
<1>1. FetchInv => PublishingNeverHides
  BY DEF FetchInv, ListingOK, AbsenceIsProved, PublishingNeverHides
<1>2. QED
  BY <1>1, FetchInvariant, PTL

(* A candidate comes from a release that vouches for it in every way.      *)
THEOREM CandidateIsVouchedForHolds == FetchSpec => []CandidateIsVouchedFor
BY FetchInvariant, PTL DEF FetchInv

(* What the resolver assumes of its sources (SourceAssumption): a failing  *)
(* fetch never reports one of the two codes the resolver itself adds.      *)
THEOREM FetchKeepsToTheSourceCodes ==
  FetchSpec => [](Ended("failure") => outcome.failure \in SourceCodes)
BY FetchInvariant, PTL DEF FetchInv, FailureCode

=============================================================================
