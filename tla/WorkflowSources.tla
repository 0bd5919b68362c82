--------------------------- MODULE WorkflowSources ---------------------------
(***************************************************************************)
(* The ordered Workflow source resolver, WorkflowSourceResolver of         *)
(* workflow_sources/resolution.py.                                         *)
(*                                                                         *)
(* Concurrent compute requests share one resolver and its cache of         *)
(* validated candidates.  A call asks the configured sources in order, one *)
(* at a time, each under the smaller of the request timeout and what is    *)
(* left of the call's deadline, until one candidate agrees with the        *)
(* Manifest.  A step of a call is what the event loop runs between two     *)
(* awaits.  A source is outside the model: it may answer with any          *)
(* candidate, raise any failure, raise an exception the resolver does not  *)
(* catch, or never answer.                                                 *)
(***************************************************************************)
EXTENDS Integers, Sequences

CONSTANTS
  Callers,          \* tasks that may be inside resolve() at the same time
  NSources,         \* number of configured sources; source i is the i-th asked
  MaxSources,       \* the bound of the configuration and of the attempts (8)
  RequestTimeout,   \* request_timeout_seconds, in ticks of the clock
  TotalDeadline,    \* total_deadline_seconds, in ticks of the clock
  Value,            \* the values of one identity component
  Manifests,        \* the Delivery Manifests that may be resolved
  Candidates,       \* the candidates a source may return
  FailureCodes,     \* the codes of the SourceFailures a source may raise
  NoCandidate, NoEntry

DiagnosticCodes == {
  "NOT_FOUND", "SOURCE_UNAVAILABLE", "INVALID_DESCRIPTOR", "CHECKSUM_MISMATCH",
  "INVALID_ARCHIVE", "INVALID_WORKFLOW", "PACKAGE_DIGEST_MISMATCH",
  "SNAPSHOT_DIGEST_MISMATCH", "ROLE_BINDING_MISMATCH", "DEADLINE_EXCEEDED",
  "ATTEMPTS_TRUNCATED"}

Indeterminate == {
  "SOURCE_UNAVAILABLE", "INVALID_DESCRIPTOR", "CHECKSUM_MISMATCH",
  "INVALID_ARCHIVE", "INVALID_WORKFLOW", "DEADLINE_EXCEEDED"}

(* package: name and exact version; workflow: id and version; snapshot: id *)
(* and digest; roles: the ordered Role bindings.                           *)
Coordinate == [package: Value, packageDigest: Value, workflow: Value,
               snapshot: Value, roles: Value]

Manifest == [digest: Value, package: Value, packageDigest: Value,
             workflow: Value, snapshot: Value, roles: Value]

WorkflowCandidate == [package: Value, packageDigest: Value, workflow: Value,
                      snapshot: Value, roles: Value, archive: Value]

ASSUME ConfigAssumption ==
  /\ MaxSources \in Nat /\ NSources \in 1..MaxSources
  /\ RequestTimeout \in Nat \ {0} /\ TotalDeadline \in Nat \ {0}

ASSUME SourceAssumption ==
  /\ Manifests \subseteq Manifest
  /\ Candidates \subseteq WorkflowCandidate
  /\ FailureCodes \subseteq DiagnosticCodes \ {"DEADLINE_EXCEEDED", "ATTEMPTS_TRUNCATED"}
  /\ NoCandidate \notin Candidates

VARIABLES
  call,     \* call[c]: what caller c's resolve() is doing
  cache     \* _validated_cache

vars == <<call, cache>>

-----------------------------------------------------------------------------
(* Bugs the properties below are shown to catch. *)

CoordinateWithoutRoles(m) ==
  [package |-> m.package, packageDigest |-> m.packageDigest,
   workflow |-> m.workflow, snapshot |-> m.snapshot,
   roles |-> CHOOSE v \in Value : TRUE]

MismatchWithoutSnapshot(m, candidate) ==
  CASE candidate.package # m.package             -> "INVALID_DESCRIPTOR"
    [] candidate.packageDigest # m.packageDigest -> "PACKAGE_DIGEST_MISMATCH"
    [] candidate.workflow # m.workflow           -> "INVALID_WORKFLOW"
    [] candidate.roles # m.roles                 -> "ROLE_BINDING_MISMATCH"
    [] OTHER                                     -> "NONE"

TruncatesAtTheBound(attempts) ==
  IF Len(attempts) < MaxSources THEN attempts
  ELSE Append(SubSeq(attempts, 1, MaxSources - 1),
              [source |-> 0, code |-> "ATTEMPTS_TRUNCATED",
               omitted |-> Len(attempts) - (MaxSources - 1)])

StateOfLastAttempt(attempts) ==
  IF attempts[Len(attempts)].code \in Indeterminate
  THEN "UNAVAILABLE" ELSE "NOT_FOUND"

-----------------------------------------------------------------------------
ExactContentCoordinate(m) ==
  [package |-> m.package, packageDigest |-> m.packageDigest,
   workflow |-> m.workflow, snapshot |-> m.snapshot, roles |-> m.roles]

CandidateMismatch(m, candidate) ==
  CASE candidate.package # m.package             -> "INVALID_DESCRIPTOR"
    [] candidate.packageDigest # m.packageDigest -> "PACKAGE_DIGEST_MISMATCH"
    [] candidate.workflow # m.workflow           -> "INVALID_WORKFLOW"
    [] candidate.snapshot # m.snapshot           -> "SNAPSHOT_DIGEST_MISMATCH"
    [] candidate.roles # m.roles                 -> "ROLE_BINDING_MISMATCH"
    [] OTHER                                     -> "NONE"

(* source 0 stands for the absent source of an attempt of the resolver,    *)
(* omitted 0 for an absent omitted_count.                                  *)
Attempt == [source: 0..NSources, code: DiagnosticCodes, omitted: Nat]

Failed(source, code) == [source |-> source, code |-> code, omitted |-> 0]

DeadlineExceeded == Failed(0, "DEADLINE_EXCEEDED")

BoundedAttempts(attempts) ==
  IF Len(attempts) <= MaxSources THEN attempts
  ELSE Append(SubSeq(attempts, 1, MaxSources - 1),
              [source |-> 0, code |-> "ATTEMPTS_TRUNCATED",
               omitted |-> Len(attempts) - (MaxSources - 1)])

UnresolvedState(attempts) ==
  IF \E i \in DOMAIN attempts : attempts[i].code \in Indeterminate
  THEN "UNAVAILABLE" ELSE "NOT_FOUND"

Entry == [source: 1..NSources, candidate: Candidates]

ASSUME EntryAssumption == NoEntry \notin Entry

CacheKeys == {ExactContentCoordinate(m) : m \in Manifests}

FetchingCall == [pc: {"fetching"}, manifest: Manifests, index: 1..NSources,
                 attempts: Seq(Attempt), left: 0..TotalDeadline,
                 timer: 0..RequestTimeout]

ReturnedCall == [pc: {"returned"}, manifest: Manifests,
                 state: {"AVAILABLE", "NOT_FOUND", "UNAVAILABLE"},
                 attempts: Seq(Attempt), source: 0..NSources,
                 candidate: Candidates \union {NoCandidate}]

StoppedCall == [pc: {"idle", "raised", "cancelled"}]

IsFetching(c) == call[c].pc = "fetching"

Shorter(a, b) == IF a <= b THEN a ELSE b

-----------------------------------------------------------------------------
Fetch(m, index, attempts, left) ==
  [pc |-> "fetching", manifest |-> m, index |-> index, attempts |-> attempts,
   left |-> left, timer |-> Shorter(RequestTimeout, left)]

Unresolved(m, attempts) ==
  [pc |-> "returned", manifest |-> m, state |-> UnresolvedState(attempts),
   attempts |-> BoundedAttempts(attempts), source |-> 0,
   candidate |-> NoCandidate]

Available(m, attempts, entry) ==
  [pc |-> "returned", manifest |-> m, state |-> "AVAILABLE",
   attempts |-> attempts, source |-> entry.source,
   candidate |-> entry.candidate]

(* Further bugs, of the loop over the sources. *)

AsksBeyondTheLastSource(f, attempt) ==
  LET attempts == Append(f.attempts, attempt) IN
  IF f.left = 0
  THEN Unresolved(f.manifest, Append(attempts, DeadlineExceeded))
  ELSE Fetch(f.manifest, f.index + 1, attempts, f.left)

MovesOnPastDeadline(f, attempt) ==
  LET attempts == Append(f.attempts, attempt) IN
  IF f.index = NSources THEN Unresolved(f.manifest, attempts)
  ELSE Fetch(f.manifest, f.index + 1, attempts, f.left)

SkipsTheNextSource(f, attempt) ==
  LET attempts == Append(f.attempts, attempt) IN
  IF f.index + 1 >= NSources THEN Unresolved(f.manifest, attempts)
  ELSE Fetch(f.manifest, f.index + 2, attempts, f.left)

(* A bug: the next source is asked under the timeout that has expired. *)
KeepsTheExpiredTimer(f, attempt) ==
  LET attempts == Append(f.attempts, attempt) IN
  CASE f.index = NSources -> Unresolved(f.manifest, attempts)
    [] f.index < NSources /\ f.left = 0 ->
         Unresolved(f.manifest, Append(attempts, DeadlineExceeded))
    [] f.index < NSources /\ f.left > 0 ->
         [Fetch(f.manifest, f.index + 1, attempts, f.left) EXCEPT !.timer = f.timer]

(* The loop after a failed attempt: the next source, unless there is none  *)
(* or nothing is left of the deadline.                                     *)
MoveOn(f, attempt) ==
  LET attempts == Append(f.attempts, attempt) IN
  CASE f.index = NSources -> Unresolved(f.manifest, attempts)
    [] f.index < NSources /\ f.left = 0 ->
         Unresolved(f.manifest, Append(attempts, DeadlineExceeded))
    [] f.index < NSources /\ f.left > 0 ->
         Fetch(f.manifest, f.index + 1, attempts, f.left)

-----------------------------------------------------------------------------
(* The validators of the receipt an answer is written into. *)

AttemptFits(attempt) ==
  /\ attempt.code \in {"DEADLINE_EXCEEDED", "ATTEMPTS_TRUNCATED"} <=> attempt.source = 0
  /\ attempt.omitted = IF attempt.code = "ATTEMPTS_TRUNCATED" THEN 2 ELSE 0

EntryFits(answer) ==
  /\ Len(answer.attempts) <= MaxSources
  /\ \A i \in DOMAIN answer.attempts : AttemptFits(answer.attempts[i])
  /\ \/ /\ answer.state = "AVAILABLE"
        /\ answer.source # 0 /\ answer.candidate # NoCandidate
        /\ answer.candidate.packageDigest = answer.manifest.packageDigest
        /\ answer.candidate.snapshot = answer.manifest.snapshot
     \/ /\ answer.state # "AVAILABLE"
        /\ answer.source = 0 /\ answer.candidate = NoCandidate

-----------------------------------------------------------------------------
Init ==
  /\ call = [c \in Callers |-> [pc |-> "idle"]]
  /\ cache = [k \in CacheKeys |-> NoEntry]

(* A bug: the cache is filled and never read. *)
AsksDespiteTheCache(c, m) ==
  /\ ~IsFetching(c)
  /\ call' = [call EXCEPT ![c] = Fetch(m, 1, <<>>, TotalDeadline)]
  /\ UNCHANGED cache

(* resolve(manifest): answered from the cache, or the first source asked.  *)
Resolve(c, m) ==
  LET entry == cache[ExactContentCoordinate(m)] IN
  /\ ~IsFetching(c)
  /\ call' = [call EXCEPT ![c] =
       IF entry # NoEntry THEN Available(m, <<>>, entry)
       ELSE Fetch(m, 1, <<>>, TotalDeadline)]
  /\ UNCHANGED cache

(* fetch_exact() returned a candidate; the timeout may be due by then, but *)
(* has not been delivered.                                                 *)
ReceiveCandidate(c, candidate) ==
  LET f == call[c]
      mismatch == CandidateMismatch(f.manifest, candidate)
      entry == [source |-> f.index, candidate |-> candidate] IN
  /\ IsFetching(c)
  /\ \/ /\ mismatch # "NONE"
        /\ call' = [call EXCEPT ![c] =
                      MoveOn(f, Failed(f.index, mismatch))]
        /\ UNCHANGED cache
     \/ /\ mismatch = "NONE"
        /\ call' = [call EXCEPT ![c] =
                      Available(f.manifest, BoundedAttempts(f.attempts), entry)]
        /\ cache' = [cache EXCEPT ![ExactContentCoordinate(f.manifest)] = entry]

(* fetch_exact() raised a SourceFailure. *)
ReceiveFailure(c, code) ==
  /\ IsFetching(c)
  /\ call' = [call EXCEPT ![c] =
                MoveOn(call[c], Failed(call[c].index, code))]
  /\ UNCHANGED cache

(* A bug: the timeout of the deadline is not delivered. *)
WaitsForeverAtDeadline(c) ==
  LET f == call[c] IN
  /\ IsFetching(c) /\ f.timer = 0 /\ f.left > 0
  /\ call' = [call EXCEPT ![c] =
                MoveOn(f, Failed(f.index, "SOURCE_UNAVAILABLE"))]
  /\ UNCHANGED cache

(* wait_for() cancelled the source's coroutine and raised TimeoutError.    *)
(* At the deadline the loop ends; otherwise only this source was too slow. *)
TimeOut(c) ==
  LET f == call[c] IN
  /\ IsFetching(c)
  /\ f.timer = 0
  /\ call' = [call EXCEPT ![c] =
       IF f.left = 0
       THEN Unresolved(f.manifest, Append(f.attempts, DeadlineExceeded))
       ELSE MoveOn(f, Failed(f.index, "SOURCE_UNAVAILABLE"))]
  /\ UNCHANGED cache

(* Any other exception of fetch_exact() escapes resolve(). *)
Escape(c) ==
  /\ IsFetching(c)
  /\ call' = [call EXCEPT ![c] = [pc |-> "raised"]]
  /\ UNCHANGED cache

(* A bug: a cancelled call takes its entry out of the cache. *)
EvictsOnCancel(c) ==
  /\ IsFetching(c)
  /\ call' = [call EXCEPT ![c] = [pc |-> "cancelled"]]
  /\ cache' = [cache EXCEPT ![ExactContentCoordinate(call[c].manifest)] = NoEntry]

(* The deadline of the side, or the end of the server, cancels the call.   *)
(* The CancelledError unwinds resolve() and the source's coroutine in one  *)
(* step of the event loop; a thread the source awaited is not part of the  *)
(* call and goes on (SideWorkflows).                                       *)
Cancel(c) ==
  /\ IsFetching(c)
  /\ call' = [call EXCEPT ![c] = [pc |-> "cancelled"]]
  /\ UNCHANGED cache

(* One tick of the event loop's clock, for every call that waits. *)
Elapse ==
  /\ \E c \in Callers : IsFetching(c) /\ call[c].left > 0
  /\ call' = [c \in Callers |->
       IF IsFetching(c)
       THEN [call[c] EXCEPT !.left = IF @ > 0 THEN @ - 1 ELSE 0,
                            !.timer = IF @ > 0 THEN @ - 1 ELSE 0]
       ELSE call[c]]
  /\ UNCHANGED cache

Next ==
  \/ \E c \in Callers :
       \/ \E m \in Manifests : Resolve(c, m)
       \/ \E candidate \in Candidates : ReceiveCandidate(c, candidate)
       \/ \E code \in FailureCodes : ReceiveFailure(c, code)
       \/ TimeOut(c)
       \/ Escape(c)
       \/ Cancel(c)
  \/ Elapse

Spec == Init /\ [][Next]_vars

(* The clock advances and an expired timeout is delivered; no source has   *)
(* to answer and nobody has to call.                                       *)
FairSpec ==
  /\ Spec
  /\ WF_vars(Elapse)
  /\ \A c \in Callers : WF_vars(TimeOut(c))

-----------------------------------------------------------------------------
(* Every call is in one of its shapes and the cache maps a coordinate to   *)
(* nothing or to a source and a candidate.                                 *)
TypeOK ==
  /\ call \in [Callers -> FetchingCall \union ReturnedCall \union StoppedCall]
  /\ cache \in [CacheKeys -> Entry \union {NoEntry}]

(* a and b name the same exact content. *)
SameContent(a, b) ==
  \A component \in {"package", "packageDigest", "workflow", "snapshot", "roles"} :
    a[component] = b[component]

(* A cached candidate agrees with its key on every component, although the *)
(* key and the comparison that admits the candidate are written apart      *)
(* (_exact_content_coordinate, _candidate_mismatch) and calls for other    *)
(* Manifests fill the cache concurrently.                                  *)
CacheIsExact ==
  \A k \in CacheKeys :
    cache[k] # NoEntry => SameContent(cache[k].candidate, k)

(* An AVAILABLE answer, fresh or cached, carries a candidate that is the   *)
(* exact content the caller's own Manifest names.                          *)
AvailableIsExact ==
  \A c \in Callers :
    call[c].pc = "returned" /\ call[c].state = "AVAILABLE"
      => SameContent(call[c].candidate, call[c].manifest)

(* NOT_FOUND is a definite answer: every configured source was asked, in   *)
(* order, and none of them failed in a way that leaves the question open.  *)
NotFoundIsDefinite ==
  \A c \in Callers :
    call[c].pc = "returned" /\ call[c].state = "NOT_FOUND"
      => /\ Len(call[c].attempts) = NSources
         /\ \A i \in 1..NSources :
              /\ call[c].attempts[i].source = i
              /\ call[c].attempts[i].code \notin Indeterminate

(* The attempts of an answer name the sources asked without a gap, with at *)
(* most the deadline last; they are never truncated; and the source that   *)
(* matched is the first not named, unless the cache answered.              *)
AttemptsTellTheWholeStory ==
  \A c \in Callers :
    call[c].pc = "returned" =>
      LET attempts == call[c].attempts IN
      /\ \A i \in DOMAIN attempts :
           \/ attempts[i].source = i
           \/ i = Len(attempts) /\ attempts[i] = DeadlineExceeded
      /\ call[c].state = "AVAILABLE" =>
           \/ call[c].source = Len(attempts) + 1
           \/ /\ attempts = <<>>
              /\ cache[ExactContentCoordinate(call[c].manifest)] # NoEntry

(* Every answer passes the validators of the receipt it is written into,   *)
(* which the resolver itself does not call: a resolution that did not      *)
(* would turn into an exception nobody catches after all its work.         *)
AnswerFitsReceipt ==
  \A c \in Callers : call[c].pc = "returned" => EntryFits(call[c])

(* No source is asked, and no source is waited for, past the deadline of   *)
(* the call: a new request starts only with time left and with a timeout   *)
(* that does not outlast it.                                               *)
RequestsWithinDeadline ==
  [][\A c \in Callers :
       IsFetching(c)' /\ (IsFetching(c) => call'[c].index # call[c].index)
         => /\ call'[c].timer > 0
            /\ call'[c].timer <= call'[c].left]_vars

(* A resolution always ends, even when every source hangs. *)
ResolutionEnds ==
  \A c \in Callers : IsFetching(c) ~> ~IsFetching(c)
=============================================================================
