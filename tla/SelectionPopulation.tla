------------------------- MODULE SelectionPopulation -------------------------
(***************************************************************************)
(* SelectionPopulationResolver.resolve of resolution/service.py: the       *)
(* memberships of every selected Task, page by page; then the Manifest of  *)
(* every membership, once per digest; then the Workflow of every Manifest. *)
(* A step is what the event loop runs between two awaits.  The Evidence    *)
(* service changes between any two of them.                                *)
(***************************************************************************)
EXTENDS EvidenceTraversal, FiniteSets

CONSTANTS
  Tasks,            \* selection.task_ids: a sequence without repetition
  Deliveries,
  Digests,          \* Manifest digests, numbers: the code sorts by digest
  Accepted,         \* accepted digest, profile and source of a record
  Contents,         \* Contents[task]: what the membership route may hold
  MaxVersions,      \* bound of the model: versions of one route
  MaxDeliveries,    \* max_deliveries_per_side
  NoReading

TaskIds == Range(Tasks)

(* task is the Task the record names; late: recorded_at after the cutoff. *)
Membership == [task: TaskIds, delivery: Deliveries, digest: Digests,
               accepted: Accepted, late: BOOLEAN]

Reading == [task: TaskIds, delivery: Deliveries, accepted: Accepted]

ASSUME PopulationAssumption ==
  /\ Tasks \in Seq(TaskIds) /\ Tasks # <<>>
  /\ \A i, j \in DOMAIN Tasks : Tasks[i] = Tasks[j] => i = j
  /\ Digests \subseteq Nat /\ MaxDeliveries \in Nat \ {0}
  /\ \A task \in TaskIds : Contents[task] \subseteq Seq(Membership)
  /\ NoReading \notin Reading

VARIABLES
  history,      \* the versions of every Task's membership route (external)
  phase,        \* "membership", "manifest", "workflow", "done" or "failed"
  failure,      \* why the resolution failed
  current,      \* position in Tasks of the Task being traversed
  traversal,    \* its traversal
  population,   \* population[task]: the memberships a traversal collected
  snapshots,    \* snapshots[task]: the snapshot of its evidence binding
  readings,     \* the Manifest readings by digest
  pending,      \* memberships whose Manifest is not yet checked
  workflows     \* the digests whose Workflow is resolved

vars == <<history, phase, failure, current, traversal, population, snapshots,
          readings, pending, workflows>>

client == <<phase, failure, current, traversal, population, snapshots,
            readings, pending, workflows>>

-----------------------------------------------------------------------------
Selected == UNION {Range(population[task]) : task \in TaskIds}

DeliveriesOf(members) == {m.delivery : m \in members}

(* Bugs the properties below are shown to catch. *)

CountsThisTaskOnly(items) == DeliveriesOf(Range(traversal.items) \union items)

ConflictsOfTasksOnly(reading, m) ==
  reading.task # m.task \/ reading.accepted # m.accepted

(* The item is refused whatever the bound says. *)
Mismatched(item) == item.task # Tasks[current] \/ item.late

SoFar(items) == DeliveriesOf(Selected \union Range(traversal.items) \union items)

(* The first item of the page, if any, the loop over the items stops at. *)
StopsAt(items, i) ==
  \/ Mismatched(items[i])
  \/ Cardinality(SoFar({items[j] : j \in 1..i})) > MaxDeliveries

Refusal(items) ==
  IF ~\E i \in DOMAIN items : StopsAt(items, i) THEN "none"
  ELSE LET first == CHOOSE i \in DOMAIN items :
                      StopsAt(items, i) /\ \A j \in 1..(i - 1) : ~StopsAt(items, j)
       IN IF Mismatched(items[first]) THEN "membership" ELSE "deliveries"

Duplicated(items) == Cardinality(DeliveriesOf(Range(items))) # Len(items)

-----------------------------------------------------------------------------
Init ==
  /\ history \in [TaskIds -> UNION {{<<content>> : content \in Contents[task]} : task \in TaskIds}]
  /\ \A task \in TaskIds : history[task][1] \in Contents[task]
  /\ phase = "membership" /\ failure = "none"
  /\ current = 1 /\ traversal = NewTraversal
  /\ population = [task \in TaskIds |-> <<>>]
  /\ snapshots = [task \in TaskIds |-> 0]
  /\ readings = [digest \in Digests |-> NoReading]
  /\ pending = {} /\ workflows = {}

(* External: the route's content changes. *)
Change(task, content) ==
  /\ Len(history[task]) < MaxVersions
  /\ phase \notin {"done", "failed"}
  /\ history' = [history EXCEPT ![task] = Append(@, content)]
  /\ UNCHANGED client

Fail(reason) ==
  /\ phase' = "failed" /\ failure' = reason
  /\ UNCHANGED <<history, current, traversal, population, snapshots, readings,
                 pending, workflows>>

PageBound ==
  /\ phase = "membership" /\ PagesExhausted(traversal)
  /\ Fail("pages")

(* A page that ends the resolution. *)
RefusePage(page) ==
  /\ phase = "membership" /\ ~PagesExhausted(traversal)
  /\ \/ Drifts(traversal, page) /\ Fail("drift")
     \/ /\ ~Drifts(traversal, page)
        /\ \/ Refusal(page.items) # "none" /\ Fail(Refusal(page.items))
           \/ /\ Refusal(page.items) = "none"
              /\ \/ RepeatsCursor(traversal, page) /\ Fail("repeated")
                 \/ /\ page.cursor = NoCursor
                    /\ Duplicated(traversal.items \o page.items)
                    /\ Fail("duplicate")

Admissible(page) ==
  ~Drifts(traversal, page) /\ Refusal(page.items) = "none"

(* A page after which there is another one. *)
NextPage(page) ==
  /\ phase = "membership" /\ ~PagesExhausted(traversal)
  /\ Admissible(page) /\ page.cursor # NoCursor /\ ~RepeatsCursor(traversal, page)
  /\ traversal' = Extend(traversal, page)
  /\ UNCHANGED <<history, phase, failure, current, population, snapshots,
                 readings, pending, workflows>>

(* The last page of a Task: its population entry, and the next Task or the *)
(* Manifests.                                                              *)
LastPage(page) ==
  LET members == Extend(traversal, page).items IN
  /\ phase = "membership" /\ ~PagesExhausted(traversal)
  /\ Admissible(page) /\ page.cursor = NoCursor /\ ~Duplicated(members)
  /\ population' = [population EXCEPT ![Tasks[current]] = members]
  /\ snapshots' = [snapshots EXCEPT ![Tasks[current]] = page.snapshot]
  /\ pending' = pending \union Range(members)
  /\ traversal' = NewTraversal
  /\ \/ /\ current < Len(Tasks)
        /\ current' = current + 1 /\ UNCHANGED phase
     \/ /\ current = Len(Tasks)
        /\ phase' = IF pending' = {} THEN "done" ELSE "manifest"
        /\ UNCHANGED current
  /\ UNCHANGED <<history, failure, readings, workflows>>

(* The membership to check next; two of one digest in either order. *)
IsNext(m) == m \in pending /\ \A n \in pending : m.digest <= n.digest

Conflicts(reading, m) ==
  \/ reading.task # m.task
  \/ reading.delivery # m.delivery
  \/ reading.accepted # m.accepted

(* The Manifest of membership m, fetched unless its digest was read before, *)
(* and compared with the membership.                                       *)
CheckManifest(m, reading) ==
  /\ phase = "manifest" /\ IsNext(m)
  /\ readings[m.digest] # NoReading => reading = readings[m.digest]
  /\ \/ Conflicts(reading, m) /\ Fail("manifest")
     \/ /\ ~Conflicts(reading, m)
        /\ readings' = [readings EXCEPT ![m.digest] = reading]
        /\ pending' = pending \ {m}
        /\ phase' = IF pending' = {} THEN "workflow" ELSE phase
        /\ UNCHANGED <<history, failure, current, traversal, population,
                       snapshots, workflows>>

Read == {digest \in Digests : readings[digest] # NoReading}

(* The Workflow of the next digest is resolved, to whatever state. *)
ResolveWorkflow(digest) ==
  /\ phase = "workflow" /\ digest \in Read \ workflows
  /\ \A other \in Read \ workflows : digest <= other
  /\ workflows' = workflows \union {digest}
  /\ phase' = IF workflows' = Read THEN "done" ELSE phase
  /\ UNCHANGED <<history, failure, current, traversal, population, snapshots,
                 readings, pending>>

(* The Evidence request of this step fails in transport or in contract. *)
RequestFails(reason) ==
  /\ \/ phase = "membership" /\ ~PagesExhausted(traversal)
     \/ /\ phase = "manifest"
        /\ \E m \in pending : IsNext(m) /\ readings[m.digest] = NoReading
  /\ Fail(reason)

(* An exception the Workflow resolver does not catch. *)
WorkflowEscapes ==
  /\ phase = "workflow"
  /\ Fail("escaped")

Membering ==
  \/ PageBound
  \/ \E page \in ServedPages(history[Tasks[current]], traversal) :
       RefusePage(page) \/ NextPage(page) \/ LastPage(page)

Checking == \E m \in pending, reading \in Reading : CheckManifest(m, reading)

Resolving == \E digest \in Digests : ResolveWorkflow(digest)

Next ==
  \/ Membering \/ Checking \/ Resolving
  \/ \E reason \in {"unavailable", "contract"} : RequestFails(reason)
  \/ WorkflowEscapes
  \/ \E task \in TaskIds : \E content \in Contents[task] : Change(task, content)

Spec == Init /\ [][Next]_vars

(* Every await ends: an Evidence request by the transport's timeout, a     *)
(* Workflow resolution by its deadline.                                    *)
FairSpec == Spec /\ WF_vars(Membering \/ Checking \/ Resolving)

-----------------------------------------------------------------------------
TraversalState == [pages: 0..MaxPages, cursor: Nat \union {NoCursor},
                   seen: SUBSET Nat, snapshot: 0..MaxVersions,
                   items: Seq(Membership)]

(* Every variable has its type. *)
TypeOK ==
  /\ \A task \in TaskIds :
       history[task] \in Seq(Contents[task]) /\ Len(history[task]) \in 1..MaxVersions
  /\ phase \in {"membership", "manifest", "workflow", "done", "failed"}
  /\ failure \in {"none", "pages", "deliveries", "repeated", "drift", "membership",
                 "duplicate", "manifest", "unavailable", "contract", "escaped"}
  /\ current \in DOMAIN Tasks
  /\ traversal \in TraversalState
  /\ population \in [TaskIds -> Seq(Membership)]
  /\ snapshots \in [TaskIds -> 0..MaxVersions]
  /\ readings \in [Digests -> Reading \union {NoReading}]
  /\ pending \subseteq Membership
  /\ workflows \subseteq Digests

(* Every Task's membership traversal is one read of one version of its     *)
(* route, every record once: the population entry is exactly what the      *)
(* route held at the snapshot its evidence binding names, however the      *)
(* route changed and whatever cursors came back meanwhile.                 *)
Abstract == INSTANCE SnapshotRead WITH
  Routes <- TaskIds, Unread <- NoReading,
  outcome <- [task \in TaskIds |->
    IF snapshots[task] = 0 THEN NoReading
    ELSE [version |-> snapshots[task], items |-> population[task]]]

PopulationReadsSnapshots == Abstract!Spec

(* The bounds are kept, and refuse only what exceeds them: no more than    *)
(* max_deliveries_per_side Deliveries are ever accepted over all Tasks     *)
(* together; a traversal fails by the page bound when all its pages are    *)
(* spent and another one is due, by the Delivery bound when the routes did *)
(* hold more Deliveries, by the cursor check only behind an earlier page   *)
(* of the same Task (another Task's cursors are no repetition), and by the *)
(* duplicate check when the route holds one or a cursor pointed back.      *)
BoundsAreExact ==
  /\ Cardinality(DeliveriesOf(Selected \union Range(traversal.items))) <= MaxDeliveries
  /\ failure = "pages" => traversal.pages = MaxPages /\ traversal.cursor # NoCursor
  /\ failure = "deliveries" =>
       Cardinality(UNION {UNION {DeliveriesOf(Range(history[task][v])) :
                                  v \in DOMAIN history[task]} :
                           task \in TaskIds}) > MaxDeliveries
  /\ failure = "repeated" => traversal.cursor # NoCursor
  /\ failure = "duplicate" =>
       \/ \E v \in DOMAIN history[Tasks[current]] :
            Duplicated(history[Tasks[current]][v])
       \/ traversal.cursor # NoCursor /\ traversal.cursor < traversal.pages * PageSize

(* The validators of the receipt and of its population entries, as far as  *)
(* the population decides them: each Task has one complete traversal and   *)
(* no Delivery twice, nothing is later than the cutoff, and the Workflow   *)
(* entries are those of the Manifests.                                     *)
EntryFits(members) == Cardinality(DeliveriesOf(Range(members))) = Len(members)

ReceiptFits ==
  /\ \A task \in TaskIds : snapshots[task] # 0 /\ EntryFits(population[task])
  /\ \A m \in Selected : ~m.late
  /\ workflows = {m.digest : m \in Selected}

(* A completed population pairs memberships and Manifests one to one: each *)
(* membership has a reading of its own Task and Delivery, no two of them   *)
(* share a digest; and the receipt made of the population is valid.        *)
ManifestsMatchMemberships ==
  phase = "done" =>
    /\ \A m \in Selected :
         /\ readings[m.digest] # NoReading
         /\ readings[m.digest].task = m.task
         /\ readings[m.digest].delivery = m.delivery
    /\ \A m, n \in Selected : m.digest = n.digest => m = n
    /\ ReceiptFits

(* The resolution ends, whatever cursors the Evidence service sends. *)
ResolutionEnds == <>(phase \in {"done", "failed"})
=============================================================================
