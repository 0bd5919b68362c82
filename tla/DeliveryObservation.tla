------------------------- MODULE DeliveryObservation -------------------------
(***************************************************************************)
(* DeliveryObservationResolver.resolve of resolution/service.py: all Facts *)
(* of a Delivery, then all its Trace nodes.  Each route is read at its own *)
(* snapshot; the trace state, which retention changes, must stay the same  *)
(* on every Trace page; duplicate identities are refused at the end.       *)
(***************************************************************************)
EXTENDS EvidenceTraversal, FiniteSets

CONSTANTS
  Identities,     \* the identities of Facts and Trace nodes
  Contents,       \* Contents[route]: what the route may hold
  MaxVersions,    \* bound of the model: versions of one route
  MaxFlips,       \* bound of the model: changes of the trace state
  Unread

Routes == {"facts", "traces"}

TraceStates == {"ABSENT", "AVAILABLE", "PARTIAL", "EXPIRED"}

ASSUME ObservationAssumption ==
  \A route \in Routes : Contents[route] \subseteq Seq(Identities)

VARIABLES
  history,      \* the versions of both routes (external)
  retention,    \* the trace state now, and how often it changed (external)
  phase,        \* the route being read, "done" or "failed"
  failure,      \* why the resolution failed
  traversal,    \* the traversal of that route
  collected,    \* collected[route]: the items of a completed traversal
  snapshots,    \* snapshots[route]: the snapshot of its evidence binding
  traceState,   \* trace_state: of the Trace pages so far
  reported      \* every trace state the service put on a page (auxiliary)

vars == <<history, retention, phase, failure, traversal, collected, snapshots,
          traceState, reported>>

client == <<phase, failure, traversal, collected, snapshots, traceState, reported>>

-----------------------------------------------------------------------------
(* Bugs the properties below are shown to catch. *)

ForgetsTheTraceState(page) == FALSE

DuplicatesWithinFacts(facts, nodes) == Cardinality(Range(facts)) # Len(facts)

-----------------------------------------------------------------------------
StateDrifts(page) == traceState # "NONE" /\ page.state # traceState

Duplicated(facts, nodes) ==
  \/ Cardinality(Range(facts)) # Len(facts)
  \/ Cardinality(Range(nodes)) # Len(nodes)

(* A page as the service sends it now; only Traces carry a state. *)
Served(route) ==
  {[snapshot |-> page.snapshot, items |-> page.items, cursor |-> page.cursor,
    state |-> IF route = "traces" THEN retention.state ELSE "NONE"] :
   page \in ServedPages(history[route], traversal)}

Init ==
  /\ history \in [Routes -> {<<content>> : content \in UNION {Contents[r] : r \in Routes}}]
  /\ \A route \in Routes : history[route][1] \in Contents[route]
  /\ retention \in [state: TraceStates, flips: {0}]
  /\ phase = "facts" /\ failure = "none" /\ traversal = NewTraversal
  /\ collected = [route \in Routes |-> <<>>]
  /\ snapshots = [route \in Routes |-> 0]
  /\ traceState = "NONE" /\ reported = {}

(* External: the content of a route changes. *)
Change(route, content) ==
  /\ phase \in Routes /\ Len(history[route]) < MaxVersions
  /\ history' = [history EXCEPT ![route] = Append(@, content)]
  /\ UNCHANGED <<retention, client>>

(* External: spans arrive or retention removes them. *)
Flip(state) ==
  /\ phase = "traces" /\ retention.flips < MaxFlips /\ state # retention.state
  /\ retention' = [state |-> state, flips |-> retention.flips + 1]
  /\ UNCHANGED <<history, client>>

Fail(reason) ==
  /\ phase' = "failed" /\ failure' = reason
  /\ UNCHANGED <<history, retention, traversal, collected, snapshots, traceState,
                 reported>>

PageBound ==
  /\ phase \in Routes /\ PagesExhausted(traversal)
  /\ Fail("pages")

Asks == phase \in Routes /\ ~PagesExhausted(traversal)

Admissible(page) == ~Drifts(traversal, page) /\ ~StateDrifts(page)

RefusePage(page) ==
  /\ Asks
  /\ \/ Drifts(traversal, page) /\ Fail("drift")
     \/ ~Drifts(traversal, page) /\ StateDrifts(page) /\ Fail("state")
     \/ Admissible(page) /\ RepeatsCursor(traversal, page) /\ Fail("repeated")
     \/ /\ Admissible(page) /\ phase = "traces" /\ page.cursor = NoCursor
        /\ Duplicated(collected.facts, Extend(traversal, page).items)
        /\ Fail("duplicate")

NextPage(page) ==
  /\ Asks /\ Admissible(page)
  /\ page.cursor # NoCursor /\ ~RepeatsCursor(traversal, page)
  /\ traversal' = Extend(traversal, page)
  /\ traceState' = page.state
  /\ reported' = IF phase = "traces" THEN reported \union {page.state} ELSE reported
  /\ UNCHANGED <<history, retention, phase, failure, collected, snapshots>>

(* The last page of Facts, after which Traces are read; the last page of   *)
(* Traces, after which the observation is complete.                        *)
LastPage(page) ==
  LET items == Extend(traversal, page).items IN
  /\ Asks /\ Admissible(page) /\ page.cursor = NoCursor
  /\ \/ phase = "facts" /\ phase' = "traces"
     \/ phase = "traces" /\ ~Duplicated(collected.facts, items) /\ phase' = "done"
  /\ collected' = [collected EXCEPT ![phase] = items]
  /\ snapshots' = [snapshots EXCEPT ![phase] = page.snapshot]
  /\ traversal' = NewTraversal
  /\ traceState' = page.state
  /\ reported' = IF phase = "traces" THEN reported \union {page.state} ELSE reported
  /\ UNCHANGED <<history, retention, failure>>

(* The request fails in transport or in contract. *)
RequestFails(reason) == Asks /\ Fail(reason)

Reading ==
  \/ PageBound
  \/ /\ phase \in Routes
     /\ \E page \in Served(phase) : RefusePage(page) \/ NextPage(page) \/ LastPage(page)

Next ==
  \/ Reading
  \/ \E reason \in {"unavailable", "contract"} : RequestFails(reason)
  \/ \E route \in Routes : \E content \in Contents[route] : Change(route, content)
  \/ \E state \in TraceStates : Flip(state)

Spec == Init /\ [][Next]_vars

(* Every Evidence request ends, by the transport's timeout at the latest. *)
FairSpec == Spec /\ WF_vars(Reading)

-----------------------------------------------------------------------------
TraversalState == [pages: 0..MaxPages, cursor: Nat \union {NoCursor},
                   seen: SUBSET Nat, snapshot: 0..MaxVersions,
                   items: Seq(Identities)]

(* Every variable has its type. *)
TypeOK ==
  /\ \A route \in Routes :
       history[route] \in Seq(Contents[route]) /\ Len(history[route]) \in 1..MaxVersions
  /\ retention \in [state: TraceStates, flips: 0..MaxFlips]
  /\ phase \in Routes \union {"done", "failed"}
  /\ failure \in {"none", "pages", "repeated", "drift", "state", "duplicate",
                 "unavailable", "contract"}
  /\ traversal \in TraversalState
  /\ collected \in [Routes -> Seq(Identities)]
  /\ snapshots \in [Routes -> 0..MaxVersions]
  /\ traceState \in TraceStates \union {"NONE"}
  /\ reported \subseteq TraceStates

(* A completed observation holds the whole content of one version of the   *)
(* Facts and of one version of the Traces, every identity once, although   *)
(* both routes change between the requests; until then it exposes nothing. *)
Abstract == INSTANCE SnapshotRead WITH
  outcome <- [route \in Routes |->
    IF phase # "done" THEN Unread
    ELSE [version |-> snapshots[route], items |-> collected[route]]]

ObservationReadsSnapshots == Abstract!Spec

(* The trace state of an observation is the one every Trace page carried:  *)
(* no page of a trace that was expiring or still partial is kept under the *)
(* label of another state.                                                 *)
TraceStateHeldThroughout == phase = "done" => reported = {traceState}

(* The observation ends, whatever cursors the Evidence service sends. *)
ObservationEnds == <>(phase \in {"done", "failed"})
=============================================================================
