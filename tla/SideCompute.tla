----------------------------- MODULE SideCompute -----------------------------
(***************************************************************************)
(* One side of a computation: EvolutionComputeService._compute_side of     *)
(* compute.py under its side deadline.  The population is resolved, every  *)
(* Delivery of it is observed (Facts, then Traces), and then, without      *)
(* another await, the readings are cut at as_of, Deliveries whose evidence *)
(* has expired are set aside, and the units, the Task population and the   *)
(* receipt are derived.                                                    *)
(*                                                                         *)
(* The resolvers' own steps are the modules SelectionPopulation and        *)
(* DeliveryObservation; here a resolved population is one step and the     *)
(* read of one route of a Delivery is one step, as SnapshotRead promises.  *)
(* The Evidence service records and expires items between any two steps;   *)
(* what it records after the side began carries a recorded_at after as_of. *)
(* The metric formulas are not in this module.                             *)
(***************************************************************************)
EXTENDS Integers, FiniteSets

CONSTANTS
  Tasks,            \* the selected Tasks
  Deliveries,
  Populations,      \* the functions from Tasks to sets of Deliveries
  Items,            \* Items[d]: the Facts and Trace nodes d may have
  MaxDeliveries,    \* max_deliveries_per_side
  MaxInputs,        \* max_input_records_per_side
  InitialTraces,    \* InitialTraces[d]: trace states a side may find at first
  MaxChanges,       \* bound of the model: changes of the store during a side
  None

Routes == {"facts", "traces"}

(* A Fact's content is the outcome of a final delivery.summary, a node's   *)
(* the identity of a model call; both may have none.                       *)
Item == [route: Routes, id: STRING, provenance: STRING, content: STRING]

TraceStates == {"ABSENT", "AVAILABLE", "PARTIAL", "EXPIRED"}

ReadingsOf(d) == [item: Items[d], late: BOOLEAN, expired: BOOLEAN]

ObservationsOf(d) == [readings: SUBSET ReadingsOf(d), traceState: TraceStates]

ASSUME SideAssumption ==
  /\ IsFiniteSet(Tasks) /\ IsFiniteSet(Deliveries)
  /\ Populations \subseteq [Tasks -> SUBSET Deliveries]
  /\ \A d \in Deliveries : \A item \in Items[d] :
       /\ DOMAIN item = {"route", "id", "provenance", "content"}
       /\ item.route \in Routes
  /\ \A d \in Deliveries : IsFiniteSet(Items[d])
  /\ \A d \in Deliveries : InitialTraces[d] \subseteq TraceStates
  /\ None \notin Deliveries /\ \A d \in Deliveries : None \notin ObservationsOf(d)
  /\ MaxChanges \in Nat
  /\ MaxDeliveries \in Nat \ {0} /\ MaxInputs \in Nat \ {0}

VARIABLES
  store,        \* store[d]: recorded and expired items, trace state (external)
  baseline,     \* store when the side began, its as_of (auxiliary)
  phase,        \* "population", "facts", "traces", "tail", "done", "failed"
  failure,      \* the exception that ended the side
  population,   \* the resolved population
  current,      \* the Delivery whose routes are being read
  facts,        \* what its Facts route returned
  observed,     \* observations by Delivery
  result        \* what the side derived

vars == <<store, baseline, phase, failure, population, current, facts, observed, result>>

-----------------------------------------------------------------------------
Selected == UNION {population[task] : task \in Tasks}

(* A reading: an item, whether it was recorded after as_of, whether it had *)
(* expired when it was read.                                               *)
Readings(d, route) ==
  {[item |-> item, late |-> item \in store[d].late, expired |-> item \in store[d].expired] :
     item \in {i \in store[d].recorded : i.route = route}}

NextDelivery == {d \in Selected : observed[d] = None}

Read(d) == IF observed[d] = None THEN {} ELSE observed[d].readings

(* Bugs the properties below are shown to catch. *)

KeepsLateReadings(d) == Read(d)

ExcludesByTheTraceOnly(d) == observed[d].traceState \in {"PARTIAL", "EXPIRED"}

-----------------------------------------------------------------------------
(* observed_facts_by_delivery and observed_nodes_by_delivery. *)
AsOf(d) == {r \in Read(d) : ~r.late}

RetentionExcluded(d) ==
  \/ observed[d].traceState \in {"PARTIAL", "EXPIRED"}
  \/ \E r \in AsOf(d) : r.expired

Active == {d \in Selected : ~RetentionExcluded(d)}

Contents(d, route) ==
  {r.item.content : r \in {x \in AsOf(d) : x.item.route = route}} \ {"none"}

(* next(iter(...)) of a set that should have one element. *)
TheOne(set) == CHOOSE x \in set : TRUE

(* normalize_delivery: the one terminal outcome of a Delivery, if any. *)
OutcomesConflict == \E d \in Active : Cardinality(Contents(d, "facts")) > 1

Outcome(d) == IF Contents(d, "facts") = {} THEN None
              ELSE TheOne(Contents(d, "facts"))

(* Two nodes of active Deliveries are the same model call. *)
CallsCollide ==
  \E d, e \in Active : \E r \in AsOf(d), q \in AsOf(e) :
    /\ r.item.route = "traces" /\ q.item.route = "traces"
    /\ r.item.content # "none" /\ r.item.content = q.item.content
    /\ <<d, r.item.id>> # <<e, q.item.id>>

(* _unique_references: one identity with two provenances. *)
ReferencesConflict ==
  \E d, e \in Selected : \E r \in AsOf(d), q \in AsOf(e) :
    /\ r.item.route = q.item.route /\ r.item.id = q.item.id
    /\ r.item.provenance # q.item.provenance

-----------------------------------------------------------------------------
ActiveMembers(task) == population[task] \intersect Active

(* The Tasks with a unit: those with an active membership or with none. *)
UnitTasks == {task \in Tasks : ActiveMembers(task) # {} \/ population[task] = {}}

(* A bug: Deliveries of different outcomes are not told apart. *)
IgnoresMixture(task) ==
  LET outcomes == {Outcome(d) : d \in ActiveMembers(task)} IN
  CASE ActiveMembers(task) = {} -> "UNDEFINED_TASK_MEMBERSHIP"
    [] None \in outcomes -> "OPEN_DELIVERY"
    [] OTHER -> "ELIGIBLE"

(* normalize_task *)
Classification(task) ==
  LET outcomes == {Outcome(d) : d \in ActiveMembers(task)} IN
  CASE ActiveMembers(task) = {} -> "UNDEFINED_TASK_MEMBERSHIP"
    [] None \in outcomes -> "OPEN_DELIVERY"
    [] None \notin outcomes /\ Cardinality(outcomes) > 1 -> "MIXED_DELIVERY_OUTCOMES"
    [] OTHER -> "ELIGIBLE"

TerminalReading(task) ==
  IF task \in UnitTasks /\ Classification(task) = "ELIGIBLE"
  THEN Outcome(TheOne(ActiveMembers(task))) ELSE None

ClassExclusions(task) ==
  IF task \in UnitTasks THEN {Classification(task)} \ {"ELIGIBLE"} ELSE {}

Exclusions(task) ==
  ClassExclusions(task) \union
  (IF population[task] \ Active # {} THEN {"EXPIRED_DELIVERY"} ELSE {})

(* A bug: a Task without membership does not make the population partial. *)
ForgetsUndefinedTasks ==
  LET classes == {Classification(task) : task \in UnitTasks} IN
  CASE Selected \ Active # {} -> "EXPIRED"
    [] Selected \subseteq Active ->
         CASE "OPEN_DELIVERY" \in classes -> "OPEN"
           [] "OPEN_DELIVERY" \notin classes /\ "MIXED_DELIVERY_OUTCOMES" \in classes -> "MIXED"
           [] OTHER -> "COMPLETE"

(* _population_state; its PARTIAL trace branch is never reached, because   *)
(* a partial trace also sets its Delivery aside.                           *)
PopulationState ==
  LET classes == {Classification(task) : task \in UnitTasks} IN
  CASE Selected \ Active # {} -> "EXPIRED"
    [] Selected \subseteq Active /\ "UNDEFINED_TASK_MEMBERSHIP" \in classes -> "PARTIAL"
    [] Selected \subseteq Active /\ "UNDEFINED_TASK_MEMBERSHIP" \notin classes ->
         CASE "OPEN_DELIVERY" \in classes -> "OPEN"
           [] "OPEN_DELIVERY" \notin classes /\ "MIXED_DELIVERY_OUTCOMES" \in classes -> "MIXED"
           [] OTHER -> "COMPLETE"

SideResult ==
  [units      |-> {<<d, Outcome(d)>> : d \in Active},
   calls      |-> UNION {{<<d, call>> : call \in Contents(d, "traces")} : d \in Active},
   terminal   |-> [task \in Tasks |-> TerminalReading(task)],
   exclusions |-> [task \in Tasks |-> Exclusions(task)],
   references |-> UNION {{r.item : r \in AsOf(d)} : d \in Selected},
   state      |-> PopulationState]

-----------------------------------------------------------------------------
Stores == [recorded: SUBSET UNION {Items[d] : d \in Deliveries},
           late: {{}}, expired: {{}}, traceState: TraceStates]

Init ==
  /\ store \in [Deliveries -> Stores]
  /\ \A d \in Deliveries :
       store[d].recorded \subseteq Items[d] /\ store[d].traceState \in InitialTraces[d]
  /\ baseline = store
  /\ phase = "population" /\ failure = "none"
  /\ population = [task \in Tasks |-> {}]
  /\ current = None /\ facts = {} /\ result = None
  /\ observed = [d \in Deliveries |-> None]

Awaiting == phase \in {"population", "facts", "traces"}

client == <<baseline, phase, failure, population, current, facts, observed, result>>

Changes ==
  Cardinality({d \in Deliveries : store[d].traceState # baseline[d].traceState})
  + Cardinality(UNION {{<<d, i>> : i \in store[d].late} : d \in Deliveries})
  + Cardinality(UNION {{<<d, i>> : i \in store[d].expired} : d \in Deliveries})

(* External: an item is recorded, after the side's cutoff. *)
Record(d, item) ==
  /\ Awaiting /\ Changes < MaxChanges /\ item \in Items[d] \ store[d].recorded
  /\ store' = [store EXCEPT ![d].recorded = @ \union {item}, ![d].late = @ \union {item}]
  /\ UNCHANGED client

(* External: an item expires. *)
Expire(d, item) ==
  /\ Awaiting /\ Changes < MaxChanges /\ item \in store[d].recorded \ store[d].expired
  /\ store' = [store EXCEPT ![d].expired = @ \union {item}]
  /\ UNCHANGED client

(* External: the state of a trace changes; a partial one may be completed. *)
ChangeTrace(d, state) ==
  /\ Awaiting /\ Changes < MaxChanges /\ state # store[d].traceState
  /\ store' = [store EXCEPT ![d].traceState = state]
  /\ UNCHANGED client

(* An exception leaves nothing of the side's readings behind. *)
Fail(exception) ==
  /\ phase' = "failed" /\ failure' = exception
  /\ population' = [task \in Tasks |-> {}]
  /\ current' = None /\ facts' = {}
  /\ observed' = [d \in Deliveries |-> None]
  /\ UNCHANGED <<store, baseline, result>>

(* After an await: the next Delivery to observe, or the tail. *)
Proceed(remaining) ==
  \/ /\ remaining # {}
     /\ phase' = "facts" /\ current' \in remaining
  \/ /\ remaining = {}
     /\ phase' = "tail" /\ current' = None

(* The population is resolved.  The bound is checked again here. *)
ResolvePopulation(resolved) ==
  LET selected == UNION {resolved[task] : task \in Tasks} IN
  /\ phase = "population"
  /\ \/ /\ Cardinality(selected) > MaxDeliveries
        /\ Fail("BOUND")
     \/ /\ Cardinality(selected) <= MaxDeliveries
        /\ population' = resolved
        /\ Proceed(selected)
        /\ UNCHANGED <<store, baseline, failure, facts, observed, result>>

ReadFacts ==
  /\ phase = "facts"
  /\ facts' = Readings(current, "facts")
  /\ phase' = "traces"
  /\ UNCHANGED <<store, baseline, failure, population, current, observed, result>>

Observation ==
  [readings |-> facts \union Readings(current, "traces"),
   traceState |-> store[current].traceState]

InputCount(observations) ==
  Cardinality(UNION {{<<d, r>> : r \in observations[d].readings} :
                       d \in {e \in Deliveries : observations[e] # None}})

(* The Traces of the Delivery complete its observation; the records of all *)
(* observations are counted before the next one.                           *)
ReadTraces ==
  LET observations == [observed EXCEPT ![current] = Observation] IN
  /\ phase = "traces"
  /\ \/ InputCount(observations) > MaxInputs /\ Fail("BOUND")
     \/ /\ InputCount(observations) <= MaxInputs
        /\ observed' = observations
        /\ facts' = {}
        /\ Proceed(NextDelivery \ {current})
        /\ UNCHANGED <<store, baseline, failure, population, result>>

(* Everything after the last await. *)
Derive ==
  /\ phase = "tail"
  /\ \/ OutcomesConflict /\ Fail("MISMATCH")
     \/ ~OutcomesConflict /\ (CallsCollide \/ ReferencesConflict) /\ Fail("UNCAUGHT")
     \/ /\ ~OutcomesConflict /\ ~CallsCollide /\ ~ReferencesConflict
        /\ phase' = "done" /\ result' = SideResult
        /\ UNCHANGED <<store, baseline, failure, population, current, facts, observed>>

(* A resolver raises one of its exceptions, or one that nobody catches. *)
ResolverFails(exception) == Awaiting /\ Fail(exception)

(* A bug: the deadline covers the population only. *)
PopulationDeadline == phase = "population" /\ Fail("BOUND")

(* asyncio.timeout cancels the await; TimeoutError becomes a bound.  Work  *)
(* after the last await is not interrupted.                                *)
SideDeadline == Awaiting /\ Fail("BOUND")

Next ==
  \/ \E resolved \in Populations : ResolvePopulation(resolved)
  \/ ReadFacts
  \/ ReadTraces
  \/ Derive
  \/ \E exception \in {"UNAVAILABLE", "BOUND", "MISMATCH", "UNCAUGHT"} : ResolverFails(exception)
  \/ SideDeadline
  \/ \E d \in Deliveries :
       \/ \E item \in Items[d] : Record(d, item) \/ Expire(d, item)
       \/ \E state \in TraceStates : ChangeTrace(d, state)

Spec == Init /\ [][Next]_vars

(* Only the deadline and the code itself make progress: no resolver has to *)
(* answer.                                                                 *)
FairSpec == Spec /\ WF_vars(SideDeadline) /\ WF_vars(Derive)

-----------------------------------------------------------------------------
(* Every variable has its type. *)
TypeOK ==
  /\ DOMAIN store = Deliveries
  /\ \A d \in Deliveries :
       /\ store[d].recorded \subseteq Items[d]
       /\ store[d].late \subseteq store[d].recorded
       /\ store[d].expired \subseteq store[d].recorded
       /\ store[d].traceState \in TraceStates
       /\ observed[d] = None \/ observed[d] \in ObservationsOf(d)
  /\ phase \in {"population", "facts", "traces", "tail", "done", "failed"}
  /\ failure \in {"none", "UNAVAILABLE", "BOUND", "MISMATCH", "UNCAUGHT"}
  /\ population \in [Tasks -> SUBSET Deliveries]
  /\ current \in Deliveries \union {None}
  /\ current # None => facts \subseteq ReadingsOf(current)

(* What the receipt references and what every unit is derived from is the  *)
(* evidence as it was recorded when the side began, whatever is recorded   *)
(* while the Deliveries are observed one after the other; and no unit      *)
(* picks one of two outcomes that its Facts contradict each other about.   *)
InputsAreAsOf ==
  phase = "done" =>
    /\ result.references = UNION {baseline[d].recorded : d \in Selected}
    /\ \A unit \in result.units :
         LET summaries == {i \in baseline[unit[1]].recorded :
                             i.route = "facts" /\ i.content # "none"}
         IN /\ summaries = {} => unit[2] = None
            /\ \A i \in summaries : unit[2] = i.content

(* A Delivery whose trace was partial or expired when its Traces were      *)
(* read, or one of whose readings of evidence from before the side had     *)
(* expired, contributes to no unit and no call, and each Task it belongs   *)
(* to says so; every other Delivery of the population contributes, though  *)
(* its trace may have been incomplete before or be gone by now.            *)
RetentionIsAccountedFor ==
  phase = "done" =>
    \A d \in Selected :
      LET gone == \/ observed[d].traceState \in {"PARTIAL", "EXPIRED"}
                  \/ \E r \in Read(d) : r.expired /\ r.item \in baseline[d].recorded
      IN /\ gone <=> \A unit \in result.units : unit[1] # d
         /\ gone => \A call \in result.calls : call[1] # d
         /\ gone => \A task \in Tasks :
              d \in population[task] => "EXPIRED_DELIVERY" \in result.exclusions[task]

(* A population is COMPLETE exactly when no Task of it carries an          *)
(* exclusion, and only then has every Task a terminal reading.             *)
CompleteMeansEveryTaskCounts ==
  phase = "done" =>
    /\ result.state = "COMPLETE" <=> \A task \in Tasks : result.exclusions[task] = {}
    /\ result.state = "COMPLETE" => \A task \in Tasks : result.terminal[task] # None

(* A Task's terminal reading is the outcome of every Delivery of it that   *)
(* still counts, and a Task that is open, mixed or undefined has none.     *)
TerminalReadingIsUnanimous ==
  phase = "done" =>
    \A task \in Tasks : result.terminal[task] # None =>
      /\ result.exclusions[task] \subseteq {"EXPIRED_DELIVERY"}
      /\ \A unit \in result.units :
           unit[1] \in population[task] => unit[2] = result.terminal[task]

(* A side ends, although no Evidence request and no source ever answers. *)
SideEnds == <>(phase \in {"done", "failed"})
=============================================================================
