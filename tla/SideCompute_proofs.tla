-------------------------- MODULE SideCompute_proofs --------------------------
(***************************************************************************)
(* What a side derives, proved for any Tasks, Deliveries and populations,  *)
(* any evidence, and any changes of it while the side is being computed.   *)
(*                                                                         *)
(* The evidence at as_of can be recovered from a reading although the      *)
(* store has moved on: what the store recorded and did not mark late is    *)
(* what it held when the side began.  That carries over to what was read   *)
(* of a Delivery, one route after the other, and is all the tail uses.     *)
(***************************************************************************)
EXTENDS SideCompute, TLAPS, FiniteSetTheorems

StoreOf(d) == [recorded: SUBSET Items[d], late: SUBSET Items[d],
               expired: SUBSET Items[d], traceState: TraceStates]

(* The store has grown since the side began, by late items only. *)
StoreOK(d) ==
  /\ store[d] \in StoreOf(d) /\ baseline[d] \in StoreOf(d)
  /\ store[d].late \subseteq store[d].recorded
  /\ baseline[d].recorded = store[d].recorded \ store[d].late

(* The readings of d hold its evidence at as_of of the routes, and mark it. *)
HoldBaseline(d, readings, routes) ==
  /\ readings \subseteq ReadingsOf(d)
  /\ \A r \in readings : ~r.late <=> r.item \in baseline[d].recorded
  /\ \A item \in baseline[d].recorded :
       item.route \in routes => \E r \in readings : r.item = item

ObservationOK(d) ==
  /\ observed[d] \in ObservationsOf(d)
  /\ HoldBaseline(d, observed[d].readings, Routes)

IInv ==
  /\ DOMAIN store = Deliveries /\ DOMAIN baseline = Deliveries
  /\ \A d \in Deliveries : StoreOK(d)
  /\ population \in [Tasks -> SUBSET Deliveries]
  /\ DOMAIN observed = Deliveries
  /\ \A d \in Deliveries : observed[d] = None \/ ObservationOK(d)
  /\ phase \in {"population", "facts", "traces", "tail", "done", "failed"}
  /\ phase \in {"facts", "traces"} => current \in Deliveries
  /\ phase = "traces" => HoldBaseline(current, facts, {"facts"})
  /\ phase \in {"tail", "done"} => \A d \in Selected : observed[d] # None
  /\ phase = "done" => result = SideResult /\ ~OutcomesConflict

-----------------------------------------------------------------------------
(* A read of a route yields what is recorded of it, late items marked. *)
LEMMA ReadHoldsBaseline ==
  ASSUME NEW d \in Deliveries, StoreOK(d), NEW route
  PROVE  HoldBaseline(d, Readings(d, route), {route})
<1>1. \A i \in store[d].recorded : i \in Items[d]
  BY DEF StoreOK, StoreOf
<1> DEFINE kept == {i \in store[d].recorded : i.route = route}
<1>5. ASSUME NEW r \in Readings(d, route)
      PROVE  r \in ReadingsOf(d) /\ (~r.late <=> r.item \in baseline[d].recorded)
  <2>1. PICK i \in kept : r = [item |-> i, late |-> i \in store[d].late,
                              expired |-> i \in store[d].expired]
    BY DEF Readings
  <2>2. i \in Items[d] /\ i \in store[d].recorded
    BY <1>1
  <2>3. r \in ReadingsOf(d)
    BY <2>1, <2>2 DEF ReadingsOf
  <2>4. r.item = i /\ (r.late <=> i \in store[d].late)
    BY <2>1
  <2> QED BY <2>2, <2>3, <2>4 DEF StoreOK
<1>2. Readings(d, route) \subseteq ReadingsOf(d)
  BY <1>5
<1>3. \A r \in Readings(d, route) : ~r.late <=> r.item \in baseline[d].recorded
  BY <1>5
<1>4. ASSUME NEW item \in baseline[d].recorded, item.route = route
      PROVE  \E r \in Readings(d, route) : r.item = item
  <2>1. item \in store[d].recorded
    BY DEF StoreOK
  <2> DEFINE r == [item |-> item, late |-> item \in store[d].late,
                   expired |-> item \in store[d].expired]
  <2>2. r \in Readings(d, route)
    BY <1>4, <2>1 DEF Readings
  <2> QED BY <2>2
<1> QED BY <1>2, <1>3, <1>4 DEF HoldBaseline

LEMMA BothRoutes ==
  ASSUME NEW d \in Deliveries, NEW some, NEW others,
         HoldBaseline(d, some, {"facts"}), HoldBaseline(d, others, {"traces"})
  PROVE  HoldBaseline(d, some \union others, Routes)
BY DEF HoldBaseline, Routes

LEMMA InitInv == Init => IInv
<1> SUFFICES ASSUME Init PROVE IInv
  OBVIOUS
<1>1. ASSUME NEW d \in Deliveries PROVE StoreOK(d)
  <2>1. store[d] \in Stores /\ store[d].recorded \subseteq Items[d] /\ baseline[d] = store[d]
    BY DEF Init
  <2>2. store[d].late = {} /\ store[d].expired = {} /\ store[d].traceState \in TraceStates
    BY <2>1 DEF Stores
  <2>3. store[d] = [recorded |-> store[d].recorded, late |-> {}, expired |-> {},
                    traceState |-> store[d].traceState]
    BY <2>1 DEF Stores
  <2>4. store[d] \in StoreOf(d)
    BY <2>1, <2>2, <2>3 DEF StoreOf
  <2> QED BY <2>1, <2>2, <2>4 DEF StoreOK
<1> QED BY <1>1 DEF Init, IInv

(* A change of the store that adds only late items. *)
LEMMA StoreChanges ==
  ASSUME IInv, Awaiting, UNCHANGED client, NEW d \in Deliveries,
         NEW changed \in StoreOf(d), DOMAIN store' = Deliveries, store'[d] = changed,
         \A e \in Deliveries \ {d} : store'[e] = store[e],
         changed.late \subseteq changed.recorded,
         store[d].recorded \ store[d].late = changed.recorded \ changed.late
  PROVE  IInv'
<1>1. /\ DOMAIN store' = Deliveries /\ store'[d] = changed
      /\ \A e \in Deliveries \ {d} : store'[e] = store[e]
  OBVIOUS
<1>2. UNCHANGED <<baseline, phase, failure, population, current, facts, observed, result>>
  BY DEF client
<1>3. ASSUME NEW e \in Deliveries PROVE StoreOK(e)'
  <2>1. StoreOK(e)
    BY DEF IInv
  <2>2. CASE e = d
    BY <1>1, <1>2, <2>1, <2>2 DEF StoreOK
  <2>3. CASE e # d
    BY <1>1, <1>2, <2>1, <2>3 DEF StoreOK
  <2> QED BY <2>2, <2>3
<1>4. \A e \in Deliveries : ObservationOK(e)' <=> ObservationOK(e)
  BY <1>2 DEF ObservationOK, HoldBaseline
<1>5. phase' \in {"population", "facts", "traces"}
  BY <1>2 DEF Awaiting
<1>6. phase = "traces" => HoldBaseline(current, facts, {"facts"})'
  BY <1>2 DEF IInv, HoldBaseline
<1> QED BY <1>1, <1>2, <1>3, <1>4, <1>5, <1>6 DEF IInv

LEMMA FailInv ==
  ASSUME IInv, NEW exception, Fail(exception)
  PROVE  IInv'
<1>1. /\ phase' = "failed" /\ population' = [task \in Tasks |-> {}]
      /\ observed' = [d \in Deliveries |-> None]
      /\ UNCHANGED <<store, baseline>>
  BY DEF Fail
<1>2. \A d \in Deliveries : StoreOK(d)'
  BY <1>1 DEF IInv, StoreOK
<1> QED BY <1>1, <1>2 DEF IInv

LEMMA ResolvedInv ==
  ASSUME IInv, NEW resolved \in Populations, ResolvePopulation(resolved)
  PROVE  IInv'
<1> DEFINE selected == UNION {resolved[task] : task \in Tasks}
<1>1. CASE Fail("BOUND")
  BY <1>1, FailInv
<1>2. CASE /\ population' = resolved /\ Proceed(selected)
           /\ UNCHANGED <<store, baseline, failure, facts, observed, result>>
  <2>1. resolved \in [Tasks -> SUBSET Deliveries] /\ selected \subseteq Deliveries
    BY SideAssumption
  <2>2. \A d \in Deliveries : StoreOK(d)' /\ (observed'[d] = None \/ ObservationOK(d)')
    BY <1>2 DEF IInv, StoreOK, ObservationOK, HoldBaseline
  <2>3. CASE phase' = "facts" /\ current' \in selected
    BY <1>2, <2>1, <2>2, <2>3 DEF IInv
  <2>4. CASE phase' = "tail" /\ selected = {}
    <3>1. Selected' = {}
      BY <1>2, <2>4 DEF Selected
    <3> QED BY <1>2, <2>1, <2>2, <2>4, <3>1 DEF IInv
  <2> QED BY <1>2, <2>3, <2>4 DEF Proceed
<1> QED BY <1>1, <1>2 DEF ResolvePopulation

LEMMA FactsInv ==
  ASSUME IInv, ReadFacts
  PROVE  IInv'
<1>1. /\ phase = "facts" /\ phase' = "traces" /\ facts' = Readings(current, "facts")
      /\ UNCHANGED <<store, baseline, failure, population, current, observed, result>>
  BY DEF ReadFacts
<1>2. current \in Deliveries /\ StoreOK(current)
  BY <1>1 DEF IInv
<1>3. HoldBaseline(current, facts', {"facts"})
  BY <1>1, <1>2, ReadHoldsBaseline
<1>4. HoldBaseline(current, facts, {"facts"})'
  BY <1>1, <1>3 DEF HoldBaseline
<1>5. \A d \in Deliveries : StoreOK(d)' /\ (observed'[d] = None \/ ObservationOK(d)')
  BY <1>1 DEF IInv, StoreOK, ObservationOK, HoldBaseline
<1> QED BY <1>1, <1>2, <1>4, <1>5 DEF IInv

LEMMA TracesInv ==
  ASSUME IInv, ReadTraces
  PROVE  IInv'
<1>1. CASE Fail("BOUND")
  BY <1>1, FailInv
<1>2. CASE /\ observed' = [observed EXCEPT ![current] = Observation]
           /\ facts' = {} /\ Proceed(NextDelivery \ {current})
           /\ UNCHANGED <<store, baseline, failure, population, result>>
  <2>1. /\ phase = "traces" /\ current \in Deliveries /\ StoreOK(current)
        /\ HoldBaseline(current, facts, {"facts"})
    BY DEF ReadTraces, IInv
  <2>12. PICK d \in Deliveries : d = current
    BY <2>1
  <2>2. PICK o : d = current /\ o = Observation
    BY <2>12
  <2>3. /\ DOMAIN observed' = Deliveries /\ observed'[d] = o
        /\ \A e \in Deliveries \ {d} : observed'[e] = observed[e]
    BY <1>2, <2>2 DEF IInv
  <2>4. HoldBaseline(d, o.readings, Routes)
    BY <2>1, <2>2, ReadHoldsBaseline, BothRoutes DEF Observation
  <2>5. o \in ObservationsOf(d)
    <3>1. o = [readings |-> o.readings, traceState |-> store[d].traceState]
      BY <2>2 DEF Observation
    <3>2. o.readings \subseteq ReadingsOf(d)
      BY <2>4 DEF HoldBaseline
    <3>3. store[d].traceState \in TraceStates
      BY <2>1, <2>2 DEF StoreOK, StoreOf
    <3> QED BY <3>1, <3>2, <3>3 DEF ObservationsOf
  <2>6. ASSUME NEW e \in Deliveries PROVE observed'[e] = None \/ ObservationOK(e)'
    <3>1. CASE e = d
      BY <1>2, <2>3, <2>4, <2>5, <3>1 DEF ObservationOK, HoldBaseline
    <3>2. CASE e # d
      BY <1>2, <2>3, <3>2 DEF IInv, ObservationOK, HoldBaseline
    <3> QED BY <3>1, <3>2
  <2>7. \A e \in Deliveries : StoreOK(e)'
    BY <1>2 DEF IInv, StoreOK
  <2>8. Selected' = Selected /\ Selected \subseteq Deliveries
    BY <1>2 DEF Selected, IInv
  <2>9. observed'[d] # None
    BY <2>3, <2>5, SideAssumption
  <2>10. CASE phase' = "facts" /\ current' \in NextDelivery \ {current}
    <3>1. current' \in Deliveries
      BY <2>8, <2>10 DEF NextDelivery
    <3> QED BY <1>2, <2>3, <2>6, <2>7, <2>10, <3>1 DEF IInv
  <2>11. CASE phase' = "tail" /\ NextDelivery \ {current} = {}
    <3>1. \A e \in Selected : observed'[e] # None
      BY <2>2, <2>3, <2>8, <2>9, <2>11 DEF NextDelivery
    <3> QED BY <1>2, <2>3, <2>6, <2>7, <2>8, <2>11, <3>1 DEF IInv
  <2> QED BY <1>2, <2>10, <2>11 DEF Proceed
<1> QED BY <1>1, <1>2 DEF ReadTraces

(* What the tail derives depends on the population and the observations only. *)
LEMMA DerivedFromReadings ==
  ASSUME UNCHANGED <<population, observed>>
  PROVE  SideResult' = SideResult /\ (OutcomesConflict' <=> OutcomesConflict) /\ Selected' = Selected
<1>1. Selected' = Selected
  BY DEF Selected
<1>2. \A d : AsOf(d)' = AsOf(d)
  BY DEF AsOf, Read
<1>3. \A d : RetentionExcluded(d)' <=> RetentionExcluded(d)
  BY <1>2 DEF RetentionExcluded
<1>4. Active' = Active
  BY <1>1, <1>3 DEF Active
<1>5. \A d, route : Contents(d, route)' = Contents(d, route)
  BY <1>2 DEF Contents
<1>6. \A d : Outcome(d)' = Outcome(d)
  BY <1>5 DEF Outcome
<1>7. OutcomesConflict' <=> OutcomesConflict
  BY <1>4, <1>5 DEF OutcomesConflict
<1>8. UnitTasks' = UnitTasks /\ \A task : ActiveMembers(task)' = ActiveMembers(task)
  BY <1>4 DEF UnitTasks, ActiveMembers
<1>9. \A task : Classification(task)' = Classification(task)
  BY <1>6, <1>8 DEF Classification
<1>10. \A task : TerminalReading(task)' = TerminalReading(task)
  <2>1. ASSUME NEW task PROVE TerminalReading(task)' = TerminalReading(task)
    <3>1. PICK d : d = TheOne(ActiveMembers(task))
      OBVIOUS
    <3>2. TheOne(ActiveMembers(task))' = d
      BY <1>8, <3>1
    <3> QED BY <1>6, <1>8, <1>9, <3>1, <3>2 DEF TerminalReading
  <2> QED BY <2>1
<1>11. \A task : Exclusions(task)' = Exclusions(task)
  BY <1>4, <1>8, <1>9 DEF Exclusions, ClassExclusions
<1>12. PopulationState' = PopulationState
  BY <1>1, <1>4, <1>8, <1>9 DEF PopulationState
<1>13. SideResult' = SideResult
  <2>1. {<<d, Outcome(d)>> : d \in Active}' = {<<d, Outcome(d)>> : d \in Active}
    BY <1>4, <1>6
  <2>2. (UNION {{<<d, call>> : call \in Contents(d, "traces")} : d \in Active})'
          = UNION {{<<d, call>> : call \in Contents(d, "traces")} : d \in Active}
    BY <1>4, <1>5
  <2>3. [task \in Tasks |-> TerminalReading(task)]' = [task \in Tasks |-> TerminalReading(task)]
    BY <1>10
  <2>4. [task \in Tasks |-> Exclusions(task)]' = [task \in Tasks |-> Exclusions(task)]
    BY <1>11
  <2>5. (UNION {{r.item : r \in AsOf(d)} : d \in Selected})'
          = UNION {{r.item : r \in AsOf(d)} : d \in Selected}
    BY <1>1, <1>2
  <2> QED BY <1>12, <2>1, <2>2, <2>3, <2>4, <2>5 DEF SideResult
<1> QED BY <1>1, <1>7, <1>13

LEMMA DeriveInv ==
  ASSUME IInv, Derive
  PROVE  IInv'
<1>1. CASE \E exception \in {"MISMATCH", "UNCAUGHT"} : Fail(exception)
  BY <1>1, FailInv
<1>2. CASE /\ phase = "tail" /\ ~OutcomesConflict /\ phase' = "done" /\ result' = SideResult
           /\ UNCHANGED <<store, baseline, failure, population, current, facts, observed>>
  <2>1. SideResult' = SideResult /\ (OutcomesConflict' <=> OutcomesConflict) /\ Selected' = Selected
    BY <1>2, DerivedFromReadings
  <2>2. \A d \in Deliveries : StoreOK(d)' /\ (observed'[d] = None \/ ObservationOK(d)')
    BY <1>2 DEF IInv, StoreOK, ObservationOK, HoldBaseline
  <2> QED BY <1>2, <2>1, <2>2 DEF IInv
<1> QED BY <1>1, <1>2 DEF Derive

LEMMA RecordInv ==
  ASSUME IInv, NEW d \in Deliveries, NEW item \in Items[d], Record(d, item)
  PROVE  IInv'
<1>1. /\ Awaiting /\ UNCHANGED client /\ item \in Items[d] \ store[d].recorded
      /\ store' = [store EXCEPT ![d].recorded = @ \union {item}, ![d].late = @ \union {item}]
  BY DEF Record
<1>2. StoreOK(d) /\ DOMAIN store = Deliveries
  BY DEF IInv
<1> DEFINE changed == [recorded |-> store[d].recorded \union {item},
                       late |-> store[d].late \union {item},
                       expired |-> store[d].expired, traceState |-> store[d].traceState]
<1>3. changed \in StoreOf(d)
  BY <1>1, <1>2 DEF StoreOK, StoreOf
<1>4. store'[d] = changed
  BY <1>1, <1>2 DEF StoreOK, StoreOf
<1>5. DOMAIN store' = Deliveries /\ \A e \in Deliveries \ {d} : store'[e] = store[e]
  BY <1>1, <1>2
<1>6. /\ changed.late \subseteq changed.recorded
      /\ store[d].recorded \ store[d].late = changed.recorded \ changed.late
  BY <1>1, <1>2 DEF StoreOK
<1> HIDE DEF changed
<1> QED BY <1>1, <1>3, <1>4, <1>5, <1>6, StoreChanges

LEMMA ExpireInv ==
  ASSUME IInv, NEW d \in Deliveries, NEW item \in Items[d], Expire(d, item)
  PROVE  IInv'
<1>1. /\ Awaiting /\ UNCHANGED client
      /\ store' = [store EXCEPT ![d].expired = @ \union {item}]
  BY DEF Expire
<1>2. StoreOK(d) /\ DOMAIN store = Deliveries
  BY DEF IInv
<1> DEFINE changed == [recorded |-> store[d].recorded, late |-> store[d].late,
                       expired |-> store[d].expired \union {item},
                       traceState |-> store[d].traceState]
<1>3. changed \in StoreOf(d)
  BY <1>2 DEF StoreOK, StoreOf
<1>4. store'[d] = changed
  BY <1>1, <1>2 DEF StoreOK, StoreOf
<1>5. DOMAIN store' = Deliveries /\ \A e \in Deliveries \ {d} : store'[e] = store[e]
  BY <1>1, <1>2
<1>6. /\ changed.late \subseteq changed.recorded
      /\ store[d].recorded \ store[d].late = changed.recorded \ changed.late
  BY <1>2 DEF StoreOK
<1> HIDE DEF changed
<1> QED BY <1>1, <1>3, <1>4, <1>5, <1>6, StoreChanges

LEMMA ChangeTraceInv ==
  ASSUME IInv, NEW d \in Deliveries, NEW state \in TraceStates, ChangeTrace(d, state)
  PROVE  IInv'
<1>1. /\ Awaiting /\ UNCHANGED client
      /\ store' = [store EXCEPT ![d].traceState = state]
  BY DEF ChangeTrace
<1>2. StoreOK(d) /\ DOMAIN store = Deliveries
  BY DEF IInv
<1> DEFINE changed == [recorded |-> store[d].recorded, late |-> store[d].late,
                       expired |-> store[d].expired, traceState |-> state]
<1>3. changed \in StoreOf(d)
  BY <1>2 DEF StoreOK, StoreOf
<1>4. store'[d] = changed
  BY <1>1, <1>2 DEF StoreOK, StoreOf
<1>5. DOMAIN store' = Deliveries /\ \A e \in Deliveries \ {d} : store'[e] = store[e]
  BY <1>1, <1>2
<1>6. /\ changed.late \subseteq changed.recorded
      /\ store[d].recorded \ store[d].late = changed.recorded \ changed.late
  BY <1>2 DEF StoreOK
<1> HIDE DEF changed
<1> QED BY <1>1, <1>3, <1>4, <1>5, <1>6, StoreChanges

LEMMA StepInv ==
  ASSUME IInv, [Next]_vars
  PROVE  IInv'
<1>1. CASE \E resolved \in Populations : ResolvePopulation(resolved)
  BY <1>1, ResolvedInv
<1>2. CASE ReadFacts
  BY <1>2, FactsInv
<1>3. CASE ReadTraces
  BY <1>3, TracesInv
<1>4. CASE Derive
  BY <1>4, DeriveInv
<1>5. CASE \E exception \in {"UNAVAILABLE", "BOUND", "MISMATCH", "UNCAUGHT"} :
             ResolverFails(exception)
  BY <1>5, FailInv DEF ResolverFails
<1>6. CASE SideDeadline
  BY <1>6, FailInv DEF SideDeadline
<1>7. CASE \E d \in Deliveries :
             \/ \E item \in Items[d] : Record(d, item) \/ Expire(d, item)
             \/ \E state \in TraceStates : ChangeTrace(d, state)
  BY <1>7, RecordInv, ExpireInv, ChangeTraceInv
<1>8. CASE UNCHANGED vars
  <2>1. UNCHANGED <<store, baseline, phase, failure, population, current, facts, observed, result>>
    BY <1>8 DEF vars
  <2>2. SideResult' = SideResult /\ (OutcomesConflict' <=> OutcomesConflict) /\ Selected' = Selected
    BY <2>1, DerivedFromReadings
  <2>3. \A d \in Deliveries : StoreOK(d)' /\ (observed'[d] = None \/ ObservationOK(d)')
    BY <2>1 DEF IInv, StoreOK, ObservationOK, HoldBaseline
  <2>4. phase = "traces" => HoldBaseline(current, facts, {"facts"})'
    BY <2>1 DEF IInv, HoldBaseline
  <2> QED BY <2>1, <2>2, <2>3, <2>4 DEF IInv
<1> QED BY <1>1, <1>2, <1>3, <1>4, <1>5, <1>6, <1>7, <1>8 DEF Next

(* What _compute_side holds of the evidence after each of its awaits. *)
THEOREM Invariance == Spec => []IInv
<1>1. IInv /\ [Next]_vars => IInv'
  BY StepInv
<1> QED BY InitInv, <1>1, PTL DEF Spec

-----------------------------------------------------------------------------
LEMMA AtMostOne ==
  ASSUME NEW S, IsFiniteSet(S), ~(Cardinality(S) > 1), NEW x \in S, NEW y \in S
  PROVE  x = y
<1> SUFFICES ASSUME x # y PROVE FALSE
  OBVIOUS
<1>1. IsFiniteSet({x}) /\ Cardinality({x}) = 1
  BY FS_Singleton
<1>2. y \notin {x}
  OBVIOUS
<1>3. IsFiniteSet({x} \union {y}) /\ Cardinality({x} \union {y}) = Cardinality({x}) + 1
  BY <1>1, <1>2, FS_AddElement
<1>4. Cardinality({x} \union {y}) = 2
  BY <1>1, <1>3
<1>5. {x} \union {y} \subseteq S
  OBVIOUS
<1>6. Cardinality({x} \union {y}) <= Cardinality(S) /\ Cardinality(S) \in Nat
  BY <1>5, FS_Subset, FS_CardinalityType
<1> QED BY <1>4, <1>6

LEMMA TheOneIn == ASSUME NEW S, S # {} PROVE TheOne(S) \in S
BY DEF TheOne

(* The evidence at as_of, in the terms of the tail. *)
LEMMA TailReads ==
  ASSUME IInv, phase = "done", NEW d \in Selected
  PROVE  /\ d \in Deliveries /\ ObservationOK(d)
         /\ Read(d) = observed[d].readings
         /\ {r.item : r \in AsOf(d)} = baseline[d].recorded
         /\ \A r \in Read(d) : r \in AsOf(d) <=> r.item \in baseline[d].recorded
<1>1. d \in Deliveries /\ observed[d] # None
  BY DEF IInv, Selected
<1>2. ObservationOK(d) /\ StoreOK(d)
  BY <1>1 DEF IInv
<1>3. Read(d) = observed[d].readings
  BY <1>1 DEF Read
<1>4. /\ \A r \in Read(d) : ~r.late <=> r.item \in baseline[d].recorded
      /\ \A item \in baseline[d].recorded :
           item.route \in Routes => \E r \in Read(d) : r.item = item
  BY <1>2, <1>3 DEF ObservationOK, HoldBaseline
<1>5. \A item \in baseline[d].recorded : item.route \in Routes
  BY <1>1, <1>2, SideAssumption DEF StoreOK, StoreOf
<1>6. \A r \in Read(d) : r \in AsOf(d) <=> r.item \in baseline[d].recorded
  BY <1>4 DEF AsOf
<1>7. \A item \in baseline[d].recorded : \E r \in AsOf(d) : r.item = item
  BY <1>4, <1>5, <1>6
<1>8. \A r \in AsOf(d) : r.item \in baseline[d].recorded
  BY <1>6 DEF AsOf
<1> QED BY <1>1, <1>2, <1>3, <1>6, <1>7, <1>8

(* Whatever is recorded while the Deliveries are observed one after the other, receipt and
   units are derived from the evidence as it was when the side began. *)
THEOREM DerivedAsOf == Spec => []InputsAreAsOf
<1>1. ASSUME IInv, phase = "done" PROVE InputsAreAsOf
  <2>1. result = SideResult /\ ~OutcomesConflict
    BY <1>1 DEF IInv
  <2>2. result.references = UNION {baseline[d].recorded : d \in Selected}
    <3>1. \A d \in Selected : {r.item : r \in AsOf(d)} = baseline[d].recorded
      BY <1>1, TailReads
    <3>2. result.references = UNION {{r.item : r \in AsOf(d)} : d \in Selected}
      BY <2>1 DEF SideResult
    <3> QED BY <3>1, <3>2
  <2>3. ASSUME NEW d \in Active
        PROVE  LET summaries == {i \in baseline[d].recorded : i.route = "facts" /\ i.content # "none"}
               IN  /\ summaries = {} => Outcome(d) = None
                   /\ \A i \in summaries : Outcome(d) = i.content
    <3> DEFINE summaries == {i \in baseline[d].recorded : i.route = "facts" /\ i.content # "none"}
    <3>1. d \in Selected
      BY DEF Active
    <3>2. /\ d \in Deliveries /\ {r.item : r \in AsOf(d)} = baseline[d].recorded
          /\ StoreOK(d)
      BY <1>1, <3>1, TailReads DEF IInv
    <3>3. Contents(d, "facts") = {i.content : i \in summaries}
      <4>1. \A i \in summaries : \E r \in AsOf(d) : r.item = i
        BY <3>2
      <4>2. \A r \in AsOf(d) : r.item \in baseline[d].recorded
        BY <3>2
      <4> QED BY <4>1, <4>2 DEF Contents
    <3>4. IsFiniteSet(Contents(d, "facts"))
      <4>1. IsFiniteSet(Items[d]) /\ summaries \subseteq Items[d]
        BY <3>2, SideAssumption DEF StoreOK, StoreOf
      <4>2. IsFiniteSet(summaries)
        BY <4>1, FS_Subset
      <4> HIDE DEF summaries
      <4>3. IsFiniteSet({i.content : i \in summaries})
        <5>1. PICK f : f = [i \in summaries |-> i.content]
          OBVIOUS
        <5>2. f \in Surjection(summaries, {i.content : i \in summaries})
          BY <5>1 DEF Surjection
        <5> QED BY <4>2, <5>2, FS_Surjection
      <4> QED BY <3>3, <4>3
    <3>5. ~(Cardinality(Contents(d, "facts")) > 1)
      BY <2>1 DEF OutcomesConflict
    <3> HIDE DEF summaries
    <3>6. ASSUME NEW i \in summaries PROVE Outcome(d) = i.content
      <4>1. i.content \in Contents(d, "facts") /\ Contents(d, "facts") # {}
        BY <3>3
      <4>2. TheOne(Contents(d, "facts")) \in Contents(d, "facts")
        BY <4>1, TheOneIn
      <4> QED BY <3>4, <3>5, <4>1, <4>2, AtMostOne DEF Outcome
    <3>7. summaries = {} => Outcome(d) = None
      BY <3>3 DEF Outcome
    <3> QED BY <3>6, <3>7 DEF summaries
  <2>4. result.units = {<<d, Outcome(d)>> : d \in Active}
    BY <2>1 DEF SideResult
  <2>5. ASSUME NEW unit \in result.units
        PROVE  LET summaries == {i \in baseline[unit[1]].recorded :
                                   i.route = "facts" /\ i.content # "none"}
               IN  /\ summaries = {} => unit[2] = None
                   /\ \A i \in summaries : unit[2] = i.content
    <3>1. PICK d \in Active : unit = <<d, Outcome(d)>>
      BY <2>4
    <3>2. unit[1] = d /\ unit[2] = Outcome(d)
      BY <3>1
    <3> QED BY <2>3, <3>2
  <2> QED BY <2>2, <2>5 DEF InputsAreAsOf
<1>2. IInv => InputsAreAsOf
  BY <1>1 DEF InputsAreAsOf
<1> QED BY Invariance, <1>2, PTL

(* However the traces change and items expire while the side reads, an     *)
(* excluded Delivery is in no unit and no call and each of its Tasks says  *)
(* so; every other Delivery has its unit.                                  *)
THEOREM RetentionAccounted == Spec => []RetentionIsAccountedFor
<1>1. ASSUME IInv, phase = "done", NEW d \in Selected
      PROVE  LET gone == \/ observed[d].traceState \in {"PARTIAL", "EXPIRED"}
                         \/ \E r \in Read(d) : r.expired /\ r.item \in baseline[d].recorded
             IN  /\ gone <=> \A unit \in result.units : unit[1] # d
                 /\ gone => \A call \in result.calls : call[1] # d
                 /\ gone => \A task \in Tasks :
                      d \in population[task] => "EXPIRED_DELIVERY" \in result.exclusions[task]
  <2>1. result = SideResult
    BY <1>1 DEF IInv
  <2>2. /\ ObservationOK(d)
        /\ \A r \in Read(d) : r \in AsOf(d) <=> r.item \in baseline[d].recorded
    BY <1>1, TailReads
  <2> DEFINE gone == \/ observed[d].traceState \in {"PARTIAL", "EXPIRED"}
                     \/ \E r \in Read(d) : r.expired /\ r.item \in baseline[d].recorded
  <2>3. gone <=> RetentionExcluded(d)
    <3>1. AsOf(d) \subseteq Read(d)
      BY DEF AsOf
    <3>2. (\E r \in AsOf(d) : r.expired) <=>
            \E r \in Read(d) : r.expired /\ r.item \in baseline[d].recorded
      BY <2>2, <3>1
    <3> QED BY <2>2, <3>2 DEF RetentionExcluded, ObservationOK
  <2> HIDE DEF gone
  <2>4. gone <=> d \notin Active
    BY <1>1, <2>3 DEF Active
  <2>5. gone <=> \A unit \in result.units : unit[1] # d
    <3>1. result.units = {<<e, Outcome(e)>> : e \in Active}
      BY <2>1 DEF SideResult
    <3>2. \A unit \in result.units : unit[1] \in Active
      BY <3>1
    <3>3. d \in Active => \E unit \in result.units : unit[1] = d
      <4>1. ASSUME d \in Active PROVE <<d, Outcome(d)>> \in result.units
        BY <3>1, <4>1
      <4>2. <<d, Outcome(d)>>[1] = d
        OBVIOUS
      <4> QED BY <4>1, <4>2
    <3> QED BY <2>4, <3>2, <3>3
  <2>6. gone => \A call \in result.calls : call[1] # d
    <3>1. result.calls = UNION {{<<e, call>> : call \in Contents(e, "traces")} : e \in Active}
      BY <2>1 DEF SideResult
    <3>2. \A call \in result.calls : call[1] \in Active
      BY <3>1
    <3> QED BY <2>4, <3>2
  <2>7. ASSUME gone, NEW task \in Tasks, d \in population[task]
        PROVE  "EXPIRED_DELIVERY" \in result.exclusions[task]
    <3>1. result.exclusions[task] = Exclusions(task)
      BY <2>1 DEF SideResult
    <3> QED BY <2>4, <2>7, <3>1 DEF Exclusions
  <2> QED BY <2>5, <2>6, <2>7 DEF gone
<1>2. IInv => RetentionIsAccountedFor
  BY <1>1 DEF RetentionIsAccountedFor
<1> QED BY Invariance, <1>2, PTL

(* normalize_task as a case distinction. *)
LEMMA Classes ==
  ASSUME NEW task
  PROVE  /\ Classification(task) \in {"UNDEFINED_TASK_MEMBERSHIP", "OPEN_DELIVERY",
                                      "MIXED_DELIVERY_OUTCOMES", "ELIGIBLE"}
         /\ Classification(task) = "ELIGIBLE" =>
              /\ ActiveMembers(task) # {}
              /\ \A d \in ActiveMembers(task) : Outcome(d) # None
              /\ ~(Cardinality({Outcome(d) : d \in ActiveMembers(task)}) > 1)
<1>1. PICK outcomes : outcomes = {Outcome(d) : d \in ActiveMembers(task)}
  OBVIOUS
<1>2. CASE ActiveMembers(task) = {}
  BY <1>2 DEF Classification
<1>3. CASE ActiveMembers(task) # {} /\ None \in outcomes
  <2>1. Classification(task) = "OPEN_DELIVERY"
    BY <1>1, <1>3 DEF Classification
  <2> QED BY <2>1
<1>4. CASE ActiveMembers(task) # {} /\ None \notin outcomes /\ Cardinality(outcomes) > 1
  <2>1. Classification(task) = "MIXED_DELIVERY_OUTCOMES"
    BY <1>1, <1>4 DEF Classification
  <2> QED BY <2>1
<1>5. CASE ActiveMembers(task) # {} /\ None \notin outcomes /\ ~(Cardinality(outcomes) > 1)
  <2>1. Classification(task) = "ELIGIBLE"
    BY <1>1, <1>5 DEF Classification
  <2> QED BY <1>1, <1>5, <2>1
<1> QED BY <1>2, <1>3, <1>4, <1>5

LEMMA TerminalIsDefined ==
  ASSUME NEW task, TerminalReading(task) # None \/ (task \in UnitTasks /\ Classification(task) = "ELIGIBLE")
  PROVE  /\ task \in UnitTasks /\ Classification(task) = "ELIGIBLE"
         /\ TerminalReading(task) # None
         /\ TheOne(ActiveMembers(task)) \in ActiveMembers(task)
         /\ TerminalReading(task) = Outcome(TheOne(ActiveMembers(task)))
<1>1. task \in UnitTasks /\ Classification(task) = "ELIGIBLE"
  BY DEF TerminalReading
<1>2. TheOne(ActiveMembers(task)) \in ActiveMembers(task)
  BY <1>1, Classes, TheOneIn
<1> QED BY <1>1, <1>2, Classes DEF TerminalReading

(* The state of the population and the exclusions of its Tasks, which are derived apart
   from each other, agree, and a COMPLETE population has a terminal reading of every Task. *)
THEOREM CompleteCounts == Spec => []CompleteMeansEveryTaskCounts
<1>1. ASSUME IInv, phase = "done" PROVE CompleteMeansEveryTaskCounts
  <2>1. result = SideResult
    BY <1>1 DEF IInv
  <2>2. /\ result.state = PopulationState
        /\ \A task \in Tasks : /\ result.exclusions[task] = Exclusions(task)
                               /\ result.terminal[task] = TerminalReading(task)
    BY <2>1 DEF SideResult
  <2>3. PICK classes : classes = {Classification(task) : task \in UnitTasks}
    OBVIOUS
  <2>4. \A class \in classes : class \in {"UNDEFINED_TASK_MEMBERSHIP", "OPEN_DELIVERY",
                                          "MIXED_DELIVERY_OUTCOMES", "ELIGIBLE"}
    BY <2>3, Classes
  <2>5. PopulationState = "COMPLETE" <=> Selected \subseteq Active /\ classes \subseteq {"ELIGIBLE"}
    <3>1. CASE ~(Selected \subseteq Active)
      <4>1. Selected \ Active # {}
        BY <3>1
      <4>2. PopulationState = "EXPIRED"
        BY <3>1, <4>1 DEF PopulationState
      <4> QED BY <3>1, <4>2
    <3>2. CASE Selected \subseteq Active /\ "UNDEFINED_TASK_MEMBERSHIP" \in classes
      <4>1. Selected \ Active = {}
        BY <3>2
      <4>2. PopulationState = "PARTIAL"
        BY <2>3, <3>2, <4>1 DEF PopulationState
      <4> QED BY <3>2, <4>2
    <3>3. CASE Selected \subseteq Active /\ "UNDEFINED_TASK_MEMBERSHIP" \notin classes
      <4>1. Selected \ Active = {}
        BY <3>3
      <4>2. PopulationState =
              CASE "OPEN_DELIVERY" \in classes -> "OPEN"
                [] "OPEN_DELIVERY" \notin classes /\ "MIXED_DELIVERY_OUTCOMES" \in classes -> "MIXED"
                [] OTHER -> "COMPLETE"
        BY <2>3, <3>3, <4>1 DEF PopulationState
      <4> QED BY <2>4, <3>3, <4>2
    <3> QED BY <3>1, <3>2, <3>3
  <2>6. classes \subseteq {"ELIGIBLE"} <=>
          \A task \in UnitTasks : Classification(task) = "ELIGIBLE"
    BY <2>3
  <2>7. Selected \subseteq Active <=> \A task \in Tasks : population[task] \ Active = {}
    BY DEF Selected
  <2>8. \A task \in Tasks :
          Exclusions(task) = {} <=> /\ task \in UnitTasks => Classification(task) = "ELIGIBLE"
                                    /\ population[task] \ Active = {}
    BY DEF Exclusions, ClassExclusions
  <2>9. UnitTasks \subseteq Tasks
    BY DEF UnitTasks
  <2>10. PopulationState = "COMPLETE" <=> \A task \in Tasks : Exclusions(task) = {}
    BY <2>5, <2>6, <2>7, <2>8, <2>9
  <2>11. ASSUME PopulationState = "COMPLETE", NEW task \in Tasks PROVE TerminalReading(task) # None
    <3>1. Exclusions(task) = {}
      BY <2>10, <2>11
    <3>2. population[task] \ Active = {}
      BY <2>8, <3>1
    <3>3. task \in UnitTasks
      BY <3>2 DEF UnitTasks, ActiveMembers
    <3> QED BY <2>8, <3>1, <3>3, TerminalIsDefined
  <2> QED BY <2>2, <2>10, <2>11 DEF CompleteMeansEveryTaskCounts
<1>2. IInv => CompleteMeansEveryTaskCounts
  BY <1>1 DEF CompleteMeansEveryTaskCounts
<1> QED BY Invariance, <1>2, PTL

(* The terminal reading of a Task is the outcome of all its Deliveries that still count. *)
THEOREM TerminalUnanimous == Spec => []TerminalReadingIsUnanimous
<1>1. ASSUME IInv, phase = "done", NEW task \in Tasks, result.terminal[task] # None
      PROVE  /\ result.exclusions[task] \subseteq {"EXPIRED_DELIVERY"}
             /\ \A unit \in result.units :
                  unit[1] \in population[task] => unit[2] = result.terminal[task]
  <2>1. result = SideResult
    BY <1>1 DEF IInv
  <2>2. /\ result.exclusions[task] = Exclusions(task)
        /\ result.terminal[task] = TerminalReading(task)
        /\ result.units = {<<d, Outcome(d)>> : d \in Active}
    BY <2>1 DEF SideResult
  <2>3. /\ task \in UnitTasks /\ Classification(task) = "ELIGIBLE"
        /\ TheOne(ActiveMembers(task)) \in ActiveMembers(task)
        /\ TerminalReading(task) = Outcome(TheOne(ActiveMembers(task)))
    BY <1>1, <2>2, TerminalIsDefined
  <2>4. PICK outcomes : outcomes = {Outcome(d) : d \in ActiveMembers(task)}
    OBVIOUS
  <2>5. ~(Cardinality(outcomes) > 1)
    BY <2>3, <2>4, Classes
  <2>6. IsFiniteSet(outcomes)
    <3>1. PICK members : members = ActiveMembers(task)
      OBVIOUS
    <3>2. IsFiniteSet(members)
      <4>1. members \subseteq Deliveries /\ IsFiniteSet(Deliveries)
        BY <1>1, <3>1, SideAssumption DEF ActiveMembers, IInv
      <4> QED BY <4>1, FS_Subset
    <3>3. PICK f : f = [d \in members |-> Outcome(d)]
      OBVIOUS
    <3>4. f \in Surjection(members, outcomes)
      BY <2>4, <3>1, <3>3 DEF Surjection
    <3> QED BY <3>2, <3>4, FS_Surjection
  <2>7. ASSUME NEW unit \in result.units, unit[1] \in population[task]
        PROVE  unit[2] = TerminalReading(task)
    <3>1. PICK d \in Active : unit = <<d, Outcome(d)>>
      BY <2>2
    <3>2. d \in ActiveMembers(task) /\ unit[2] = Outcome(d)
      BY <2>7, <3>1 DEF ActiveMembers
    <3> QED BY <2>3, <2>4, <2>5, <2>6, <3>2, AtMostOne
  <2>8. Exclusions(task) \subseteq {"EXPIRED_DELIVERY"}
    BY <2>3 DEF Exclusions, ClassExclusions
  <2> QED BY <2>2, <2>7, <2>8
<1>2. IInv => TerminalReadingIsUnanimous
  BY <1>1 DEF TerminalReadingIsUnanimous
<1> QED BY Invariance, <1>2, PTL
=============================================================================
