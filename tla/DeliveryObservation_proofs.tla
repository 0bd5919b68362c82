--------------------- MODULE DeliveryObservation_proofs ---------------------
(***************************************************************************)
(* An observation reads snapshots, proved for any contents of the routes,  *)
(* any number of versions and any bounds: every behaviour of the resolver  *)
(* is, seen through what it exposes, one of SnapshotRead.                  *)
(*                                                                         *)
(* The Facts are complete, or hold an item twice, from the moment the      *)
(* Traces are read; what is there twice is only refused at the very end.   *)
(***************************************************************************)
EXTENDS DeliveryObservation, EvidenceTraversal_proofs

(* What was collected from a route whose last page was read. *)
CollectedOK(route) ==
  /\ snapshots[route] \in 1..Len(history[route])
  /\ Repeats(collected[route]) \/ collected[route] = history[route][snapshots[route]]

(* Before the first Trace page there is no trace state, afterwards one.    *)
StateOK ==
  \/ traceState = "NONE" /\ reported = {}
  \/ traceState \in TraceStates /\ reported = {traceState}

IInv ==
  /\ history \in [Routes -> Seq(Seq(Identities))]
  /\ \A route \in Routes : history[route] # <<>>
  /\ retention.state \in TraceStates
  /\ phase \in Routes \union {"done", "failed"}
  /\ phase \in Routes => TraversalOK(history[phase], traversal, Identities)
  /\ collected \in [Routes -> Seq(Identities)]
  /\ snapshots \in [Routes -> Nat]
  /\ phase = "facts" => traceState = "NONE" /\ reported = {}
  /\ phase = "traces" => CollectedOK("facts") /\ StateOK
  /\ phase = "done" =>
       /\ reported = {traceState}
       /\ \A route \in Routes :
            /\ snapshots[route] \in 1..Len(history[route])
            /\ collected[route] = history[route][snapshots[route]]

-----------------------------------------------------------------------------
(* A sequence that holds an item twice has fewer items than places. *)
LEMMA RepeatsIsCounted ==
  ASSUME NEW S, NEW s \in Seq(S), Repeats(s)
  PROVE  Cardinality(Range(s)) # Len(s)
<1>1. PICK n \in Nat : n = Len(s) /\ s = [i \in 1..n |-> s[i]]
  OBVIOUS
<1>2. PICK i \in 1..n, j \in 1..n : i # j /\ s[i] = s[j]
  BY <1>1 DEF Repeats
<1>3. Range(s) = {s[k] : k \in 1..n}
  BY <1>1 DEF Range
<1>4. Cardinality({s[k] : k \in 1..n}) # n
  BY <1>1, <1>2, TwiceIsFewer
<1> QED BY <1>1, <1>3, <1>4

(* What the shared lemma on pages says of a page of either route. *)
LEMMA ServedPageKept ==
  ASSUME IInv, phase \in Routes, NEW page \in Served(phase), ~Drifts(traversal, page)
  PROVE  /\ page.snapshot \in 1..Len(history[phase])
         /\ Extend(traversal, page).items \in Seq(Identities)
         /\ page.cursor # NoCursor => TraversalOK(history[phase], Extend(traversal, page), Identities)
         /\ page.cursor = NoCursor =>
              \/ Repeats(Extend(traversal, page).items)
              \/ Extend(traversal, page).items = history[phase][page.snapshot]
         /\ page.state = IF phase = "traces" THEN retention.state ELSE "NONE"
<1>1. PICK sent \in ServedPages(history[phase], traversal) :
        page = [snapshot |-> sent.snapshot, items |-> sent.items, cursor |-> sent.cursor,
                state |-> IF phase = "traces" THEN retention.state ELSE "NONE"]
  BY DEF Served
<1>2. /\ page.snapshot = sent.snapshot /\ page.items = sent.items /\ page.cursor = sent.cursor
      /\ page.state = IF phase = "traces" THEN retention.state ELSE "NONE"
  BY <1>1
<1>3. Extend(traversal, page) = Extend(traversal, sent) /\ ~Drifts(traversal, sent)
  BY <1>2 DEF Extend, Drifts
<1>4. /\ history[phase] \in Seq(Seq(Identities)) /\ history[phase] # <<>>
      /\ TraversalOK(history[phase], traversal, Identities)
  BY DEF IInv
<1>5. /\ sent.snapshot \in 1..Len(history[phase])
      /\ Extend(traversal, sent).items \in Seq(Identities)
      /\ sent.cursor # NoCursor =>
           TraversalOK(history[phase], Extend(traversal, sent), Identities)
      /\ sent.cursor = NoCursor =>
           \/ Repeats(Extend(traversal, sent).items)
           \/ Extend(traversal, sent).items = history[phase][sent.snapshot]
  <2>1. PICK versions, t :
          versions \in Seq(Seq(Identities)) /\ versions = history[phase] /\ t = traversal
    BY <1>4
  <2> QED BY <1>1, <1>3, <1>4, <2>1, PageKept
<1> QED BY <1>2, <1>3, <1>5

-----------------------------------------------------------------------------
LEMMA InitInv == Init => IInv
<1> SUFFICES ASSUME Init PROVE IInv
  OBVIOUS
<1>1. \A route \in Routes :
        \E content \in Contents[route] : history[route] = <<content>> /\ content \in Seq(Identities)
  <2>1. ASSUME NEW route \in Routes
        PROVE  \E content \in Contents[route] :
                 history[route] = <<content>> /\ content \in Seq(Identities)
    <3>1. PICK content : history[route] = <<content>>
      BY DEF Init
    <3>2. history[route][1] = content
      BY <3>1
    <3> QED BY <3>1, <3>2, ObservationAssumption DEF Init
  <2> QED BY <2>1
<1>2. /\ history \in [Routes -> Seq(Seq(Identities))]
      /\ \A route \in Routes : history[route] # <<>>
  <2>1. \A route \in Routes : history[route] \in Seq(Seq(Identities)) /\ history[route] # <<>>
    <3>1. ASSUME NEW route \in Routes
          PROVE  history[route] \in Seq(Seq(Identities)) /\ history[route] # <<>>
      <4>1. PICK content \in Seq(Identities) : history[route] = <<content>>
        BY <1>1
      <4> QED BY <4>1
    <3> QED BY <3>1
  <2>2. \E T : history \in [Routes -> T]
    BY DEF Init
  <2> QED BY <2>1, <2>2
<1>3. TraversalOK(history[phase], traversal, Identities)
  BY <1>2, NewTraversalOK DEF Init, Routes
<1> QED BY <1>2, <1>3 DEF Init, IInv, Routes

LEMMA ChangeInv ==
  ASSUME IInv, NEW route \in Routes, NEW content \in Contents[route], Change(route, content)
  PROVE  IInv'
<1>1. /\ history' = [history EXCEPT ![route] = Append(history[route], content)]
      /\ phase \in Routes
      /\ UNCHANGED <<retention, phase, traversal, collected, snapshots, traceState, reported>>
  BY DEF Change, client
<1>2. content \in Seq(Identities) /\ history[route] \in Seq(Seq(Identities))
  BY ObservationAssumption DEF IInv
<1>3. /\ Append(history[route], content) \in Seq(Seq(Identities))
      /\ Append(history[route], content) # <<>>
      /\ Len(Append(history[route], content)) = Len(history[route]) + 1
      /\ \A v \in 1..Len(history[route]) : Append(history[route], content)[v] = history[route][v]
  <2>1. PICK versions, S : versions = history[route] /\ S = Seq(Identities)
    OBVIOUS
  <2>2. versions \in Seq(S) /\ content \in S
    BY <1>2, <2>1
  <2>3. /\ Append(versions, content) \in Seq(S)
        /\ Append(versions, content) # <<>>
        /\ Len(Append(versions, content)) = Len(versions) + 1
        /\ \A v \in 1..Len(versions) : Append(versions, content)[v] = versions[v]
    BY <2>2, AppendProperties
  <2> QED BY <2>1, <2>3
<1>4. /\ history' \in [Routes -> Seq(Seq(Identities))]
      /\ history'[route] = Append(history[route], content)
      /\ \A other \in Routes \ {route} : history'[other] = history[other]
  BY <1>1, <1>3 DEF IInv
<1>5. TraversalOK(history'[phase], traversal, Identities)
  BY <1>1, <1>2, <1>4, TraversalOutlivesChanges DEF IInv
<1>6. CollectedOK("facts") => CollectedOK("facts")'
  <2>1. Len(history[route]) \in Nat
    BY <1>2
  <2> QED BY <1>1, <1>3, <1>4, <2>1 DEF CollectedOK, Routes
<1>7. \A other \in Routes : history'[other] # <<>>
  BY <1>3, <1>4 DEF IInv
<1> QED BY <1>1, <1>4, <1>5, <1>6, <1>7 DEF IInv, StateOK, Routes

LEMMA FlipInv ==
  ASSUME IInv, NEW state \in TraceStates, Flip(state)
  PROVE  IInv'
BY DEF IInv, Flip, client, CollectedOK, StateOK

LEMMA FailInv ==
  ASSUME IInv, NEW reason, Fail(reason)
  PROVE  IInv'
BY DEF IInv, Fail, Routes

(* A Trace page of the state seen so far leaves one state. *)
LEMMA StateStays ==
  ASSUME StateOK, NEW page, ~StateDrifts(page)
  PROVE  reported \union {page.state} = {page.state}
<1>1. CASE traceState = "NONE" /\ reported = {}
  BY <1>1
<1>2. CASE traceState \in TraceStates /\ reported = {traceState}
  <2>1. traceState # "NONE"
    BY <1>2 DEF TraceStates
  <2>2. page.state = traceState
    BY <2>1 DEF StateDrifts
  <2> QED BY <1>2, <2>2
<1> QED BY <1>1, <1>2 DEF StateOK

LEMMA NextPageInv ==
  ASSUME IInv, NEW page \in Served(phase), NextPage(page)
  PROVE  IInv'
<1>1. /\ phase \in Routes /\ ~Drifts(traversal, page) /\ ~StateDrifts(page)
      /\ page.cursor # NoCursor
      /\ traversal' = Extend(traversal, page) /\ traceState' = page.state
      /\ reported' = IF phase = "traces" THEN reported \union {page.state} ELSE reported
      /\ UNCHANGED <<history, retention, phase, collected, snapshots>>
  BY DEF NextPage, Asks, Admissible
<1>2. /\ TraversalOK(history[phase], Extend(traversal, page), Identities)
      /\ page.state = IF phase = "traces" THEN retention.state ELSE "NONE"
  BY <1>1, ServedPageKept
<1>3. retention.state \in TraceStates /\ retention.state # "NONE"
  BY DEF IInv, TraceStates
<1>4. phase = "facts" => traceState' = "NONE" /\ reported' = {}
  BY <1>1, <1>2 DEF IInv
<1>5. phase = "traces" => StateOK'
  <2> SUFFICES ASSUME phase = "traces" PROVE StateOK'
    OBVIOUS
  <2>1. /\ StateOK /\ page.state = retention.state /\ traceState' = page.state
        /\ reported' = reported \union {page.state}
    BY <1>1, <1>2 DEF IInv
  <2> QED BY <1>1, <1>3, <2>1, StateStays DEF StateOK
<1>6. phase = "traces" => CollectedOK("facts")'
  BY <1>1 DEF IInv, CollectedOK
<1> QED BY <1>1, <1>2, <1>4, <1>5, <1>6 DEF IInv, Routes

LEMMA LastPageInv ==
  ASSUME IInv, NEW page \in Served(phase), LastPage(page)
  PROVE  IInv'
<1> DEFINE items == Extend(traversal, page).items
<1>1. /\ phase \in Routes /\ ~Drifts(traversal, page) /\ ~StateDrifts(page)
      /\ page.cursor = NoCursor
      /\ \/ phase = "facts" /\ phase' = "traces"
         \/ phase = "traces" /\ ~Duplicated(collected.facts, items) /\ phase' = "done"
      /\ collected' = [collected EXCEPT ![phase] = items]
      /\ snapshots' = [snapshots EXCEPT ![phase] = page.snapshot]
      /\ traversal' = NewTraversal /\ traceState' = page.state
      /\ reported' = IF phase = "traces" THEN reported \union {page.state} ELSE reported
      /\ UNCHANGED <<history, retention>>
  BY DEF LastPage, Asks, Admissible
<1>2. /\ page.snapshot \in 1..Len(history[phase])
      /\ items \in Seq(Identities)
      /\ Repeats(items) \/ items = history[phase][page.snapshot]
      /\ page.state = IF phase = "traces" THEN retention.state ELSE "NONE"
  BY <1>1, ServedPageKept
<1> HIDE DEF items
<1>3. retention.state \in TraceStates /\ retention.state # "NONE"
  BY DEF IInv, TraceStates
<1>4. /\ collected' \in [Routes -> Seq(Identities)] /\ snapshots' \in [Routes -> Nat]
      /\ collected'[phase] = items /\ snapshots'[phase] = page.snapshot
      /\ \A route \in Routes \ {phase} :
           collected'[route] = collected[route] /\ snapshots'[route] = snapshots[route]
  <2>1. page.snapshot \in Nat
    BY <1>2
  <2> QED BY <1>1, <1>2, <2>1 DEF IInv
<1>5. CASE phase = "facts"
  <2>1. CollectedOK("facts")'
    BY <1>1, <1>2, <1>4, <1>5 DEF CollectedOK
  <2>2. StateOK' /\ phase' = "traces"
    BY <1>1, <1>2, <1>5 DEF IInv, StateOK
  <2>3. TraversalOK(history[phase'], traversal', Identities)
    BY <1>1, <2>2, NewTraversalOK DEF IInv, Routes
  <2> QED BY <1>1, <1>4, <2>1, <2>2, <2>3 DEF IInv, Routes
<1>6. CASE phase = "traces"
  <2>1. phase' = "done" /\ ~Duplicated(collected["facts"], items)
    BY <1>1, <1>6
  <2>2. CollectedOK("facts") /\ collected["facts"] \in Seq(Identities)
    BY <1>6 DEF IInv, Routes
  <2>3. ~Repeats(collected["facts"]) /\ ~Repeats(items)
    BY <1>2, <2>1, <2>2, RepeatsIsCounted DEF Duplicated
  <2>4. \A route \in Routes : /\ snapshots'[route] \in 1..Len(history[route])
                              /\ collected'[route] = history[route][snapshots'[route]]
    BY <1>2, <1>4, <1>6, <2>2, <2>3 DEF CollectedOK, Routes
  <2>5. reported' = {traceState'}
    <3>1. /\ StateOK /\ page.state = retention.state /\ traceState' = page.state
          /\ reported' = reported \union {page.state}
      BY <1>1, <1>2, <1>6 DEF IInv
    <3> QED BY <1>1, <3>1, StateStays
  <2> QED BY <1>1, <1>4, <2>1, <2>4, <2>5 DEF IInv, Routes
<1> QED BY <1>1, <1>5, <1>6

LEMMA StepInv ==
  ASSUME IInv, [Next]_vars
  PROVE  IInv'
<1>1. CASE Reading
  <2>1. CASE PageBound
    BY <2>1, FailInv DEF PageBound
  <2>2. CASE phase \in Routes /\
             \E page \in Served(phase) : RefusePage(page) \/ NextPage(page) \/ LastPage(page)
    <3>1. PICK page \in Served(phase) : RefusePage(page) \/ NextPage(page) \/ LastPage(page)
      BY <2>2
    <3>2. CASE RefusePage(page)
      BY <3>2, FailInv DEF RefusePage
    <3> QED BY <3>1, <3>2, NextPageInv, LastPageInv
  <2> QED BY <1>1, <2>1, <2>2 DEF Reading
<1>2. CASE \E reason \in {"unavailable", "contract"} : RequestFails(reason)
  BY <1>2, FailInv DEF RequestFails
<1>3. CASE \E route \in Routes : \E content \in Contents[route] : Change(route, content)
  BY <1>3, ChangeInv
<1>4. CASE \E state \in TraceStates : Flip(state)
  BY <1>4, FlipInv
<1>5. CASE UNCHANGED vars
  BY <1>5 DEF vars, IInv, CollectedOK, StateOK
<1> QED BY <1>1, <1>2, <1>3, <1>4, <1>5 DEF Next

(* What DeliveryObservationResolver holds of a route while it reads it. *)
THEOREM Invariance == Spec => []IInv
<1>1. IInv /\ [Next]_vars => IInv'
  BY StepInv
<1> QED BY InitInv, <1>1, PTL DEF Spec

(* However retention changes the trace state while the Trace pages are read, a completed
   observation carries the state that every page carried. *)
THEOREM TraceStateHeld == Spec => []TraceStateHeldThroughout
<1>1. IInv => TraceStateHeldThroughout
  BY DEF IInv, TraceStateHeldThroughout
<1> QED BY Invariance, <1>1, PTL

-----------------------------------------------------------------------------
(* What the observation exposes, as SnapshotRead names it. *)
Exposed ==
  [route \in Routes |->
    IF phase # "done" THEN Unread
    ELSE [version |-> snapshots[route], items |-> collected[route]]]

LEMMA InitRefines == Init => Abstract!Init
<1> SUFFICES ASSUME Init PROVE Abstract!Init
  OBVIOUS
<1>1. DOMAIN history = Routes
  BY DEF Init
<1>2. ASSUME NEW route \in Routes
      PROVE  \E content \in Contents[route] : history[route] = <<content>>
  <2>1. PICK content : history[route] = <<content>>
    BY DEF Init
  <2>2. history[route][1] = content
    BY <2>1
  <2> QED BY <2>1, <2>2 DEF Init
<1>3. phase # "done"
  BY DEF Init
<1> QED BY <1>1, <1>2, <1>3 DEF Abstract!Init

(* A step that exposes nothing and leaves the routes alone is a stutter. *)
LEMMA QuietStep ==
  ASSUME phase # "done", phase' # "done", UNCHANGED history
  PROVE  UNCHANGED Abstract!vars
BY DEF Abstract!vars

LEMMA LastPageRefines ==
  ASSUME IInv, IInv', NEW page \in Served(phase), LastPage(page)
  PROVE  Abstract!Next \/ UNCHANGED Abstract!vars
<1>1. UNCHANGED history /\ phase \in Routes /\ phase' \in {"traces", "done"}
  BY DEF LastPage, Asks
<1>2. CASE phase' = "traces"
  BY <1>1, <1>2, QuietStep DEF Routes
<1>3. CASE phase' = "done"
  <2> DEFINE version == [route \in Routes |-> snapshots'[route]]
  <2>1. \A route \in Routes : /\ version[route] \in DOMAIN history[route]
                              /\ collected'[route] = history[route][version[route]]
    BY <1>1, <1>3 DEF IInv
  <2>2. version \in [Routes -> UNION {DOMAIN history[route] : route \in Routes}]
    BY <2>1
  <2>3. phase # "done"
    BY <1>1 DEF Routes
  <2>4. Exposed' = [route \in Routes |->
                     [version |-> version[route], items |-> history[route][version[route]]]]
    BY <1>3, <2>1 DEF Exposed
  <2>5. \A route \in Routes : Exposed[route] = Unread
    BY <2>3 DEF Exposed
  <2> HIDE DEF version
  <2>6. Abstract!Return(Routes)
    BY <1>1, <2>1, <2>2, <2>4, <2>5 DEF Abstract!Return, Exposed
  <2>7. Routes \in (SUBSET Routes) \ {{}}
    BY DEF Routes
  <2> QED BY <2>6, <2>7 DEF Abstract!Next
<1> QED BY <1>1, <1>2, <1>3

LEMMA StepRefines ==
  ASSUME IInv, IInv', [Next]_vars
  PROVE  Abstract!Next \/ UNCHANGED Abstract!vars
<1>1. ASSUME NEW reason, Fail(reason), phase # "done"
      PROVE  UNCHANGED Abstract!vars
  BY <1>1, QuietStep DEF Fail
<1>2. CASE Reading
  <2>1. CASE PageBound
    BY <1>1, <2>1 DEF PageBound, Routes
  <2>2. CASE phase \in Routes /\
             \E page \in Served(phase) : RefusePage(page) \/ NextPage(page) \/ LastPage(page)
    <3>1. PICK page \in Served(phase) : RefusePage(page) \/ NextPage(page) \/ LastPage(page)
      BY <2>2
    <3>2. CASE RefusePage(page)
      BY <1>1, <2>2, <3>2 DEF RefusePage, Routes
    <3>3. CASE NextPage(page)
      BY <2>2, <3>3, QuietStep DEF NextPage, Routes
    <3> QED BY <3>1, <3>2, <3>3, LastPageRefines
  <2> QED BY <1>2, <2>1, <2>2 DEF Reading
<1>3. CASE \E reason \in {"unavailable", "contract"} : RequestFails(reason)
  BY <1>1, <1>3 DEF RequestFails, Asks, Routes
<1>4. CASE \E route \in Routes : \E content \in Contents[route] : Change(route, content)
  <2>1. PICK route \in Routes : \E content \in Contents[route] : Change(route, content)
    BY <1>4
  <2>2. PICK content \in Contents[route] : Change(route, content)
    BY <2>1
  <2>3. Abstract!Change(route, content)
    BY <2>2 DEF Change, client, Abstract!Change
  <2> QED BY <2>3 DEF Abstract!Next
<1>5. CASE \E state \in TraceStates : Flip(state)
  BY <1>5, QuietStep DEF Flip, client, Routes
<1>6. CASE UNCHANGED vars
  BY <1>6 DEF vars, Abstract!vars
<1> QED BY <1>2, <1>3, <1>4, <1>5, <1>6 DEF Next

(* A completed observation holds, of each route, the whole of one version, although the
   Evidence service changes between any two of the requests it took. *)
THEOREM ObservationRefines == Spec => ObservationReadsSnapshots
<1>1. IInv /\ IInv' /\ [Next]_vars => [Abstract!Next]_Abstract!vars
  BY StepRefines
<1> QED BY InitRefines, Invariance, <1>1, PTL DEF Spec, ObservationReadsSnapshots, Abstract!Spec
=============================================================================
