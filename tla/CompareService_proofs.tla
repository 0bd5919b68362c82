----------------------- MODULE CompareService_proofs -----------------------
(***************************************************************************)
(* What CompareService promises of a response, proved for any metrics and  *)
(* any values of the kinds the calculators emit.                           *)
(*                                                                         *)
(* The response is computed in one step from the way both sides ended, so  *)
(* the inductive invariant says which function of them it is; the rest is  *)
(* lemmas about the Deltas of two sides.                                   *)
(***************************************************************************)
EXTENDS CompareService, TLAPS

SingleResponse(ending) ==
  IF Succeeded(ending) THEN [status |-> 200, result |-> ending.slices]
  ELSE ErrorResponse(ending.error)

CompareResponse(l, r) ==
  IF Escapes(r) THEN ErrorResponse("UNCAUGHT") ELSE Comparison(l, r)

Responded ==
  /\ left \in Endings
  /\ mode = "SINGLE" => right = Pending /\ response = SingleResponse(left)
  /\ mode = "COMPARE" /\ Escapes(left) =>
       right = Pending /\ response = ErrorResponse("UNCAUGHT")
  /\ mode = "COMPARE" /\ ~Escapes(left) =>
       right \in Endings /\ response = CompareResponse(left, right)

IInv ==
  /\ mode \in {"SINGLE", "COMPARE"}
  /\ phase \in {"left", "right", "responded"}
  /\ phase = "left" => left = Pending /\ right = Pending /\ response = Pending
  /\ phase = "right" => /\ mode = "COMPARE" /\ left \in Endings /\ ~Escapes(left)
                        /\ right = Pending /\ response = Pending
  /\ phase = "responded" => Responded

-----------------------------------------------------------------------------
LEMMA Sides ==
  ASSUME NEW side \in Endings
  PROVE  /\ Succeeded(side) => side.slices \in Results
         /\ ~Succeeded(side) => side.error \in Exceptions
         /\ ~Succeeded(side) /\ ~Escapes(side) => side.error \in Typed
<1>1. CASE \E slices \in Results : side = [slices |-> slices]
  BY <1>1 DEF Succeeded
<1>2. CASE \E exception \in Exceptions : side = [error |-> exception]
  <2>1. PICK exception \in Exceptions : side = [error |-> exception]
    BY <1>2
  <2>2. side.error = exception /\ DOMAIN side = {"error"}
    BY <2>1
  <2>3. ~Succeeded(side)
    <3>1. "error" # "slices"
      OBVIOUS
    <3> QED BY <2>2, <3>1 DEF Succeeded
  <2>4. exception = "UNCAUGHT" => Escapes(side)
    BY <2>1 DEF Escapes
  <2> QED BY <2>2, <2>3, <2>4 DEF Exceptions
<1> QED BY <1>1, <1>2 DEF Endings

LEMMA PendingFails == ~Succeeded(Pending)
<1>1. DOMAIN Pending = {"pending"} /\ "pending" # "slices"
  BY DEF Pending
<1> QED BY <1>1 DEF Succeeded

LEMMA InitIInv == Init => IInv
  BY DEF Init, IInv

LEMMA NextIInv == IInv /\ [Next]_vars => IInv'
<1> SUFFICES ASSUME IInv, [Next]_vars PROVE IInv'
  OBVIOUS
<1>1. ASSUME NEW ending \in Endings, EndSingle(ending) PROVE IInv'
  <2>1. mode' = "SINGLE" /\ phase' = "responded" /\ left' \in Endings
        /\ right' = Pending /\ response' = SingleResponse(left')
    BY <1>1 DEF EndSingle, IInv, SingleResponse
  <2> QED BY <2>1 DEF IInv, Responded
<1>2. ASSUME NEW ending \in Endings, EndLeft(ending) PROVE IInv'
  <2>1. mode' = "COMPARE" /\ left' \in Endings /\ right' = Pending
    BY <1>2 DEF EndLeft, IInv
  <2>2. CASE Escapes(ending)
    <3>1. Escapes(left') /\ phase' = "responded" /\ response' = ErrorResponse("UNCAUGHT")
      BY <1>2, <2>2 DEF EndLeft
    <3> QED BY <2>1, <3>1 DEF IInv, Responded, Escapes
  <2>3. CASE ~Escapes(ending)
    <3>1. ~Escapes(left') /\ phase' = "right" /\ response' = Pending
      BY <1>2, <2>3 DEF EndLeft, IInv
    <3> QED BY <2>1, <3>1 DEF IInv, Escapes
  <2> QED BY <2>2, <2>3
<1>3. ASSUME NEW ending \in Endings, EndRight(ending) PROVE IInv'
  <2>1. /\ mode' = "COMPARE" /\ phase' = "responded"
        /\ left' \in Endings /\ ~Escapes(left') /\ right' \in Endings
        /\ response' = CompareResponse(left', right')
    BY <1>3 DEF EndRight, IInv, CompareResponse
  <2> QED BY <2>1 DEF IInv, Responded, Escapes
<1>4. CASE UNCHANGED vars
  BY <1>4 DEF vars, IInv, Responded, Escapes
<1> QED BY <1>1, <1>2, <1>3, <1>4 DEF Next

(* Every reachable state satisfies the inductive invariant. *)
THEOREM Invariance == Spec => []IInv
<1> QED BY InitIInv, NextIInv, PTL DEF Spec

-----------------------------------------------------------------------------
(* The status a response has, by the way the sides ended. *)
LEMMA ErrorHasNoComparison ==
  ASSUME NEW exception \in Exceptions
  PROVE  "compare" \notin DOMAIN ErrorResponse(exception)
<1>1. DOMAIN ErrorResponse(exception) = {"status", "code", "retryable"}
  BY DEF ErrorResponse, Exceptions, Typed
<1> QED BY <1>1

LEMMA FullComparison ==
  ASSUME NEW l, NEW r, Succeeded(l), Succeeded(r), ~SubtractionEscapes(l.slices, r.slices)
  PROVE  /\ Comparison(l, r).status = 200
         /\ Comparison(l, r).compare = "FULL_COMPARE"
         /\ Comparison(l, r).deltas = FullDeltas(l.slices, r.slices)
  BY DEF Comparison

LEMMA LeftComparison ==
  ASSUME NEW l, NEW r, Succeeded(l), ~Succeeded(r)
  PROVE  /\ Comparison(l, r).status = 200
         /\ Comparison(l, r).compare = "PARTIAL_COMPARE"
         /\ Comparison(l, r).deltas = [id \in DOMAIN l.slices |-> SideUnresolved]
  BY DEF Comparison

LEMMA RightComparison ==
  ASSUME NEW l, NEW r, ~Succeeded(l), Succeeded(r)
  PROVE  /\ Comparison(l, r).status = 200
         /\ Comparison(l, r).compare = "PARTIAL_COMPARE"
         /\ Comparison(l, r).deltas = [id \in DOMAIN r.slices |-> SideUnresolved]
  BY DEF Comparison

LEMMA NoComparison ==
  ASSUME NEW l, NEW r, ~Succeeded(l), ~Succeeded(r)
  PROVE  Comparison(l, r) = ErrorResponse(l.error)
  BY DEF Comparison, RaisedFailure

(* A response with a comparison is that of two sides of which one, at      *)
(* least, succeeded.                                                       *)
LEMMA WhatIsCompared ==
  ASSUME IInv, "compare" \in DOMAIN response
  PROVE  /\ left \in Endings /\ right \in Endings
         /\ response = Comparison(left, right)
         /\ Succeeded(left) \/ Succeeded(right)
<1>1. phase = "responded"
  <2>1. "compare" \notin DOMAIN Pending
    <3>1. DOMAIN Pending = {"pending"} /\ "pending" # "compare"
      BY DEF Pending
    <3> QED BY <3>1
  <2> QED BY <2>1 DEF IInv
<1>2. left \in Endings
  BY <1>1 DEF IInv, Responded
<1>3. mode = "COMPARE"
  <2> SUFFICES ASSUME mode = "SINGLE" PROVE FALSE
    BY DEF IInv
  <2>1. response = SingleResponse(left)
    BY <1>1 DEF IInv, Responded
  <2>2. CASE Succeeded(left)
    <3>1. DOMAIN response = {"status", "result"} /\ "compare" \notin {"status", "result"}
      BY <2>1, <2>2 DEF SingleResponse
    <3> QED BY <3>1
  <2>3. CASE ~Succeeded(left)
    BY <2>1, <2>3, <1>2, Sides, ErrorHasNoComparison DEF SingleResponse
  <2> QED BY <2>2, <2>3
<1>4. ~Escapes(left) /\ right \in Endings /\ response = CompareResponse(left, right)
  <2>1. "UNCAUGHT" \in Exceptions
    BY DEF Exceptions
  <2> QED BY <1>1, <1>3, <2>1, ErrorHasNoComparison DEF IInv, Responded
<1>5. response = Comparison(left, right)
  <2>1. "UNCAUGHT" \in Exceptions
    BY DEF Exceptions
  <2> QED BY <1>4, <2>1, ErrorHasNoComparison DEF CompareResponse
<1>6. Succeeded(left) \/ Succeeded(right)
  BY <1>2, <1>5, NoComparison, Sides, ErrorHasNoComparison
<1> QED BY <1>2, <1>4, <1>5, <1>6

-----------------------------------------------------------------------------
(* The slices of a side, and the Deltas of two sides. *)
LEMMA SliceValues ==
  ASSUME NEW slice \in Slice
  PROVE  /\ slice.state \in {"AVAILABLE", "LOWER_BOUND", "UNAVAILABLE"}
         /\ slice.state = "AVAILABLE" => /\ slice.value \in Int
                                        /\ Written(slice.kind, slice.value)
                                        /\ slice.kind # "BOOLEAN"
  BY CompareAssumption DEF Slice, Emitted

(* The whole values are the multiples of Scale, and closed under           *)
(* subtraction.                                                            *)
LEMMA Division ==
  ASSUME NEW v \in Int
  PROVE  /\ v \div Scale \in Int /\ v % Scale \in 0..(Scale - 1)
         /\ v = Scale * (v \div Scale) + (v % Scale)
  BY CompareAssumption

LEMMA WholeIsMultiple ==
  ASSUME NEW v \in Int, Whole(v)
  PROVE  \E k \in Int : v = Scale * k
<1>1. v = Scale * (v \div Scale)
  BY Division, CompareAssumption DEF Whole
<1> QED BY <1>1, Division

LEMMA MultipleIsWhole ==
  ASSUME NEW k \in Int
  PROVE  Whole(Scale * k)
<1> DEFINE q == (Scale * k) \div Scale
           r == (Scale * k) % Scale
<1>1. Scale * k \in Int
  BY CompareAssumption
<1>2. q \in Int /\ r \in 0..(Scale - 1) /\ Scale * k = Scale * q + r
  BY <1>1, Division
<1> HIDE DEF q, r
<1>3. r = Scale * (k - q)
  BY <1>2, CompareAssumption
<1>4. /\ k - q >= 1 => Scale * (k - q) >= Scale
      /\ k - q <= -1 => Scale * (k - q) <= -Scale
  BY <1>2, CompareAssumption
<1>5. k - q = 0
  BY <1>2, <1>3, <1>4, CompareAssumption
<1>6. r = 0
  BY <1>2, <1>3, <1>5, CompareAssumption
<1> QED BY <1>6 DEF Whole, r

LEMMA WholeDifference ==
  ASSUME NEW a \in Int, NEW b \in Int, Whole(a), Whole(b)
  PROVE  Whole(a - b)
<1>1. PICK j \in Int : a = Scale * j
  BY WholeIsMultiple
<1>2. PICK k \in Int : b = Scale * k
  BY WholeIsMultiple
<1>3. a - b = Scale * (j - k)
  BY <1>1, <1>2, CompareAssumption
<1> QED BY <1>3, MultipleIsWhole

(* So the difference of two values of one emitted kind can be written.     *)
LEMMA DifferenceWritten ==
  ASSUME NEW a \in Slice, NEW b \in Slice,
         a.state = "AVAILABLE", b.state = "AVAILABLE", a.kind = b.kind
  PROVE  Written(a.kind, a.value - b.value)
<1>1. /\ a.value \in Int /\ Written(a.kind, a.value)
      /\ b.value \in Int /\ Written(a.kind, b.value)
  BY SliceValues
<1> QED BY <1>1, WholeDifference DEF Written

LEMMA Slices ==
  ASSUME NEW slices \in Results, NEW id \in DOMAIN slices
  PROVE  slices[id] \in Slice
  BY DEF Results

LEMMA AvailableDelta ==
  ASSUME NEW kind, NEW delta \in Int, kind # "BOOLEAN", Written(kind, delta)
  PROVE  /\ Available(kind, delta).state = "AVAILABLE"
         /\ Available(kind, delta).reason = "NONE"
         /\ Available(kind, delta).kind = kind
         /\ Available(kind, delta).value = delta
         /\ DeltaFits(Available(kind, delta))
<1>1. /\ Available(kind, delta).state = "AVAILABLE" /\ Available(kind, delta).reason = "NONE"
      /\ Available(kind, delta).kind = kind /\ Available(kind, delta).value = delta
      /\ Available(kind, delta).direction = Direction(delta)
  BY DEF Available
<1>2. /\ Direction(delta) = "INCREASE" <=> delta > 0
      /\ Direction(delta) = "DECREASE" <=> delta < 0
  <2>1. CASE delta > 0
    BY <2>1 DEF Direction
  <2>2. CASE delta < 0
    BY <2>2 DEF Direction
  <2>3. CASE delta = 0
    BY <2>3 DEF Direction
  <2> QED BY <2>1, <2>2, <2>3
<1>3. delta # None
  BY CompareAssumption
<1> QED BY <1>1, <1>2, <1>3 DEF DeltaFits

LEMMA WithheldDelta ==
  ASSUME NEW reason, reason # "NONE"
  PROVE  /\ Withheld(reason).state = "WITHHELD"
         /\ Withheld(reason).reason = reason
         /\ DeltaFits(Withheld(reason))
  BY DEF Withheld, DeltaFits

(* The Delta of a pair of slices has a value exactly when both have one    *)
(* and they agree in kind, unit and compatibility; it is never refused.    *)
LEMMA PairOfSlices ==
  ASSUME NEW before \in Slice, NEW after \in Slice
  PROVE  LET delta == PairedDelta(before, after)
             back == PairedDelta(after, before)
         IN /\ DeltaFits(delta) /\ ~RefusesToSubtract(before, after)
            /\ delta.state \in {"AVAILABLE", "WITHHELD"}
            /\ delta.reason = back.reason
            /\ delta.state = "AVAILABLE" <=> /\ before.state = "AVAILABLE"
                                             /\ after.state = "AVAILABLE"
                                             /\ before.kind = after.kind
                                             /\ before.compat = after.compat
            /\ delta.state = "AVAILABLE" =>
                 /\ delta.kind = before.kind
                 /\ before.value + delta.value = after.value
                 /\ back.value = 0 - delta.value
<1>1. CASE BothAvailable(before, after) /\ ~Incompatible(before, after)
  <2>1. /\ before.value \in Int /\ after.value \in Int
        /\ before.state = "AVAILABLE" /\ after.state = "AVAILABLE"
        /\ before.kind = after.kind /\ before.kind # "BOOLEAN"
        /\ before.compat = after.compat
    BY <1>1, SliceValues DEF BothAvailable, Incompatible
  <2>2. BothAvailable(after, before) /\ ~Incompatible(after, before)
    BY <2>1 DEF BothAvailable, Incompatible
  <2>3. /\ PairedDelta(before, after) = Available(after.kind, after.value - before.value)
        /\ PairedDelta(after, before) = Available(before.kind, before.value - after.value)
    BY <1>1, <2>2 DEF PairedDelta, Subtract
  <2>4. /\ Written(after.kind, after.value - before.value)
        /\ Written(before.kind, before.value - after.value)
    BY <2>1, DifferenceWritten
  <2>5. after.value - before.value \in Int /\ before.value - after.value \in Int
    BY <2>1
  <2>6. DeltaFits(PairedDelta(before, after))
    BY <2>1, <2>3, <2>4, <2>5, AvailableDelta
  <2>7. /\ PairedDelta(before, after).value = after.value - before.value
        /\ PairedDelta(after, before).value = before.value - after.value
        /\ PairedDelta(before, after).kind = after.kind
        /\ PairedDelta(before, after).state = "AVAILABLE"
        /\ PairedDelta(before, after).reason = "NONE"
        /\ PairedDelta(after, before).reason = "NONE"
    BY <2>1, <2>3, <2>4, <2>5, AvailableDelta
  <2>8. /\ before.value + (after.value - before.value) = after.value
        /\ before.value - after.value = 0 - (after.value - before.value)
    BY <2>1
  <2>9. ~RefusesToSubtract(before, after)
    BY <2>4 DEF RefusesToSubtract, Subtract
  <2> QED BY <2>1, <2>6, <2>7, <2>8, <2>9
<1>2. CASE BothAvailable(before, after) /\ Incompatible(before, after)
  <2>1. /\ before.state = "AVAILABLE" /\ after.state = "AVAILABLE"
        /\ before.kind # "BOOLEAN" /\ after.kind # "BOOLEAN"
    BY <1>2, SliceValues DEF BothAvailable
  <2>2. BothAvailable(after, before) /\ Incompatible(after, before)
    BY <1>2, <2>1 DEF BothAvailable, Incompatible
  <2>3. /\ PairedDelta(before, after) = Withheld("INCOMPATIBLE")
        /\ PairedDelta(after, before) = Withheld("INCOMPATIBLE")
    BY <1>2, <2>2 DEF PairedDelta
  <2>4. ~(before.kind = after.kind /\ before.compat = after.compat)
    BY <1>2, <2>1 DEF Incompatible
  <2>5. ~RefusesToSubtract(before, after)
    BY <1>2 DEF RefusesToSubtract
  <2> QED BY <2>3, <2>4, <2>5, WithheldDelta
<1>3. CASE ~BothAvailable(before, after)
  <2>1. /\ PairedDelta(before, after) = Withheld("VALUE_WITHHELD")
        /\ PairedDelta(after, before) = Withheld("VALUE_WITHHELD")
    BY <1>3 DEF PairedDelta, BothAvailable
  <2>2. ~RefusesToSubtract(before, after)
    BY <1>3 DEF RefusesToSubtract
  <2> QED BY <1>3, <2>1, <2>2, WithheldDelta DEF BothAvailable
<1> QED BY <1>1, <1>2, <1>3

(* No subtraction of two results escapes.                                  *)
LEMMA NothingEscapes ==
  ASSUME NEW l \in Results, NEW r \in Results
  PROVE  ~SubtractionEscapes(l, r)
  BY Slices, PairOfSlices DEF SubtractionEscapes

(* The Deltas of two results. *)
LEMMA DeltaOfSides ==
  ASSUME NEW l \in Results, NEW r \in Results, NEW id \in DeltaIds(l, r)
  PROVE  LET delta == FullDeltas(l, r)[id]
             back == FullDeltas(r, l)[id]
         IN /\ DeltaFits(delta)
            /\ delta.state \in {"AVAILABLE", "WITHHELD"}
            /\ delta.reason = back.reason
            /\ delta.state = "AVAILABLE" <=> Comparable(l, r, id)
            /\ delta.state = "AVAILABLE" =>
                 /\ delta.kind = l[id].kind
                 /\ l[id].value + delta.value = r[id].value
                 /\ back.value = 0 - delta.value
<1>1. id \in DeltaIds(r, l)
  BY DEF DeltaIds
<1>2. CASE id \in DOMAIN l /\ id \in DOMAIN r
  <2>1. l[id] \in Slice /\ r[id] \in Slice
    BY <1>2, Slices
  <2>2. /\ FullDeltas(l, r)[id] = PairedDelta(l[id], r[id])
        /\ FullDeltas(r, l)[id] = PairedDelta(r[id], l[id])
    BY <1>1, <1>2 DEF FullDeltas
  <2>3. Comparable(l, r, id) <=> /\ l[id].state = "AVAILABLE"
                                 /\ r[id].state = "AVAILABLE"
                                 /\ l[id].kind = r[id].kind
                                 /\ l[id].compat = r[id].compat
    BY <1>2 DEF Comparable
  <2> QED BY <2>1, <2>2, <2>3, PairOfSlices
<1>3. CASE ~(id \in DOMAIN l /\ id \in DOMAIN r)
  <2>1. /\ FullDeltas(l, r)[id] = Withheld("SLICE_MISSING")
        /\ FullDeltas(r, l)[id] = Withheld("SLICE_MISSING")
    BY <1>1, <1>3 DEF FullDeltas
  <2>2. ~Comparable(l, r, id)
    BY <1>3 DEF Comparable
  <2> QED BY <2>1, <2>2, WithheldDelta
<1> QED BY <1>2, <1>3

LEMMA UnresolvedDelta ==
  SideUnresolved.state = "SIDE_UNRESOLVED" /\ DeltaFits(SideUnresolved)
  BY DEF SideUnresolved, DeltaFits

-----------------------------------------------------------------------------
(* The response model accepts what two sides that succeeded give. *)
LEMMA FullFits ==
  ASSUME NEW l \in Endings, NEW r \in Endings, Succeeded(l), Succeeded(r)
  PROVE  LET deltas == FullDeltas(l.slices, r.slices)
         IN /\ ComparisonFits(l, r, "FULL_COMPARE", deltas)
            /\ \A id \in DOMAIN deltas : DeltaFits(deltas[id])
<1> DEFINE deltas == FullDeltas(l.slices, r.slices)
<1>1. l.slices \in Results /\ r.slices \in Results
  BY Sides
<1>3. DOMAIN deltas = DeltaIds(l.slices, r.slices)
  BY DEF FullDeltas
<1>4. DOMAIN deltas = UNION {DOMAIN side.slices : side \in {x \in {l, r} : Succeeded(x)}}
  BY <1>3 DEF DeltaIds
<1>5. ASSUME NEW id \in DOMAIN deltas
      PROVE  /\ DeltaFits(deltas[id])
             /\ deltas[id].state \in {"AVAILABLE", "WITHHELD"}
             /\ deltas[id].state = "AVAILABLE" <=> Comparable(l.slices, r.slices, id)
             /\ deltas[id].state = "AVAILABLE" => deltas[id].kind = l.slices[id].kind
  BY <1>1, <1>3, <1>5, DeltaOfSides
<1> HIDE DEF deltas
<1>6. ComparisonFits(l, r, "FULL_COMPARE", deltas)
  BY <1>4, <1>5 DEF ComparisonFits
<1>7. \A id \in DOMAIN deltas : DeltaFits(deltas[id])
  BY <1>5
<1> QED BY <1>6, <1>7 DEF deltas

(* It accepts what one side that succeeded gives. *)
LEMMA PartialFits ==
  ASSUME NEW l, NEW r, NEW kept, NEW lost, {l, r} = {kept, lost},
         Succeeded(kept), ~Succeeded(lost),
         NEW deltas, deltas = [id \in DOMAIN kept.slices |-> SideUnresolved]
  PROVE  /\ ComparisonFits(l, r, "PARTIAL_COMPARE", deltas)
         /\ \A id \in DOMAIN deltas : DeltaFits(deltas[id])
<1> DEFINE results == {side \in {l, r} : Succeeded(side)}
<1>1. (l = kept /\ r = lost) \/ (l = lost /\ r = kept)
  OBVIOUS
<1>2. (Succeeded(l) # Succeeded(r)) /\ ~(Succeeded(l) /\ Succeeded(r))
  BY <1>1 DEF Succeeded
<1>3. results = {kept}
  OBVIOUS
<1>4. DOMAIN deltas = UNION {DOMAIN side.slices : side \in results}
  BY <1>3
<1>5. \A id \in DOMAIN deltas : deltas[id].state = "SIDE_UNRESOLVED"
  BY UnresolvedDelta
<1>6. \A id \in DOMAIN deltas : DeltaFits(deltas[id])
  BY UnresolvedDelta
<1>7. ComparisonFits(l, r, "PARTIAL_COMPARE", deltas)
  BY <1>2, <1>4, <1>5 DEF ComparisonFits
<1> QED BY <1>6, <1>7

(* Two sides that succeeded, and nothing else, make the response.          *)
LEMMA WhatCompared ==
  ASSUME IInv, Compared
  PROVE  /\ left \in Endings /\ right \in Endings
         /\ response = Comparison(left, right)
<1>1. mode = "COMPARE"
  BY PendingFails DEF Compared, IInv, Responded
<1>2. ~Escapes(left) /\ ~Escapes(right)
  <2>1. ASSUME NEW side, Succeeded(side) PROVE ~Escapes(side)
    <3>1. DOMAIN [error |-> "UNCAUGHT"] = {"error"} /\ "error" # "slices"
      OBVIOUS
    <3> QED BY <2>1, <3>1 DEF Succeeded, Escapes
  <2> QED BY <2>1 DEF Compared
<1> QED BY <1>1, <1>2 DEF Compared, IInv, Responded, CompareResponse

(* Whatever values of the emitted kinds the sides hold, two sides that     *)
(* succeeded are compared and the response model accepts the comparison.   *)
THEOREM ResponseAccepted == Spec => []ResponseModelAcceptsDeltas
<1>1. ASSUME IInv, "compare" \in DOMAIN response
      PROVE  /\ ComparisonFits(left, right, response.compare, response.deltas)
             /\ \A id \in DOMAIN response.deltas : DeltaFits(response.deltas[id])
  <2>1. /\ left \in Endings /\ right \in Endings
        /\ response = Comparison(left, right)
        /\ Succeeded(left) \/ Succeeded(right)
    BY <1>1, WhatIsCompared
  <2>2. CASE Succeeded(left) /\ Succeeded(right)
    <3>1. /\ response.compare = "FULL_COMPARE"
          /\ response.deltas = FullDeltas(left.slices, right.slices)
      BY <2>1, <2>2, FullComparison, NothingEscapes, Sides
    <3> QED BY <2>1, <2>2, <3>1, FullFits
  <2>3. CASE Succeeded(left) /\ ~Succeeded(right)
    <3>1. /\ response.compare = "PARTIAL_COMPARE"
          /\ response.deltas = [id \in DOMAIN left.slices |-> SideUnresolved]
      BY <2>1, <2>3, LeftComparison
    <3> QED BY <2>3, <3>1, PartialFits
  <2>4. CASE ~Succeeded(left) /\ Succeeded(right)
    <3>1. /\ response.compare = "PARTIAL_COMPARE"
          /\ response.deltas = [id \in DOMAIN right.slices |-> SideUnresolved]
      BY <2>1, <2>4, RightComparison
    <3>2. {left, right} = {right, left}
      OBVIOUS
    <3> QED BY <2>4, <3>1, <3>2, PartialFits
  <2> QED BY <2>1, <2>2, <2>3, <2>4
<1>2. ASSUME IInv, Compared PROVE response.status = 200
  <2>1. left \in Endings /\ right \in Endings /\ response = Comparison(left, right)
    BY <1>2, WhatCompared
  <2> QED BY <1>2, <2>1, FullComparison, NothingEscapes, Sides DEF Compared
<1>3. IInv => ResponseModelAcceptsDeltas
  BY <1>1, <1>2 DEF ResponseModelAcceptsDeltas
<1> QED BY <1>3, Invariance, PTL

(* Every Delta leads from the left value to the right one, and exchanging  *)
(* the sides changes its sign and nothing else.                            *)
THEOREM DeltasDirected == Spec => []DeltasLeadFromLeftToRight
<1>1. ASSUME IInv, Compared PROVE DeltasLeadFromLeftToRight
  <2>1. /\ left \in Endings /\ right \in Endings
        /\ response = Comparison(left, right)
    BY <1>1, WhatCompared
  <2>2. response.deltas = FullDeltas(left.slices, right.slices)
    BY <1>1, <2>1, FullComparison, NothingEscapes, Sides DEF Compared
  <2>3. left.slices \in Results /\ right.slices \in Results
    BY <1>1, <2>1, Sides DEF Compared
  <2>4. DOMAIN response.deltas = DeltaIds(left.slices, right.slices)
    BY <2>2 DEF FullDeltas
  <2> QED BY <2>2, <2>3, <2>4, DeltaOfSides DEF DeltasLeadFromLeftToRight
<1>2. IInv => DeltasLeadFromLeftToRight
  BY <1>1 DEF DeltasLeadFromLeftToRight
<1> QED BY <1>2, Invariance, PTL

(* A side that fails never costs the other one its result.                 *)
THEOREM FailureContained == Spec => []FailureIsContained
<1>1. ASSUME IInv, phase = "responded", mode = "COMPARE", ~Escapes(left), ~Escapes(right)
      PROVE  FailureIsContained
  <2>1. /\ left \in Endings /\ right \in Endings
        /\ response = Comparison(left, right)
    BY <1>1 DEF IInv, Responded, CompareResponse
  <2>2. ASSUME NEW kept \in {left, right}, Succeeded(kept),
               response.status = 200, response.compare = "PARTIAL_COMPARE",
               response.deltas = [id \in DOMAIN kept.slices |-> SideUnresolved]
        PROVE  /\ response.status = 200 /\ response.compare = "PARTIAL_COMPARE"
               /\ DOMAIN response.deltas = DOMAIN kept.slices
               /\ \A id \in DOMAIN response.deltas :
                    response.deltas[id].state = "SIDE_UNRESOLVED"
    BY <2>2, UnresolvedDelta
  <2>3. CASE Succeeded(left) /\ ~Succeeded(right)
    <3>1. /\ response.status = 200 /\ response.compare = "PARTIAL_COMPARE"
          /\ response.deltas = [id \in DOMAIN left.slices |-> SideUnresolved]
      BY <2>1, <2>3, LeftComparison
    <3> QED BY <2>2, <2>3, <3>1 DEF FailureIsContained
  <2>4. CASE ~Succeeded(left) /\ Succeeded(right)
    <3>1. /\ response.status = 200 /\ response.compare = "PARTIAL_COMPARE"
          /\ response.deltas = [id \in DOMAIN right.slices |-> SideUnresolved]
      BY <2>1, <2>4, RightComparison
    <3> QED BY <2>2, <2>4, <3>1 DEF FailureIsContained
  <2>5. CASE Succeeded(left) /\ Succeeded(right)
    <3>1. ~(Succeeded(left) # Succeeded(right))
      BY <2>5 DEF Succeeded
    <3> QED BY <2>5, <3>1 DEF FailureIsContained
  <2>6. CASE ~Succeeded(left) /\ ~Succeeded(right)
    <3>1. ~(Succeeded(left) # Succeeded(right))
      BY <2>6 DEF Succeeded
    <3> QED BY <2>1, <2>6, <3>1, NoComparison DEF FailureIsContained
  <2> QED BY <2>3, <2>4, <2>5, <2>6
<1>2. IInv => FailureIsContained
  BY <1>1 DEF FailureIsContained
<1> QED BY <1>2, Invariance, PTL
=============================================================================
