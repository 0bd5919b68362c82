--------------------------- MODULE CompareService ---------------------------
(***************************************************************************)
(* A request from its arrival to its HTTP response: compute and            *)
(* _compute_compare of compute.py and the route of app.py.  A SINGLE       *)
(* request computes one side; a COMPARE request computes the left side and *)
(* then the right one, and subtracts them slice by slice.  How a side ends *)
(* is SideCompute's business: here it ends with slices or an exception.    *)
(***************************************************************************)
EXTENDS Integers, Sequences

CONSTANTS
  SliceIds,     \* a metric coordinate with a slice key
  Kinds,        \* the kinds of value the slices have
  Compat,       \* unit and compatibility of a value
  Scale,        \* a value is an integer number of parts, Scale of them make 1
  Values,       \* the exact values, in such parts
  None

(* The kinds the calculators give their values.  The response model knows  *)
(* COUNT and BOOLEAN too; no calculator emits them.                        *)
Emitted == {"RATIO", "QUANTITY", "MONEY", "DURATION_MS"}

ASSUME CompareAssumption ==
  /\ Scale \in Nat \ {0} /\ Values \subseteq Int /\ None \notin Int
  /\ Kinds \subseteq Emitted

(* Values that need not be whole: the others are written as integers.      *)
Rational == {"RATIO", "DURATION_MS"}

Whole(value) == value % Scale = 0

Written(kind, value) == kind \in Rational \/ Whole(value)

(* AVAILABLE and LOWER_BOUND slices have a value, UNAVAILABLE ones none. *)
Slice ==
  {slice \in [state: {"AVAILABLE", "LOWER_BOUND"}, kind: Kinds, compat: Compat, value: Values] :
     Written(slice.kind, slice.value)}
  \union [state: {"UNAVAILABLE"}, kind: {None}, compat: Compat, value: {None}]

Results == UNION {[ids -> Slice] : ids \in (SUBSET SliceIds) \ {{}}}

(* The exceptions _compute_compare catches, and any other. *)
Typed == {"UNAVAILABLE", "MISMATCH", "BOUND"}

Exceptions == Typed \union {"UNCAUGHT"}

VARIABLES
  mode,         \* "SINGLE" or "COMPARE"
  phase,        \* "left", "right" or "responded"; SINGLE has only "left"
  left, right,  \* how a side ended: [slices |-> ..] or [error |-> ..]
  response      \* the HTTP response

vars == <<mode, phase, left, right, response>>

Pending == [pending |-> TRUE]

Succeeded(side) == DOMAIN side = {"slices"}

-----------------------------------------------------------------------------
(* Bugs the properties below are shown to catch. *)

SubtractsTheWrongWay(after, before) == before - after

ComparesLowerBounds(before, after) ==
  before.state # "UNAVAILABLE" /\ after.state # "UNAVAILABLE"

RaisesTheRightFailure(l, r) == r.error

-----------------------------------------------------------------------------
Subtract(after, before) == after - before

BothAvailable(before, after) ==
  before.state = "AVAILABLE" /\ after.state = "AVAILABLE"

Withheld(reason) ==
  [state |-> "WITHHELD", reason |-> reason, kind |-> None, value |-> None,
   direction |-> "NONE"]

Direction(delta) ==
  CASE delta > 0 -> "INCREASE" [] delta < 0 -> "DECREASE" [] delta = 0 -> "NO_CHANGE"

Available(kind, delta) ==
  [state |-> "AVAILABLE", reason |-> "NONE", kind |-> kind, value |-> delta,
   direction |-> Direction(delta)]

(* A truth value has no difference, however alike the two sides are. *)
Incompatible(before, after) ==
  \/ before.kind # after.kind \/ before.compat # after.compat
  \/ before.kind = "BOOLEAN"

PairedDelta(before, after) ==
  IF ~BothAvailable(before, after) THEN Withheld("VALUE_WITHHELD")
  ELSE IF Incompatible(before, after) THEN Withheld("INCOMPATIBLE")
  ELSE Available(after.kind, Subtract(after.value, before.value))

(* _subtract raises a ValueError that no handler catches: a fraction where *)
(* the kind has integers only.                                             *)
RefusesToSubtract(before, after) ==
  /\ BothAvailable(before, after) /\ ~Incompatible(before, after)
  /\ ~Written(after.kind, Subtract(after.value, before.value))

DeltaIds(l, r) == DOMAIN l \union DOMAIN r

(* _full_deltas *)
FullDeltas(l, r) ==
  [id \in DeltaIds(l, r) |->
     IF id \notin DOMAIN l \/ id \notin DOMAIN r THEN Withheld("SLICE_MISSING")
     ELSE PairedDelta(l[id], r[id])]

SubtractionEscapes(l, r) ==
  \E id \in DOMAIN l \intersect DOMAIN r : RefusesToSubtract(l[id], r[id])

SideUnresolved ==
  [state |-> "SIDE_UNRESOLVED", reason |-> "SIDE_UNRESOLVED", kind |-> None,
   value |-> None, direction |-> "NONE"]

(* _side_error and the handlers of the compute route. *)
ErrorResponse(exception) ==
  CASE exception = "UNAVAILABLE" -> [status |-> 503, code |-> "UPSTREAM_UNAVAILABLE", retryable |-> TRUE]
    [] exception = "BOUND" -> [status |-> 413, code |-> "RESOLUTION_BOUND_EXCEEDED", retryable |-> FALSE]
    [] exception = "MISMATCH" -> [status |-> 502, code |-> "UPSTREAM_INCOMPATIBLE", retryable |-> FALSE]
    [] exception = "UNCAUGHT" -> [status |-> 500, code |-> "NONE", retryable |-> FALSE]

SideError(exception) ==
  [code |-> ErrorResponse(exception).code, retryable |-> ErrorResponse(exception).retryable]

RaisedFailure(l, r) == l.error

(* The response to a COMPARE request of which no side escaped. *)
Comparison(l, r) ==
  CASE Succeeded(l) /\ Succeeded(r) ->
         IF SubtractionEscapes(l.slices, r.slices) THEN ErrorResponse("UNCAUGHT")
         ELSE [status |-> 200, compare |-> "FULL_COMPARE",
               deltas |-> FullDeltas(l.slices, r.slices)]
    [] Succeeded(l) /\ ~Succeeded(r) ->
         [status |-> 200, compare |-> "PARTIAL_COMPARE", failed |-> SideError(r.error),
          deltas |-> [id \in DOMAIN l.slices |-> SideUnresolved]]
    [] ~Succeeded(l) /\ Succeeded(r) ->
         [status |-> 200, compare |-> "PARTIAL_COMPARE", failed |-> SideError(l.error),
          deltas |-> [id \in DOMAIN r.slices |-> SideUnresolved]]
    [] ~Succeeded(l) /\ ~Succeeded(r) -> ErrorResponse(RaisedFailure(l, r))

-----------------------------------------------------------------------------
Init ==
  /\ mode \in {"SINGLE", "COMPARE"}
  /\ phase = "left"
  /\ left = Pending /\ right = Pending /\ response = Pending

Endings == {[slices |-> slices] : slices \in Results}
           \union {[error |-> exception] : exception \in Exceptions}

Escapes(ending) == ending = [error |-> "UNCAUGHT"]

EndSingle(ending) ==
  /\ mode = "SINGLE" /\ phase = "left"
  /\ left' = ending
  /\ response' = IF Succeeded(ending) THEN [status |-> 200, result |-> ending.slices]
                 ELSE ErrorResponse(ending.error)
  /\ phase' = "responded"
  /\ UNCHANGED <<mode, right>>

(* The left side ends; unless its exception is not caught, the right side  *)
(* is computed, even when the left one failed.                             *)
EndLeft(ending) ==
  /\ mode = "COMPARE" /\ phase = "left"
  /\ left' = ending
  /\ \/ /\ Escapes(ending)
        /\ response' = ErrorResponse("UNCAUGHT") /\ phase' = "responded"
     \/ /\ ~Escapes(ending)
        /\ phase' = "right" /\ UNCHANGED response
  /\ UNCHANGED <<mode, right>>

EndRight(ending) ==
  /\ phase = "right"
  /\ right' = ending
  /\ response' = IF Escapes(ending) THEN ErrorResponse("UNCAUGHT") ELSE Comparison(left, ending)
  /\ phase' = "responded"
  /\ UNCHANGED <<mode, left>>

Next == \E ending \in Endings : EndSingle(ending) \/ EndLeft(ending) \/ EndRight(ending)

Spec == Init /\ [][Next]_vars

-----------------------------------------------------------------------------
Compared == phase = "responded" /\ Succeeded(left) /\ Succeeded(right)

(* The validator of a Delta: a value and its sign, or the reason why not.  *)
DeltaFits(delta) ==
  /\ delta.state = "AVAILABLE" =>
       /\ delta.value # None /\ delta.reason = "NONE"
       /\ delta.kind # "BOOLEAN" /\ Written(delta.kind, delta.value)
       /\ delta.direction = "INCREASE" <=> delta.value > 0
       /\ delta.direction = "DECREASE" <=> delta.value < 0
  /\ delta.state # "AVAILABLE" => delta.value = None /\ delta.direction = "NONE"
  /\ delta.state = "WITHHELD" => delta.reason # "NONE"

Comparable(l, r, id) ==
  /\ id \in DOMAIN l \intersect DOMAIN r
  /\ l[id].state = "AVAILABLE" /\ r[id].state = "AVAILABLE"
  /\ l[id].kind = r[id].kind /\ l[id].compat = r[id].compat

(* The validator of a comparison: a Delta for every slice of every side    *)
(* that succeeded, a value of their kind exactly where the two can be      *)
(* compared (which, unlike _full_deltas, it would also say of two truth    *)
(* values), and a status that tells how many sides succeeded.              *)
ComparisonFits(l, r, status, deltas) ==
  LET results == {side \in {l, r} : Succeeded(side)} IN
  /\ DOMAIN deltas = UNION {DOMAIN side.slices : side \in results}
  /\ Succeeded(l) /\ Succeeded(r) =>
       \A id \in DOMAIN deltas :
         /\ deltas[id].state = "AVAILABLE" <=> Comparable(l.slices, r.slices, id)
         /\ deltas[id].state = "AVAILABLE" => deltas[id].kind = l.slices[id].kind
  /\ status = "PARTIAL_COMPARE" =>
       /\ Succeeded(l) # Succeeded(r)
       /\ \A id \in DOMAIN deltas : deltas[id].state = "SIDE_UNRESOLVED"
  /\ status = "FULL_COMPARE" =>
       /\ Succeeded(l) /\ Succeeded(r)
       /\ \A id \in DOMAIN deltas : deltas[id].state # "SIDE_UNRESOLVED"

(* Two sides that succeeded are always compared, and the response model    *)
(* accepts every comparison and every Delta of it: whatever values of the  *)
(* emitted kinds the sides hold, a finished computation does not fail at   *)
(* the end, neither in the subtraction nor in a validator.  It is the      *)
(* calculators that see to this: of two truth values _full_deltas and the  *)
(* validator of the response disagree.                                     *)
ResponseModelAcceptsDeltas ==
  /\ Compared => response.status = 200
  /\ "compare" \in DOMAIN response =>
       /\ ComparisonFits(left, right, response.compare, response.deltas)
       /\ \A id \in DOMAIN response.deltas : DeltaFits(response.deltas[id])

(* An available Delta leads from the left value to the right one, and      *)
(* exchanging the sides of the request would change the sign of every      *)
(* Delta and nothing else.                                                 *)
DeltasLeadFromLeftToRight ==
  Compared =>
    LET l == left.slices
        r == right.slices
        back == FullDeltas(r, l)
    IN \A id \in DOMAIN response.deltas :
         /\ back[id].reason = response.deltas[id].reason
         /\ response.deltas[id].state = "AVAILABLE" =>
              /\ l[id].value + response.deltas[id].value = r[id].value
              /\ back[id].value = 0 - response.deltas[id].value

(* One failed side never costs the other its result: with one typed        *)
(* failure the response is PARTIAL_COMPARE with every slice of the side    *)
(* that succeeded; only when both fail is there an error response, and it  *)
(* is the one a SINGLE request for the left side would have had.           *)
FailureIsContained ==
  phase = "responded" /\ mode = "COMPARE" /\ ~Escapes(left) /\ ~Escapes(right) =>
    /\ Succeeded(left) # Succeeded(right) =>
         LET kept == IF Succeeded(left) THEN left ELSE right IN
         /\ response.status = 200 /\ response.compare = "PARTIAL_COMPARE"
         /\ DOMAIN response.deltas = DOMAIN kept.slices
         /\ \A id \in DOMAIN response.deltas :
              response.deltas[id].state = "SIDE_UNRESOLVED"
    /\ ~Succeeded(left) /\ ~Succeeded(right) => response = ErrorResponse(left.error)

=============================================================================
