---------------------------- MODULE SnapshotRead ----------------------------
(***************************************************************************)
(* What a paged read of Evidence routes promises: however many requests it *)
(* takes and however the routes change meanwhile, the read of a route      *)
(* returns, in one step and once, the whole content of one version of it,  *)
(* or nothing.                                                             *)
(***************************************************************************)
EXTENDS Naturals, Sequences

CONSTANTS
  Routes,       \* the routes a resolver reads
  Contents,     \* Contents[route]: what the route may hold
  Unread

VARIABLES
  history,      \* history[route]: the versions of the route
  outcome       \* outcome[route]: what the read returned

vars == <<history, outcome>>

Init ==
  /\ DOMAIN history = Routes
  /\ \A route \in Routes : \E content \in Contents[route] : history[route] = <<content>>
  /\ outcome = [route \in Routes |-> Unread]

Change(route, content) ==
  /\ history' = [history EXCEPT ![route] = Append(@, content)]
  /\ UNCHANGED outcome

(* The reads of some routes return, together, each one version. *)
Return(routes) ==
  /\ \A route \in routes : outcome[route] = Unread
  /\ \E version \in [routes -> UNION {DOMAIN history[route] : route \in routes}] :
       /\ \A route \in routes : version[route] \in DOMAIN history[route]
       /\ outcome' = [route \in Routes |->
            IF route \in routes
            THEN [version |-> version[route], items |-> history[route][version[route]]]
            ELSE outcome[route]]
  /\ UNCHANGED history

Next ==
  \/ \E route \in Routes : \E content \in Contents[route] : Change(route, content)
  \/ \E routes \in (SUBSET Routes) \ {{}} : Return(routes)

Spec == Init /\ [][Next]_vars
=============================================================================
