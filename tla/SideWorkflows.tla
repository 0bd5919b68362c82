---------------------------- MODULE SideWorkflows ----------------------------
(***************************************************************************)
(* The Workflow step of the sides of concurrent compute requests, composed *)
(* with the resolver they share.  A side resolves the Manifests of its     *)
(* population one after the other (SelectionPopulationResolver.resolve of  *)
(* resolution/service.py) while its own deadline runs                      *)
(* (EvolutionComputeService._compute_side_bounded of compute.py); the      *)
(* deadline cancels the resolution in progress and fails the side.  A      *)
(* caller may begin another side afterwards: the other side of a COMPARE   *)
(* request, a retry, an unrelated request.                                 *)
(*                                                                         *)
(* A source checks an archive on a thread of the event loop's executor     *)
(* (ExactWorkflowArchiveValidator.validate of archive.py).  Neither a      *)
(* timeout nor a cancellation stops that thread or the Node process it     *)
(* waits for: the fetch ends, the thread goes on, and what it returns      *)
(* reaches nobody.  Until then its worker is taken.                        *)
(*                                                                         *)
(* Every step of the resolver is a step of WorkflowSources.  Reading the   *)
(* population before this step, and observing the Deliveries after it,     *)
(* only spend time here; they are the modules SelectionPopulation and      *)
(* SideCompute.                                                            *)
(***************************************************************************)
EXTENDS WorkflowSources, FiniteSets

CONSTANTS
  SideTicks,      \* side_deadline_seconds, in ticks of the clock
  Spent,          \* ticks a side may have spent before its Workflow step
  Populations,    \* the sequences of Manifests a side may have to resolve
  Workers,        \* the threads of the executor
  Free, Abandoned \* a worker without a thread; one whose fetch is over

ASSUME SideAssumption ==
  /\ SideTicks \in Nat \ {0}
  /\ Spent \subseteq 0..SideTicks
  /\ Populations \subseteq Seq(Manifests)

ASSUME WorkerAssumption == Free \notin Callers /\ Abandoned \notin Callers

VARIABLES
  side,       \* side[c]: the side caller c is computing, or its last one
  worker,     \* worker[w]: the caller whose archive w checks, Free or Abandoned
  abandoned   \* abandoned[c]: threads the side of c has left behind so far

threads == <<worker, abandoned>>

sideVars == <<side, worker, abandoned, call, cache>>

NoSide == [pc |-> "idle", population |-> <<>>, entries |-> <<>>,
           left |-> 0, began |-> 0, known |-> {}]

-----------------------------------------------------------------------------
Running(c) == side[c].pc \in {"ready", "waiting", "observing"}

NextManifest(c) == side[c].population[Len(side[c].entries) + 1]

(* The resolutions with a cached candidate. *)
Known == {k \in CacheKeys : cache[k] # NoEntry}

(* The code of some side runs on without an await; nothing else happens    *)
(* before it does.                                                         *)
Urgent ==
  \E c \in Callers :
    side[c].pc = "ready" \/ (side[c].pc = "waiting" /\ ~IsFetching(c))

Validating(c) == \E w \in Workers : worker[w] = c

(* The thread of c, if there is one, has ended with its fetch. *)
Joined(c) ==
  /\ worker' = [w \in Workers |-> IF worker[w] = c THEN Free ELSE worker[w]]
  /\ UNCHANGED abandoned

(* The thread of c, if there is one, outlives its fetch. *)
LeftBehind(c) ==
  /\ worker' = [w \in Workers |-> IF worker[w] = c THEN Abandoned ELSE worker[w]]
  /\ abandoned' = IF Validating(c) THEN [abandoned EXCEPT ![c] = @ + 1] ELSE abandoned

SideInit ==
  /\ Init
  /\ side = [c \in Callers |-> NoSide]
  /\ worker = [w \in Workers |-> Free]
  /\ abandoned = [c \in Callers |-> 0]

(* The population of a side is complete: its Workflow step begins. *)
Begin(c, population, spent) ==
  /\ ~Urgent /\ ~Running(c)
  /\ side' = [side EXCEPT ![c] =
       [pc |-> "ready", population |-> population, entries |-> <<>>,
        left |-> SideTicks - spent, began |-> SideTicks - spent, known |-> Known]]
  /\ abandoned' = [abandoned EXCEPT ![c] = 0]
  /\ UNCHANGED <<vars, worker>>

AskNext(c) ==
  /\ side[c].pc = "ready" /\ Len(side[c].entries) < Len(side[c].population)
  /\ Resolve(c, NextManifest(c))
  /\ side' = [side EXCEPT ![c].pc = "waiting"]
  /\ UNCHANGED threads

(* The answer becomes an entry of the receipt; only its state is kept. *)
Collect(c) ==
  /\ side[c].pc = "waiting" /\ call[c].pc = "returned"
  /\ side' = [side EXCEPT ![c].pc = "ready", ![c].entries = Append(@, call[c].state)]
  /\ UNCHANGED <<vars, threads>>

(* What escapes the resolver escapes the side. *)
Propagate(c) ==
  /\ side[c].pc = "waiting" /\ call[c].pc = "raised"
  /\ side' = [side EXCEPT ![c].pc = "raised"]
  /\ UNCHANGED <<vars, threads>>

Observe(c) ==
  /\ side[c].pc = "ready" /\ Len(side[c].entries) = Len(side[c].population)
  /\ side' = [side EXCEPT ![c].pc = "observing"]
  /\ UNCHANGED <<vars, threads>>

(* The Deliveries are observed and the side succeeds. *)
Finish(c) ==
  /\ ~Urgent /\ side[c].pc = "observing"
  /\ side' = [side EXCEPT ![c].pc = "done"]
  /\ UNCHANGED <<vars, threads>>

(* A worker takes up the archive c's fetch has downloaded.  While all of   *)
(* them are taken the fetch waits.                                         *)
CheckArchive(c) ==
  /\ IsFetching(c) /\ ~Validating(c)
  /\ \E w \in Workers : worker[w] = Free /\ worker' = [worker EXCEPT ![w] = c]
  /\ UNCHANGED <<side, abandoned, vars>>

(* An abandoned thread ends; neither a call nor the cache learns of it. *)
EndUnnoticed(w) ==
  /\ worker[w] = Abandoned
  /\ worker' = [worker EXCEPT ![w] = Free]
  /\ UNCHANGED <<side, abandoned, vars>>

(* A step of the resolver that the loop over the sources takes.  Every     *)
(* candidate comes from a thread; what fails may fail before one or on one.*)
SourceStep(c) ==
  /\ ~Urgent
  /\ \/ /\ Validating(c)
        /\ \E candidate \in Candidates : ReceiveCandidate(c, candidate)
        /\ Joined(c)
     \/ /\ \/ \E code \in FailureCodes : ReceiveFailure(c, code)
           \/ Escape(c)
        /\ Joined(c)
     \/ TimeOut(c) /\ LeftBehind(c)
  /\ UNCHANGED side

(* asyncio.timeout of the side is due while it awaits a source: the        *)
(* cancellation ends the fetch, the resolution and the side.               *)
CancelAtDeadline(c) ==
  /\ ~Urgent /\ side[c].pc = "waiting" /\ side[c].left = 0
  /\ Cancel(c)
  /\ side' = [side EXCEPT ![c].pc = "failed"]
  /\ LeftBehind(c)

(* asyncio.timeout of the side is due while it awaits Evidence. *)
ObservedTooLong(c) ==
  /\ ~Urgent /\ side[c].pc = "observing" /\ side[c].left = 0
  /\ side' = [side EXCEPT ![c].pc = "failed"]
  /\ UNCHANGED <<vars, threads>>

(* One tick of the clock.  No callback of the event loop blocks it, so a   *)
(* timeout that is due is delivered before the clock moves on.             *)
Tick ==
  /\ ~Urgent
  /\ \A c \in Callers : /\ IsFetching(c) => call[c].timer > 0
                        /\ Running(c) => side[c].left > 0
  /\ \/ Elapse
     \/ /\ \E c \in Callers : Running(c)
        /\ \A c \in Callers : ~IsFetching(c)
        /\ UNCHANGED vars
  /\ side' = [c \in Callers |->
       IF Running(c) THEN [side[c] EXCEPT !.left = @ - 1] ELSE side[c]]
  /\ UNCHANGED threads

SideNext ==
  \/ \E c \in Callers :
       \/ \E population \in Populations, spent \in Spent : Begin(c, population, spent)
       \/ AskNext(c)
       \/ Collect(c)
       \/ Propagate(c)
       \/ Observe(c)
       \/ Finish(c)
       \/ CheckArchive(c)
       \/ SourceStep(c)
       \/ CancelAtDeadline(c)
       \/ ObservedTooLong(c)
  \/ \E w \in Workers : EndUnnoticed(w)
  \/ Tick

SideSpec == SideInit /\ [][SideNext]_sideVars

-----------------------------------------------------------------------------
(* Threads left behind are paid for in time: a side abandons one per       *)
(* request timeout it has lived through, one more per resolution that ran  *)
(* into its total deadline, where the last timeout is a shorter one, and   *)
(* one with its own deadline.  Sources that hang can not pile up Node      *)
(* processes, and take workers from other requests, any faster.            *)
ThreadsLeftBehindTookTime ==
  \A c \in Callers :
    LET spent == side[c].began - side[c].left
        last == IF side[c].pc = "failed" THEN 1 ELSE 0
    IN \E overdue \in 0..abandoned[c] :
         /\ TotalDeadline * overdue <= spent
         /\ RequestTimeout * (abandoned[c] - overdue - last) <= spent

(* What an earlier side fetched is not lost to a later one: a Manifest     *)
(* whose content was cached when a side began is AVAILABLE in its receipt, *)
(* whatever happened to the other side, however the sources answer now,    *)
(* and even while every worker is taken by a thread left behind.           *)
KnownStaysAvailable ==
  \A c \in Callers : \A i \in DOMAIN side[c].entries :
    ExactContentCoordinate(side[c].population[i]) \in side[c].known
      => side[c].entries[i] = "AVAILABLE"

(* The Manifests a side has asked for whose content was not cached. *)
Uncached(c) ==
  {i \in 1..Len(side[c].entries) + 1 :
     ExactContentCoordinate(side[c].population[i]) \notin side[c].known}

(* The Workflow step can exhaust the deadline of a side only if it had     *)
(* enough Manifests to fetch: total deadlines of resolutions add up, the   *)
(* cached ones cost nothing, so a retry gets further than the side before. *)
OnlyFetchingTakesTime ==
  \A c \in Callers :
    side[c].pc = "failed" /\ Len(side[c].entries) < Len(side[c].population)
      => side[c].began <= TotalDeadline * Cardinality(Uncached(c))

(* Sources that are slow or down leave a diagnostic in the receipt; they   *)
(* do not fail the side.                                                   *)
EnrichmentStaysDiagnostic ==
  \A c \in Callers :
    side[c].pc = "failed" => Len(side[c].entries) = Len(side[c].population)
=============================================================================
