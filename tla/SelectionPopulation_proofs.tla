--------------------- MODULE SelectionPopulation_proofs ---------------------
(***************************************************************************)
(* A population reads snapshots, and a completed one pairs memberships and *)
(* Manifests one to one: proved for any Tasks, any contents and versions   *)
(* of their routes, any cursors and any bounds.                            *)
(*                                                                         *)
(* The membership phase is carried by what EvidenceTraversal_proofs says   *)
(* of a traversal: what holds an item twice is refused at the last page.   *)
(* After it, every membership that is not pending has a reading it agrees  *)
(* with, and every reading has such a membership.                          *)
(*                                                                         *)
(* The bounds need an invariant of their own: a refusal is only right if   *)
(* what was counted is on the routes, and a traversal that never went back *)
(* is as far as its pages reach.                                           *)
(***************************************************************************)
EXTENDS SelectionPopulation, EvidenceTraversal_proofs

(* No item is later than the cutoff. *)
Timely(items) == \A i \in 1..Len(items) : ~items[i].late

(* What the traversal of a Task left behind: nothing yet, or one version.  *)
EntryOK(task) ==
  \/ snapshots[task] = 0 /\ population[task] = <<>>
  \/ /\ snapshots[task] \in 1..Len(history[task])
     /\ population[task] = history[task][snapshots[task]]
     /\ ~Duplicated(population[task]) /\ Timely(population[task])

TypesOK ==
  /\ history \in [TaskIds -> Seq(Seq(Membership))]
  /\ \A task \in TaskIds : history[task] # <<>>
  /\ phase \in {"membership", "manifest", "workflow", "done", "failed"}
  /\ current \in DOMAIN Tasks
  /\ population \in [TaskIds -> Seq(Membership)]
  /\ snapshots \in [TaskIds -> Nat]
  /\ readings \in [Digests -> Reading \union {NoReading}]

(* While the routes are read no Manifest is, and the Tasks before the      *)
(* current one are those that have an entry.                               *)
MembershipOK ==
  /\ TraversalOK(history[Tasks[current]], traversal, Membership)
  /\ Timely(traversal.items)
  /\ pending = Selected
  /\ \A digest \in Digests : readings[digest] = NoReading
  /\ workflows = {}
  /\ \A i \in DOMAIN Tasks : snapshots[Tasks[i]] # 0 <=> i < current

(* Readings and the memberships that were checked belong to each other.    *)
Agree ==
  /\ \A m \in Selected \ pending :
       readings[m.digest] \in Reading /\ ~Conflicts(readings[m.digest], m)
  /\ \A digest \in Read : \E m \in Selected \ pending : m.digest = digest

IInv ==
  /\ TypesOK
  /\ \A task \in TaskIds : EntryOK(task)
  /\ phase = "membership" => MembershipOK
  /\ phase \in {"manifest", "workflow", "done"} =>
       /\ \A task \in TaskIds : snapshots[task] # 0
       /\ Agree /\ pending \subseteq Selected
  /\ phase \in {"workflow", "done"} => pending = {}
  /\ phase = "manifest" => workflows = {}
  /\ phase = "workflow" => workflows \subseteq Read
  /\ phase = "done" => workflows = Read

-----------------------------------------------------------------------------
(* A sequence that holds a membership twice holds its Delivery twice. *)
LEMMA RepeatsIsDuplicated ==
  ASSUME NEW s \in Seq(Membership), Repeats(s)
  PROVE  Duplicated(s)
<1>1. PICK n \in Nat : n = Len(s) /\ DOMAIN s = 1..n
  OBVIOUS
<1>2. PICK i \in 1..n, j \in 1..n : i # j /\ s[i] = s[j]
  BY <1>1 DEF Repeats
<1>3. PICK f : f = [k \in 1..n |-> s[k].delivery]
  OBVIOUS
<1>4. f = [k \in 1..n |-> f[k]] /\ f[i] = f[j]
  BY <1>2, <1>3
<1>5. DeliveriesOf(Range(s)) = {f[k] : k \in 1..n}
  BY <1>1, <1>3 DEF DeliveriesOf, Range
<1>6. Cardinality({f[k] : k \in 1..n}) # n
  BY <1>2, <1>4, TwiceIsFewer
<1> QED BY <1>1, <1>5, <1>6 DEF Duplicated

LEMMA TimelyExtended ==
  ASSUME NEW s \in Seq(Membership), NEW u \in Seq(Membership), Timely(s), Timely(u)
  PROVE  Timely(s \o u)
<1>1. PICK m \in Nat, n \in Nat : m = Len(s) /\ n = Len(u)
  OBVIOUS
<1>2. /\ Len(s \o u) = m + n
      /\ \A i \in 1..(m + n) : (s \o u)[i] = IF i <= m THEN s[i] ELSE u[i - m]
  BY <1>1
<1>3. ASSUME NEW i \in 1..(m + n) PROVE ~(s \o u)[i].late
  <2>1. CASE i <= m
    BY <1>1, <1>2, <2>1 DEF Timely
  <2>2. CASE i > m
    <3>1. i - m \in 1..n
      BY <2>2
    <3> QED BY <1>1, <1>2, <2>2, <3>1 DEF Timely
  <2>3. i <= m \/ i > m
    OBVIOUS
  <2> QED BY <2>1, <2>2, <2>3
<1> QED BY <1>2, <1>3 DEF Timely

(* What the loop over the items of a page lets through is timely. *)
LEMMA UnrefusedIsTimely ==
  ASSUME NEW items \in Seq(Membership), Refusal(items) = "none"
  PROVE  Timely(items)
<1>1. ~\E i \in DOMAIN items : StopsAt(items, i)
  BY DEF Refusal
<1> QED BY <1>1 DEF StopsAt, Mismatched, Timely

(* A page that is kept, in the terms of this resolver. *)
LEMMA MembershipPageKept ==
  ASSUME IInv, phase = "membership",
         NEW page \in ServedPages(history[Tasks[current]], traversal), Admissible(page)
  PROVE  LET more == Extend(traversal, page)
             versions == history[Tasks[current]]
         IN  /\ Tasks[current] \in TaskIds
             /\ page.snapshot \in 1..Len(versions)
             /\ more.items \in Seq(Membership) /\ Timely(more.items)
             /\ page.cursor # NoCursor => TraversalOK(versions, more, Membership)
             /\ page.cursor = NoCursor =>
                  Duplicated(more.items) \/ more.items = versions[page.snapshot]
<1> DEFINE more == Extend(traversal, page)
           versions == history[Tasks[current]]
<1>1. Tasks[current] \in TaskIds
  BY DEF IInv, TypesOK, TaskIds, Range
<1>2. /\ versions \in Seq(Seq(Membership)) /\ versions # <<>>
      /\ TraversalOK(versions, traversal, Membership) /\ Timely(traversal.items)
      /\ ~Drifts(traversal, page) /\ Refusal(page.items) = "none"
  BY <1>1 DEF IInv, TypesOK, MembershipOK, Admissible
<1>3. PICK h, t : h \in Seq(Seq(Membership)) /\ h = versions /\ t = traversal
  BY <1>2
<1> HIDE DEF versions
<1>4. page \in ServedPages(h, t)
  BY <1>3 DEF versions
<1>5. /\ page.snapshot \in 1..Len(h)
      /\ Extend(t, page).items \in Seq(Membership)
      /\ page.cursor # NoCursor => TraversalOK(h, Extend(t, page), Membership)
      /\ page.cursor = NoCursor =>
           Repeats(Extend(t, page).items) \/ Extend(t, page).items = h[page.snapshot]
  BY <1>2, <1>3, <1>4, PageKept
<1>6. page.items \in Seq(Membership)
  <2>1. PICK v \in {Len(h)} \union ({t.snapshot} \ {0}) :
          page.items = Cut(h, v, Offset(t))
    BY <1>4 DEF ServedPages
  <2>2. v \in 1..Len(h) /\ Offset(t) \in Nat
    BY <1>2, <1>3, <2>1, TraversalAssumption DEF TraversalOK, Offset
  <2>3. PICK content \in Seq(Membership), offset \in Nat : content = h[v] /\ offset = Offset(t)
    BY <1>3, <2>2
  <2>4. PICK cut : content = h[v] /\ offset = Offset(t) /\ cut = Cut(h, v, offset)
    BY <2>3
  <2>5. cut = CutAt(content, offset)
    BY <2>4 DEF Cut, CutAt, Last
  <2> QED BY <2>1, <2>4, <2>5, CutProperties
<1>7. Timely(more.items)
  <2>1. more.items = traversal.items \o page.items /\ traversal.items \in Seq(Membership)
    BY <1>2 DEF Extend, TraversalOK
  <2> QED BY <1>2, <1>6, <2>1, UnrefusedIsTimely, TimelyExtended
<1> QED BY <1>1, <1>3, <1>5, <1>7, RepeatsIsDuplicated DEF versions

-----------------------------------------------------------------------------
LEMMA InitInv == Init => IInv
<1> SUFFICES ASSUME Init PROVE IInv
  OBVIOUS
<1>1. ASSUME NEW task \in TaskIds
      PROVE  history[task] \in Seq(Seq(Membership)) /\ history[task] # <<>>
  <2>1. PICK content : history[task] = <<content>>
    BY DEF Init
  <2>2. history[task][1] = content
    BY <2>1
  <2>3. content \in Seq(Membership)
    BY <2>2, PopulationAssumption DEF Init
  <2> QED BY <2>1, <2>3
<1>2. history \in [TaskIds -> Seq(Seq(Membership))]
  <2>1. \E T : history \in [TaskIds -> T]
    BY DEF Init
  <2> QED BY <1>1, <2>1
<1>3. 1 \in DOMAIN Tasks /\ Tasks[1] \in TaskIds
  <2>1. 1 \in DOMAIN Tasks
    BY PopulationAssumption
  <2> QED BY <2>1 DEF TaskIds, Range
<1>4. TypesOK
  BY <1>1, <1>2, <1>3 DEF Init, TypesOK
<1>5. \A task \in TaskIds : EntryOK(task)
  BY DEF Init, EntryOK
<1>6. Selected = {}
  BY DEF Init, Selected, Range
<1>7. MembershipOK
  <2>1. PICK h \in Seq(Seq(Membership)) : h = history[Tasks[1]]
    BY <1>1, <1>3
  <2>2. TraversalOK(h, NewTraversal, Membership)
    BY NewTraversalOK
  <2>3. Timely(NewTraversal.items)
    BY DEF Timely, NewTraversal
  <2>4. \A i \in DOMAIN Tasks : Tasks[i] \in TaskIds /\ ~(i < 1)
    BY PopulationAssumption
  <2> QED BY <1>6, <2>1, <2>2, <2>3, <2>4 DEF Init, MembershipOK
<1> QED BY <1>4, <1>5, <1>7 DEF Init, IInv

LEMMA ChangeInv ==
  ASSUME IInv, NEW task \in TaskIds, NEW content \in Contents[task], Change(task, content)
  PROVE  IInv'
<1>1. /\ history' = [history EXCEPT ![task] = Append(history[task], content)]
      /\ UNCHANGED <<phase, failure, current, traversal, population, snapshots, readings,
                     pending, workflows>>
  BY DEF Change, client
<1>2. content \in Seq(Membership) /\ history[task] \in Seq(Seq(Membership))
  BY PopulationAssumption DEF IInv, TypesOK
<1>3. /\ Append(history[task], content) \in Seq(Seq(Membership))
      /\ Append(history[task], content) # <<>>
      /\ \A v \in 1..Len(history[task]) :
           /\ v \in 1..Len(Append(history[task], content))
           /\ Append(history[task], content)[v] = history[task][v]
  <2>1. PICK versions, S : versions = history[task] /\ S = Seq(Membership)
    OBVIOUS
  <2>2. versions \in Seq(S) /\ content \in S
    BY <1>2, <2>1
  <2>3. /\ Append(versions, content) \in Seq(S)
        /\ Append(versions, content) # <<>>
        /\ \A v \in 1..Len(versions) : /\ v \in 1..Len(Append(versions, content))
                                       /\ Append(versions, content)[v] = versions[v]
    BY <2>2, AppendProperties
  <2> QED BY <2>1, <2>3
<1>4. /\ history' \in [TaskIds -> Seq(Seq(Membership))]
      /\ history'[task] = Append(history[task], content)
      /\ \A other \in TaskIds \ {task} : history'[other] = history[other]
  BY <1>1, <1>3 DEF IInv, TypesOK
<1>5. TypesOK'
  <2>1. \A other \in TaskIds : history'[other] # <<>>
    BY <1>3, <1>4 DEF IInv, TypesOK
  <2> QED BY <1>1, <1>4, <2>1 DEF IInv, TypesOK
<1>6. ASSUME NEW other \in TaskIds PROVE EntryOK(other)'
  <2>1. EntryOK(other)
    BY DEF IInv
  <2>2. CASE other = task
    BY <1>1, <1>3, <1>4, <2>1, <2>2 DEF EntryOK
  <2>3. CASE other # task
    BY <1>1, <1>4, <2>1, <2>3 DEF EntryOK
  <2> QED BY <2>2, <2>3
<1>7. ASSUME phase = "membership" PROVE MembershipOK'
  <2>1. Tasks[current] \in TaskIds
    BY DEF IInv, TypesOK, TaskIds, Range
  <2>2. MembershipOK
    BY <1>7 DEF IInv
  <2>3. TraversalOK(history'[Tasks[current]], traversal, Membership)
    <3>1. CASE Tasks[current] = task
      <4>1. PICK h, t : h = history[task] /\ t = traversal
        OBVIOUS
      <4>2. TraversalOK(Append(h, content), t, Membership)
        BY <1>2, <2>2, <3>1, <4>1, TraversalOutlivesChanges DEF MembershipOK
      <4> QED BY <1>4, <3>1, <4>1, <4>2
    <3>2. CASE Tasks[current] # task
      BY <1>4, <2>1, <2>2, <3>2 DEF MembershipOK
    <3> QED BY <3>1, <3>2
  <2> QED BY <1>1, <2>2, <2>3 DEF MembershipOK, Selected
<1>8. Agree => Agree'
  BY <1>1 DEF Agree, Selected, Read
<1>9. Selected' = Selected /\ Read' = Read
  BY <1>1 DEF Selected, Read
<1> QED BY <1>1, <1>5, <1>6, <1>7, <1>8, <1>9 DEF IInv

LEMMA FailInv ==
  ASSUME IInv, NEW reason, Fail(reason)
  PROVE  IInv'
BY DEF IInv, Fail, TypesOK, EntryOK

LEMMA NextPageInv ==
  ASSUME IInv, phase = "membership",
         NEW page \in ServedPages(history[Tasks[current]], traversal), NextPage(page)
  PROVE  IInv'
<1>1. /\ Admissible(page) /\ page.cursor # NoCursor
      /\ traversal' = Extend(traversal, page)
      /\ UNCHANGED <<history, phase, failure, current, population, snapshots, readings,
                     pending, workflows>>
  BY DEF NextPage
<1>2. /\ TraversalOK(history[Tasks[current]], Extend(traversal, page), Membership)
      /\ Timely(Extend(traversal, page).items)
  BY <1>1, MembershipPageKept
<1>3. MembershipOK'
  BY <1>1, <1>2 DEF IInv, MembershipOK, Selected
<1>4. TypesOK' /\ \A task \in TaskIds : EntryOK(task)'
  BY <1>1 DEF IInv, TypesOK, EntryOK
<1> QED BY <1>1, <1>3, <1>4 DEF IInv

(* What the last page of a Task adds. *)
LEMMA LastPageSelects ==
  ASSUME IInv, phase = "membership",
         NEW page \in ServedPages(history[Tasks[current]], traversal), LastPage(page)
  PROVE  /\ Tasks[current] \in TaskIds
         /\ snapshots[Tasks[current]] = 0
         /\ population' \in [TaskIds -> Seq(Membership)]
         /\ snapshots' \in [TaskIds -> Nat]
         /\ \A task \in TaskIds \ {Tasks[current]} :
              population'[task] = population[task] /\ snapshots'[task] = snapshots[task]
         /\ snapshots'[Tasks[current]] \in 1..Len(history[Tasks[current]])
         /\ population'[Tasks[current]] =
              history[Tasks[current]][snapshots'[Tasks[current]]]
         /\ ~Duplicated(population'[Tasks[current]]) /\ Timely(population'[Tasks[current]])
         /\ pending' = Selected'
<1> DEFINE members == Extend(traversal, page).items
<1>1. /\ Admissible(page) /\ page.cursor = NoCursor /\ ~Duplicated(members)
      /\ population' = [population EXCEPT ![Tasks[current]] = members]
      /\ snapshots' = [snapshots EXCEPT ![Tasks[current]] = page.snapshot]
      /\ pending' = pending \union Range(members)
  BY DEF LastPage
<1>2. /\ Tasks[current] \in TaskIds
      /\ page.snapshot \in 1..Len(history[Tasks[current]])
      /\ members \in Seq(Membership) /\ Timely(members)
      /\ members = history[Tasks[current]][page.snapshot]
  BY <1>1, MembershipPageKept
<1> HIDE DEF members
<1>3. snapshots[Tasks[current]] = 0 /\ pending = Selected
  <2>1. current \in DOMAIN Tasks /\ MembershipOK
    BY DEF IInv, TypesOK
  <2>2. ~(current < current)
    BY <2>1, PopulationAssumption
  <2> QED BY <2>1, <2>2 DEF MembershipOK
<1>4. population[Tasks[current]] = <<>>
  BY <1>2, <1>3 DEF IInv, EntryOK
<1>5. /\ population' \in [TaskIds -> Seq(Membership)] /\ population'[Tasks[current]] = members
      /\ \A task \in TaskIds \ {Tasks[current]} : population'[task] = population[task]
  BY <1>1, <1>2 DEF IInv, TypesOK
<1>6. /\ snapshots' \in [TaskIds -> Nat] /\ snapshots'[Tasks[current]] = page.snapshot
      /\ \A task \in TaskIds \ {Tasks[current]} : snapshots'[task] = snapshots[task]
  <2>1. page.snapshot \in Nat
    BY <1>2
  <2> QED BY <1>1, <1>2, <2>1 DEF IInv, TypesOK
<1>7. Selected' = Selected \union Range(members)
  <2>1. Range(population[Tasks[current]]) = {}
    BY <1>4 DEF Range
  <2> QED BY <1>2, <1>5, <2>1 DEF Selected
<1> QED BY <1>1, <1>2, <1>3, <1>5, <1>6, <1>7

LEMMA LastPageInv ==
  ASSUME IInv, phase = "membership",
         NEW page \in ServedPages(history[Tasks[current]], traversal), LastPage(page)
  PROVE  IInv'
<1>1. /\ traversal' = NewTraversal
      /\ \/ current < Len(Tasks) /\ current' = current + 1 /\ phase' = phase
         \/ /\ current = Len(Tasks) /\ current' = current
            /\ phase' = IF pending' = {} THEN "done" ELSE "manifest"
      /\ UNCHANGED <<history, failure, readings, workflows>>
  BY DEF LastPage
<1>2. PICK last : last = Tasks[current]
  OBVIOUS
<1>3. /\ last \in TaskIds /\ snapshots[last] = 0
      /\ population' \in [TaskIds -> Seq(Membership)] /\ snapshots' \in [TaskIds -> Nat]
      /\ \A task \in TaskIds \ {last} :
           population'[task] = population[task] /\ snapshots'[task] = snapshots[task]
      /\ snapshots'[last] \in 1..Len(history[last])
      /\ population'[last] = history[last][snapshots'[last]]
      /\ ~Duplicated(population'[last]) /\ Timely(population'[last])
      /\ pending' = Selected'
  BY <1>2, LastPageSelects
<1>4. /\ TypesOK /\ MembershipOK /\ \A task \in TaskIds : EntryOK(task)
  BY DEF IInv
<1>5. PICK n \in Nat \ {0} : n = Len(Tasks) /\ DOMAIN Tasks = 1..n
  BY PopulationAssumption
<1>6. current \in 1..n /\ current' \in 1..n
  BY <1>1, <1>4, <1>5 DEF TypesOK
<1>7. TypesOK'
  BY <1>1, <1>3, <1>4, <1>5, <1>6 DEF TypesOK
<1>8. ASSUME NEW other \in TaskIds PROVE EntryOK(other)'
  <2>1. CASE other = last
    BY <1>1, <1>3, <2>1 DEF EntryOK
  <2>2. CASE other # last
    BY <1>1, <1>3, <1>4, <2>2 DEF EntryOK
  <2> QED BY <2>1, <2>2
<1>9. \A i \in 1..n : snapshots'[Tasks[i]] # 0 <=> i <= current
  <2>1. ASSUME NEW i \in 1..n PROVE snapshots'[Tasks[i]] # 0 <=> i <= current
    <3>1. Tasks[i] \in TaskIds /\ (snapshots[Tasks[i]] # 0 <=> i < current)
      BY <1>4, <1>5 DEF MembershipOK, TaskIds, Range
    <3>2. CASE i = current
      <4>1. snapshots'[Tasks[i]] # 0
        <5>1. history[last] \in Seq(Seq(Membership))
          BY <1>3, <1>4 DEF TypesOK
        <5> QED BY <1>2, <1>3, <3>2, <5>1
      <4> QED BY <1>6, <3>2, <4>1
    <3>3. CASE i # current
      <4>1. Tasks[i] # last
        BY <1>2, <1>5, <1>6, <3>3, PopulationAssumption
      <4>2. snapshots'[Tasks[i]] = snapshots[Tasks[i]]
        BY <1>3, <3>1, <4>1
      <4> QED BY <1>6, <3>1, <3>3, <4>2
    <3> QED BY <3>2, <3>3
  <2> QED BY <2>1
<1>10. Read' = {} /\ workflows' = {} /\ \A digest \in Digests : readings'[digest] = NoReading
  BY <1>1, <1>4 DEF MembershipOK, Read
<1>11. CASE current < Len(Tasks) /\ current' = current + 1 /\ phase' = phase
  <2>1. \A i \in 1..n : i <= current <=> i < current'
    BY <1>6, <1>11
  <2>2. TraversalOK(history'[Tasks[current']], traversal', Membership)
    <3>1. Tasks[current'] \in TaskIds
      BY <1>5, <1>6 DEF TaskIds, Range
    <3>2. PICK h : h = history'[Tasks[current']]
      OBVIOUS
    <3>3. h \in Seq(Seq(Membership))
      BY <1>7, <3>1, <3>2 DEF TypesOK
    <3> QED BY <1>1, <3>2, <3>3, NewTraversalOK
  <2>3. MembershipOK'
    BY <1>1, <1>3, <1>5, <1>9, <1>10, <2>1, <2>2 DEF MembershipOK, Timely, NewTraversal
  <2> QED BY <1>7, <1>8, <1>11, <2>3 DEF IInv
<1>12. CASE current = Len(Tasks) /\ phase' = (IF pending' = {} THEN "done" ELSE "manifest")
  <2>1. \A other \in TaskIds : snapshots'[other] # 0
    BY <1>5, <1>9, <1>12 DEF TaskIds, Range
  <2>2. Agree'
    BY <1>3, <1>10 DEF Agree
  <2> QED BY <1>3, <1>7, <1>8, <1>10, <1>12, <2>1, <2>2 DEF IInv
<1> QED BY <1>1, <1>11, <1>12

LEMMA CheckInv ==
  ASSUME IInv, NEW m \in pending, NEW reading \in Reading, CheckManifest(m, reading)
  PROVE  IInv'
<1>1. phase = "manifest" /\ (readings[m.digest] # NoReading => reading = readings[m.digest])
  BY DEF CheckManifest
<1>2. CASE Fail("manifest")
  BY <1>2, FailInv
<1>3. CASE /\ ~Conflicts(reading, m)
           /\ readings' = [readings EXCEPT ![m.digest] = reading]
           /\ pending' = pending \ {m}
           /\ phase' = IF pending' = {} THEN "workflow" ELSE phase
           /\ UNCHANGED <<history, failure, current, traversal, population, snapshots, workflows>>
  <2>1. m \in Selected /\ Agree /\ pending \subseteq Selected /\ workflows = {}
    BY <1>1 DEF IInv
  <2>2. m.digest \in Digests
    <3>1. m \in Membership
      BY <2>1 DEF IInv, TypesOK, Selected, Range
    <3> QED BY <3>1 DEF Membership
  <2>3. /\ readings' \in [Digests -> Reading \union {NoReading}]
        /\ readings'[m.digest] = reading
        /\ \A digest \in Digests \ {m.digest} : readings'[digest] = readings[digest]
    BY <1>3, <2>2 DEF IInv, TypesOK
  <2>4. TypesOK' /\ (\A task \in TaskIds : EntryOK(task)') /\ Selected' = Selected
    BY <1>1, <1>3, <2>3 DEF IInv, TypesOK, EntryOK, Selected
  <2>5. ASSUME NEW n \in Selected \ pending'
        PROVE  readings'[n.digest] \in Reading /\ ~Conflicts(readings'[n.digest], n)
    <3>1. n.digest \in Digests
      <4>1. n \in Membership
        BY DEF IInv, TypesOK, Selected, Range
      <4> QED BY <4>1 DEF Membership
    <3>2. CASE n = m
      BY <1>3, <2>3, <3>2
    <3>3. CASE n # m
      <4>1. readings[n.digest] \in Reading /\ ~Conflicts(readings[n.digest], n)
        BY <1>3, <2>1, <3>3 DEF Agree
      <4>2. readings'[n.digest] = readings[n.digest]
        <5>1. CASE n.digest = m.digest
          BY <1>1, <2>3, <4>1, <5>1, PopulationAssumption
        <5>2. CASE n.digest # m.digest
          BY <2>3, <3>1, <5>2
        <5> QED BY <5>1, <5>2
      <4> QED BY <4>1, <4>2
    <3> QED BY <3>2, <3>3
  <2>6. ASSUME NEW digest \in Read' PROVE \E n \in Selected \ pending' : n.digest = digest
    <3>1. CASE digest = m.digest
      BY <1>3, <2>1, <3>1
    <3>2. CASE digest # m.digest
      <4>1. digest \in Read
        BY <2>3, <3>2 DEF Read
      <4> QED BY <1>3, <2>1, <4>1 DEF Agree
    <3> QED BY <3>1, <3>2
  <2>7. Agree'
    BY <2>4, <2>5, <2>6 DEF Agree, Conflicts
  <2>8. \A task \in TaskIds : snapshots'[task] # 0
    BY <1>1, <1>3 DEF IInv
  <2> QED BY <1>1, <1>3, <2>1, <2>4, <2>7, <2>8 DEF IInv
<1> QED BY <1>2, <1>3 DEF CheckManifest

LEMMA ResolveInv ==
  ASSUME IInv, NEW digest \in Digests, ResolveWorkflow(digest)
  PROVE  IInv'
<1>1. /\ phase = "workflow" /\ digest \in Read \ workflows
      /\ workflows' = workflows \union {digest}
      /\ phase' = IF workflows' = Read THEN "done" ELSE phase
      /\ UNCHANGED <<history, failure, current, traversal, population, snapshots, readings,
                     pending>>
  BY DEF ResolveWorkflow
<1>2. TypesOK' /\ \A task \in TaskIds : EntryOK(task)'
  BY <1>1 DEF IInv, TypesOK, EntryOK
<1>3. Agree' /\ Selected' = Selected /\ Read' = Read
  BY <1>1 DEF IInv, Agree, Selected, Read
<1>4. workflows' \subseteq Read /\ pending = {} /\ \A task \in TaskIds : snapshots[task] # 0
  BY <1>1 DEF IInv
<1> QED BY <1>1, <1>2, <1>3, <1>4 DEF IInv

LEMMA StepInv ==
  ASSUME IInv, [Next]_vars
  PROVE  IInv'
<1>1. CASE Membering
  <2>1. CASE PageBound
    BY <2>1, FailInv DEF PageBound
  <2>2. CASE \E page \in ServedPages(history[Tasks[current]], traversal) :
               RefusePage(page) \/ NextPage(page) \/ LastPage(page)
    <3>1. PICK page \in ServedPages(history[Tasks[current]], traversal) :
            RefusePage(page) \/ NextPage(page) \/ LastPage(page)
      BY <2>2
    <3>2. CASE RefusePage(page)
      BY <3>2, FailInv DEF RefusePage
    <3>3. CASE NextPage(page)
      BY <3>3, NextPageInv DEF NextPage
    <3>4. CASE LastPage(page)
      BY <3>4, LastPageInv DEF LastPage
    <3> QED BY <3>1, <3>2, <3>3, <3>4
  <2> QED BY <1>1, <2>1, <2>2 DEF Membering
<1>2. CASE Checking
  BY <1>2, CheckInv DEF Checking
<1>3. CASE Resolving
  BY <1>3, ResolveInv DEF Resolving
<1>4. CASE \E reason \in {"unavailable", "contract"} : RequestFails(reason)
  BY <1>4, FailInv DEF RequestFails
<1>5. CASE WorkflowEscapes
  BY <1>5, FailInv DEF WorkflowEscapes
<1>6. CASE \E task \in TaskIds : \E content \in Contents[task] : Change(task, content)
  BY <1>6, ChangeInv
<1>7. CASE UNCHANGED vars
  BY <1>7 DEF vars, IInv, TypesOK, EntryOK, MembershipOK, Agree, Selected, Read
<1> QED BY <1>1, <1>2, <1>3, <1>4, <1>5, <1>6, <1>7 DEF Next

(* What SelectionPopulationResolver holds in each of its three loops. *)
THEOREM Invariance == Spec => []IInv
<1>1. IInv /\ [Next]_vars => IInv'
  BY StepInv
<1> QED BY InitInv, <1>1, PTL DEF Spec

(* What is asked of a completed population follows from what the loops hold. *)
LEMMA DoneMatches == IInv => ManifestsMatchMemberships
<1> SUFFICES ASSUME IInv, phase = "done" PROVE ManifestsMatchMemberships
  BY DEF ManifestsMatchMemberships
<1>1. /\ TypesOK /\ Agree /\ pending = {} /\ workflows = Read
      /\ \A task \in TaskIds : snapshots[task] # 0 /\ EntryOK(task)
  BY DEF IInv
<1>2. ASSUME NEW m \in Selected
      PROVE  /\ m \in Membership /\ m.digest \in Digests
             /\ ~m.late
             /\ readings[m.digest] \in Reading /\ readings[m.digest] # NoReading
             /\ readings[m.digest].task = m.task
             /\ readings[m.digest].delivery = m.delivery
             /\ readings[m.digest].accepted = m.accepted
  <2>1. PICK task \in TaskIds : m \in Range(population[task])
    BY DEF Selected
  <2>2. PICK items \in Seq(Membership) : items = population[task]
    BY <1>1 DEF TypesOK
  <2>3. PICK i \in DOMAIN items : m = items[i]
    BY <2>1, <2>2 DEF Range
  <2>4. Timely(items)
    BY <1>1, <2>2 DEF EntryOK
  <2>5. m \in Membership /\ ~m.late
    BY <2>3, <2>4 DEF Timely
  <2>6. m.digest \in Digests
    BY <2>5 DEF Membership
  <2> QED BY <1>1, <2>5, <2>6, PopulationAssumption DEF Agree, Conflicts
<1>3. ASSUME NEW m \in Selected, NEW n \in Selected, m.digest = n.digest PROVE m = n
  <2>1. m \in Membership /\ n \in Membership
    BY <1>2
  <2>2. m.task = n.task /\ m.delivery = n.delivery /\ m.accepted = n.accepted
    BY <1>2, <1>3
  <2>3. m.late = FALSE /\ n.late = FALSE
    BY <1>2, <2>1 DEF Membership
  <2> QED BY <1>3, <2>1, <2>2, <2>3 DEF Membership
<1>4. ReceiptFits
  <2>1. \A task \in TaskIds : EntryFits(population[task])
    BY <1>1 DEF EntryOK, EntryFits, Duplicated
  <2>2. workflows = {m.digest : m \in Selected}
    <3>1. \A m \in Selected : m.digest \in Read
      BY <1>2 DEF Read
    <3>2. \A digest \in Read : \E m \in Selected : m.digest = digest
      BY <1>1 DEF Agree
    <3> QED BY <1>1, <3>1, <3>2
  <2> QED BY <1>1, <1>2, <2>1, <2>2 DEF ReceiptFits
<1> QED BY <1>2, <1>3, <1>4 DEF ManifestsMatchMemberships

(* A completed population pairs memberships and Manifests one to one, and the receipt made
   of it is valid, in whatever order two memberships of one digest are checked and however
   many Tasks name the same Delivery. *)
THEOREM PairsOneToOne == Spec => []ManifestsMatchMemberships
BY Invariance, DoneMatches, PTL

-----------------------------------------------------------------------------
(* What the population exposes, as SnapshotRead names it. *)
Exposed ==
  [task \in TaskIds |->
    IF snapshots[task] = 0 THEN NoReading
    ELSE [version |-> snapshots[task], items |-> population[task]]]

LEMMA InitRefines == Init => Abstract!Init
<1> SUFFICES ASSUME Init PROVE Abstract!Init
  OBVIOUS
<1>1. DOMAIN history = TaskIds
  BY DEF Init
<1>2. ASSUME NEW task \in TaskIds
      PROVE  \E content \in Contents[task] : history[task] = <<content>>
  <2>1. PICK content : history[task] = <<content>>
    BY DEF Init
  <2>2. history[task][1] = content
    BY <2>1
  <2> QED BY <2>1, <2>2 DEF Init
<1>3. \A task \in TaskIds : snapshots[task] = 0
  BY DEF Init
<1> QED BY <1>1, <1>2, <1>3 DEF Abstract!Init

(* A step that adds no entry and leaves the routes alone is a stutter. *)
LEMMA QuietStep ==
  ASSUME UNCHANGED <<history, population, snapshots>>
  PROVE  UNCHANGED Abstract!vars
BY DEF Abstract!vars

(* The last page of a Task is the moment its route is read. *)
LEMMA LastPageRefines ==
  ASSUME IInv, phase = "membership",
         NEW page \in ServedPages(history[Tasks[current]], traversal), LastPage(page)
  PROVE  Abstract!Next
<1>1. PICK last : last = Tasks[current]
  OBVIOUS
<1>2. UNCHANGED history
  BY DEF LastPage
<1>3. /\ last \in TaskIds /\ snapshots[last] = 0
      /\ population' \in [TaskIds -> Seq(Membership)] /\ snapshots' \in [TaskIds -> Nat]
      /\ \A task \in TaskIds \ {last} :
           population'[task] = population[task] /\ snapshots'[task] = snapshots[task]
      /\ snapshots'[last] \in 1..Len(history[last])
      /\ population'[last] = history[last][snapshots'[last]]
  BY <1>1, LastPageSelects
<1>4. PICK v \in 1..Len(history[last]) : v = snapshots'[last] /\ v # 0
  BY <1>3
<1>5. PICK version : version = [task \in {last} |-> v]
  OBVIOUS
<1>6. v \in DOMAIN history[last]
  <2>1. history[last] \in Seq(Seq(Membership))
    BY <1>3 DEF IInv, TypesOK
  <2>2. DOMAIN history[last] = 1..Len(history[last])
    BY <2>1
  <2> QED BY <2>2
<1>7. version \in [{last} -> UNION {DOMAIN history[task] : task \in {last}}]
  BY <1>5, <1>6
<1>8. \A task \in {last} : version[task] \in DOMAIN history[task]
  BY <1>5, <1>6
<1>9. Exposed' = [task \in TaskIds |->
                   IF task \in {last}
                   THEN [version |-> version[task], items |-> history[task][version[task]]]
                   ELSE Exposed[task]]
  BY <1>3, <1>4, <1>5 DEF Exposed
<1>10. \A task \in {last} : Exposed[task] = NoReading
  BY <1>3 DEF Exposed
<1>11. Abstract!Return({last})
  BY <1>2, <1>7, <1>8, <1>9, <1>10 DEF Abstract!Return, Exposed
<1>12. {last} \in (SUBSET TaskIds) \ {{}}
  BY <1>3
<1> QED BY <1>11, <1>12 DEF Abstract!Next

LEMMA StepRefines ==
  ASSUME IInv, [Next]_vars
  PROVE  Abstract!Next \/ UNCHANGED Abstract!vars
<1>0. ASSUME NEW reason, Fail(reason) PROVE UNCHANGED Abstract!vars
  BY <1>0, QuietStep DEF Fail
<1>1. CASE Membering
  <2>1. CASE PageBound
    BY <1>0, <2>1 DEF PageBound
  <2>2. CASE \E page \in ServedPages(history[Tasks[current]], traversal) :
               RefusePage(page) \/ NextPage(page) \/ LastPage(page)
    <3>1. PICK page \in ServedPages(history[Tasks[current]], traversal) :
            RefusePage(page) \/ NextPage(page) \/ LastPage(page)
      BY <2>2
    <3>2. CASE RefusePage(page)
      BY <1>0, <3>2 DEF RefusePage
    <3>3. CASE NextPage(page)
      BY <3>3, QuietStep DEF NextPage
    <3>4. CASE LastPage(page)
      BY <3>4, LastPageRefines DEF LastPage
    <3> QED BY <3>1, <3>2, <3>3, <3>4
  <2> QED BY <1>1, <2>1, <2>2 DEF Membering
<1>2. CASE Checking
  BY <1>0, <1>2, QuietStep DEF Checking, CheckManifest
<1>3. CASE Resolving
  BY <1>3, QuietStep DEF Resolving, ResolveWorkflow
<1>4. CASE \E reason \in {"unavailable", "contract"} : RequestFails(reason)
  BY <1>0, <1>4 DEF RequestFails
<1>5. CASE WorkflowEscapes
  BY <1>0, <1>5 DEF WorkflowEscapes
<1>6. CASE \E task \in TaskIds : \E content \in Contents[task] : Change(task, content)
  <2>1. PICK task \in TaskIds : \E content \in Contents[task] : Change(task, content)
    BY <1>6
  <2>2. PICK content \in Contents[task] : Change(task, content)
    BY <2>1
  <2>3. Abstract!Change(task, content)
    BY <2>2 DEF Change, client, Abstract!Change
  <2> QED BY <2>3 DEF Abstract!Next
<1>7. CASE UNCHANGED vars
  BY <1>7, QuietStep DEF vars
<1> QED BY <1>1, <1>2, <1>3, <1>4, <1>5, <1>6, <1>7 DEF Next

(* However the membership routes change between two requests and whatever cursors come
   back, the population entry of a Task is one version of its route, read once. *)
THEOREM PopulationRefines == Spec => PopulationReadsSnapshots
<1>1. IInv /\ [Next]_vars => [Abstract!Next]_Abstract!vars
  BY StepRefines
<1> QED BY InitRefines, Invariance, <1>1, PTL DEF Spec, PopulationReadsSnapshots, Abstract!Spec

-----------------------------------------------------------------------------
(* The bounds.  A failure names its cause: the invariant keeps, while the  *)
(* routes are read, what a refusal would have to show, that the items came *)
(* from the route of the current Task and that a traversal whose cursor    *)
(* never pointed back is as far as its pages reach.                        *)
OnRoutes ==
  UNION {UNION {DeliveriesOf(Range(history[task][v])) : v \in DOMAIN history[task]} :
         task \in TaskIds}

FromRoute(m) == \E v \in DOMAIN history[Tasks[current]] : m \in Range(history[Tasks[current]][v])

ReadingOK ==
  /\ traversal.pages \in 0..MaxPages
  /\ traversal.cursor = NoCursor => traversal = NewTraversal
  /\ InStep(history[Tasks[current]], traversal)
  /\ \A m \in Range(traversal.items) : FromRoute(m)

BoundsInv ==
  /\ traversal.items \in Seq(Membership)
  /\ phase # "failed" => failure = "none"
  /\ phase = "membership" => ReadingOK
  /\ BoundsAreExact

LEMMA DeliveriesAreFinite ==
  ASSUME NEW S, IsFiniteSet(S)
  PROVE  IsFiniteSet(DeliveriesOf(S))
<1> DEFINE f == [m \in S |-> m.delivery]
<1>1. DOMAIN f = S /\ DeliveriesOf(S) = {f[m] : m \in DOMAIN f}
  BY DEF DeliveriesOf
<1>2. f = [m \in DOMAIN f |-> f[m]]
  OBVIOUS
<1> HIDE DEF f
<1>3. QED
  BY <1>1, <1>2, ImageIsFinite

(* A family of finite sets, one for each element of a finite set.          *)
LEMMA FamilyIsFinite ==
  ASSUME NEW f, f = [x \in DOMAIN f |-> f[x]], IsFiniteSet(DOMAIN f),
         \A x \in DOMAIN f : IsFiniteSet(f[x])
  PROVE  IsFiniteSet(UNION {f[x] : x \in DOMAIN f})
<1> DEFINE T == {f[x] : x \in DOMAIN f}
<1>1. IsFiniteSet(T)
  BY ImageIsFinite
<1>2. \A t \in T : IsFiniteSet(t)
  OBVIOUS
<1> HIDE DEF T
<1>3. IsFiniteSet(UNION T)
  BY <1>1, <1>2, FS_UNION
<1>4. QED
  BY <1>3 DEF T

LEMMA TasksAreFinite == IsFiniteSet(TaskIds)
BY PopulationAssumption, RangeIsFinite DEF TaskIds

LEMMA SelectedIsFinite ==
  ASSUME TypesOK
  PROVE  IsFiniteSet(Selected)
<1> DEFINE f == [task \in TaskIds |-> Range(population[task])]
<1>1. DOMAIN f = TaskIds /\ f = [x \in DOMAIN f |-> f[x]]
  OBVIOUS
<1>2. \A x \in DOMAIN f : IsFiniteSet(f[x])
  BY RangeIsFinite DEF TypesOK
<1>3. Selected = UNION {f[x] : x \in DOMAIN f}
  BY DEF Selected
<1> HIDE DEF f
<1>4. QED
  BY <1>1, <1>2, <1>3, TasksAreFinite, FamilyIsFinite

LEMMA OnRoutesIsFinite ==
  ASSUME TypesOK
  PROVE  IsFiniteSet(OnRoutes)
<1> DEFINE g(task) == [v \in DOMAIN history[task] |-> DeliveriesOf(Range(history[task][v]))]
           f == [task \in TaskIds |->
                   UNION {DeliveriesOf(Range(history[task][v])) : v \in DOMAIN history[task]}]
<1>1. ASSUME NEW task \in TaskIds PROVE IsFiniteSet(f[task])
  <2>1. PICK h \in Seq(Seq(Membership)) : h = history[task]
    BY DEF TypesOK
  <2>2. PICK n \in Nat : DOMAIN h = 1..n
    OBVIOUS
  <2>3. IsFiniteSet(DOMAIN h)
    BY <2>2, FS_Interval
  <2>4. ASSUME NEW v \in DOMAIN h PROVE IsFiniteSet(DeliveriesOf(Range(h[v])))
    <3>1. h[v] \in Seq(Membership)
      OBVIOUS
    <3>2. QED
      BY <3>1, RangeIsFinite, DeliveriesAreFinite
  <2> DEFINE k == [v \in DOMAIN h |-> DeliveriesOf(Range(h[v]))]
  <2>5. /\ DOMAIN k = DOMAIN h /\ k = [x \in DOMAIN k |-> k[x]]
        /\ \A x \in DOMAIN k : IsFiniteSet(k[x])
    BY <2>4
  <2>6. f[task] = UNION {k[x] : x \in DOMAIN k}
    BY <2>1
  <2> HIDE DEF k, f
  <2>7. QED
    BY <2>3, <2>5, <2>6, FamilyIsFinite
<1>2. DOMAIN f = TaskIds /\ f = [x \in DOMAIN f |-> f[x]]
  OBVIOUS
<1>3. OnRoutes = UNION {f[x] : x \in DOMAIN f}
  BY DEF OnRoutes
<1> HIDE DEF f
<1>4. QED
  BY <1>1, <1>2, <1>3, TasksAreFinite, FamilyIsFinite

(* The items of a page come from one version of the route.                 *)
LEMMA PageItems ==
  ASSUME IInv, phase = "membership",
         NEW page \in ServedPages(history[Tasks[current]], traversal)
  PROVE  /\ page.items \in Seq(Membership)
         /\ \A m \in Range(page.items) : FromRoute(m)
<1>1. Tasks[current] \in TaskIds
  BY DEF IInv, TypesOK, TaskIds, Range
<1>2. PICK h, t : h \in Seq(Seq(Membership)) /\ h = history[Tasks[current]] /\ t = traversal
  BY <1>1 DEF IInv, TypesOK
<1>3. h # <<>> /\ TraversalOK(h, t, Membership)
  BY <1>1, <1>2 DEF IInv, TypesOK, MembershipOK
<1>4. PICK v \in {Len(h)} \union ({t.snapshot} \ {0}) : page.items = Cut(h, v, Offset(t))
  BY <1>2 DEF ServedPages
<1>5. v \in 1..Len(h) /\ v \in DOMAIN h /\ Offset(t) \in Nat
  <2>1. Len(h) \in Nat \ {0} /\ DOMAIN h = 1..Len(h)
    BY <1>2, <1>3
  <2>2. QED
    BY <1>3, <1>4, <2>1, TraversalAssumption DEF TraversalOK, Offset
<1>6. PICK content \in Seq(Membership), offset \in Nat : content = h[v] /\ offset = Offset(t)
  BY <1>2, <1>5
<1>7. PICK cut : cut = Cut(h, v, offset) /\ cut = page.items
  BY <1>4, <1>6
<1>8. CutOf(cut, content, offset) /\ cut \in Seq(Membership)
  <2>1. cut = CutAt(content, offset)
    BY <1>6, <1>7 DEF Cut, CutAt, Last
  <2>2. QED
    BY <2>1, CutProperties
<1>9. ASSUME NEW m \in Range(cut) PROVE m \in Range(content)
  <2>1. PICK i \in 1..Len(cut) : m = cut[i]
    BY <1>8 DEF Range
  <2>2. PICK last \in Nat : last = Last(content, offset) /\ last <= Len(content)
    BY TraversalAssumption DEF Last
  <2>3. offset + i \in 1..Len(content) /\ m = content[offset + i]
    <3>1. Len(cut) \in Nat /\ Len(content) \in Nat
      BY <1>8
    <3>2. QED
      BY <1>8, <2>1, <2>2, <3>1 DEF CutOf
  <2>4. QED
    BY <2>3 DEF Range
<1>10. QED
  BY <1>2, <1>5, <1>6, <1>7, <1>8, <1>9 DEF FromRoute

(* What an item of the current Task's route names is on the routes, and so *)
(* is what the Tasks before it left behind.                                *)
LEMMA SeenIsOnRoutes ==
  ASSUME IInv, NEW S, \A m \in S : FromRoute(m)
  PROVE  DeliveriesOf(Selected \union S) \subseteq OnRoutes
<1>1. SUFFICES ASSUME NEW m \in Selected \union S PROVE m.delivery \in OnRoutes
  BY DEF DeliveriesOf
<1>2. \E task \in TaskIds : \E v \in DOMAIN history[task] : m \in Range(history[task][v])
  <2>1. CASE m \in S
    <3>1. Tasks[current] \in TaskIds
      BY DEF IInv, TypesOK, TaskIds, Range
    <3>2. QED
      BY <2>1, <3>1 DEF FromRoute
  <2>2. CASE m \in Selected
    <3>1. PICK task \in TaskIds : m \in Range(population[task])
      BY <2>2 DEF Selected
    <3>2. EntryOK(task) /\ history[task] \in Seq(Seq(Membership))
      BY DEF IInv, TypesOK
    <3>3. population[task] # <<>>
      BY <3>1 DEF Range
    <3>4. /\ snapshots[task] \in 1..Len(history[task])
          /\ population[task] = history[task][snapshots[task]]
      BY <3>2, <3>3 DEF EntryOK
    <3>5. snapshots[task] \in DOMAIN history[task]
      BY <3>2, <3>4
    <3>6. QED
      BY <3>1, <3>4, <3>5
  <2>3. QED
    BY <2>1, <2>2
<1>3. QED
  BY <1>2 DEF OnRoutes, DeliveriesOf

(* A page that is let through keeps the bound.                             *)
LEMMA AdmittedKeepsBound ==
  ASSUME IInv, BoundsInv, phase = "membership",
         NEW page \in ServedPages(history[Tasks[current]], traversal),
         Refusal(page.items) = "none"
  PROVE  /\ traversal.items \o page.items \in Seq(Membership)
         /\ Range(traversal.items \o page.items) = Range(traversal.items) \union Range(page.items)
         /\ Cardinality(DeliveriesOf(Selected \union Range(traversal.items \o page.items)))
              <= MaxDeliveries
<1>1. PICK old \in Seq(Membership), items \in Seq(Membership) :
        old = traversal.items /\ items = page.items
  BY PageItems DEF BoundsInv
<1>2. PICK n \in Nat : n = Len(items) /\ DOMAIN items = 1..n
  OBVIOUS
<1>3. old \o items \in Seq(Membership) /\ Range(old \o items) = Range(old) \union Range(items)
  BY RangeOfConcat
<1>4. Cardinality(DeliveriesOf(Selected \union Range(old) \union Range(items))) <= MaxDeliveries
  <2>1. CASE n = 0
    <3>1. Range(items) = {}
      BY <1>2, <2>1 DEF Range
    <3>2. Selected \union Range(old) \union Range(items) = Selected \union Range(old)
      BY <3>1
    <3>3. QED
      BY <1>1, <3>2 DEF BoundsInv, BoundsAreExact
  <2>2. CASE n # 0
    <3>1. n \in DOMAIN items
      BY <1>2, <2>2
    <3>2. ~StopsAt(items, n)
      BY <1>1, <3>1 DEF Refusal
    <3>3. {items[j] : j \in 1..n} = Range(items)
      BY <1>2 DEF Range
    <3>4. ~(Cardinality(DeliveriesOf(Selected \union Range(old) \union Range(items)))
              > MaxDeliveries)
      BY <1>1, <3>2, <3>3 DEF StopsAt, SoFar
    <3>5. IsFiniteSet(Selected \union Range(old) \union Range(items))
      BY SelectedIsFinite, RangeIsFinite, FS_Union DEF IInv
    <3>6. Cardinality(DeliveriesOf(Selected \union Range(old) \union Range(items))) \in Nat
      BY <3>5, DeliveriesAreFinite, FS_CardinalityType
    <3>7. QED
      BY <3>4, <3>6, PopulationAssumption
  <2>3. QED
    BY <2>1, <2>2
<1>5. Selected \union Range(old \o items) = Selected \union Range(old) \union Range(items)
  BY <1>3
<1>6. QED
  BY <1>1, <1>3, <1>4, <1>5

(* A page refused for its Deliveries: there are more of them on the routes *)
(* than the bound allows.                                                  *)
LEMMA RefusedExceedsBound ==
  ASSUME IInv, BoundsInv, phase = "membership",
         NEW page \in ServedPages(history[Tasks[current]], traversal),
         Refusal(page.items) = "deliveries"
  PROVE  Cardinality(OnRoutes) > MaxDeliveries
<1>1. PICK items \in Seq(Membership) : items = page.items
  BY PageItems
<1> DEFINE stops == {i \in DOMAIN items : StopsAt(items, i)}
           first == CHOOSE i \in DOMAIN items :
                      StopsAt(items, i) /\ \A j \in 1..(i - 1) : ~StopsAt(items, j)
<1>2. stops # {} /\ ~Mismatched(items[first])
  BY <1>1 DEF Refusal
<1>3. \E i \in DOMAIN items :
        StopsAt(items, i) /\ \A j \in 1..(i - 1) : ~StopsAt(items, j)
  <2>1. PICK n \in Nat : DOMAIN items = 1..n
    OBVIOUS
  <2>2. stops \in SUBSET Nat
    BY <2>1
  <2>3. PICK i \in stops : \A j \in stops : i <= j
    <3> HIDE DEF stops
    <3>1. QED
      BY <1>2, <2>2, SmallestOf
  <2>4. ASSUME NEW j \in 1..(i - 1) PROVE ~StopsAt(items, j)
    <3>1. j \in DOMAIN items /\ ~(i <= j)
      BY <2>1
    <3>2. QED
      BY <2>3, <3>1
  <2>5. QED
    BY <2>4
<1>4. first \in DOMAIN items /\ StopsAt(items, first)
  BY <1>3
<1> HIDE DEF first
<1> DEFINE upto == {items[j] : j \in 1..first}
<1>5. Cardinality(SoFar(upto)) > MaxDeliveries
  BY <1>2, <1>4 DEF StopsAt
<1>6. upto \subseteq Range(items)
  <2>1. PICK n \in Nat : DOMAIN items = 1..n
    OBVIOUS
  <2>2. 1..first \subseteq DOMAIN items
    BY <1>4, <2>1
  <2>3. QED
    BY <2>2 DEF Range
<1>7. \A m \in Range(traversal.items) \union upto : FromRoute(m)
  BY <1>1, <1>6, PageItems DEF BoundsInv, ReadingOK
<1> HIDE DEF upto
<1>8. SoFar(upto) \subseteq OnRoutes
  <2>1. DeliveriesOf(Selected \union (Range(traversal.items) \union upto)) \subseteq OnRoutes
    BY <1>7, SeenIsOnRoutes
  <2>2. Selected \union (Range(traversal.items) \union upto)
          = Selected \union Range(traversal.items) \union upto
    OBVIOUS
  <2>3. QED
    BY <2>1, <2>2 DEF SoFar
<1>9. IsFiniteSet(OnRoutes)
  BY OnRoutesIsFinite DEF IInv
<1>10. /\ Cardinality(SoFar(upto)) <= Cardinality(OnRoutes)
       /\ Cardinality(SoFar(upto)) \in Nat /\ Cardinality(OnRoutes) \in Nat
  BY <1>8, <1>9, FS_Subset, FS_CardinalityType
<1>11. QED
  BY <1>5, <1>10, PopulationAssumption

(* A failure keeps the invariant when its reason has its cause.            *)
LEMMA FailKeepsBounds ==
  ASSUME BoundsInv, failure = "none", NEW reason, Fail(reason),
         reason = "pages" => traversal.pages = MaxPages /\ traversal.cursor # NoCursor,
         reason = "deliveries" => Cardinality(OnRoutes) > MaxDeliveries,
         reason = "repeated" => traversal.cursor # NoCursor,
         reason = "duplicate" =>
           \/ \E v \in DOMAIN history[Tasks[current]] :
                Duplicated(history[Tasks[current]][v])
           \/ traversal.cursor # NoCursor /\ traversal.cursor < traversal.pages * PageSize
  PROVE  BoundsInv'
<1>1. /\ phase' = "failed" /\ failure' = reason
      /\ UNCHANGED <<history, current, traversal, population, snapshots, readings,
                     pending, workflows>>
  BY DEF Fail
<1>2. OnRoutes' = OnRoutes
  BY <1>1 DEF OnRoutes
<1>3. BoundsAreExact'
  BY <1>1 DEF BoundsInv, BoundsAreExact, Selected, OnRoutes
<1>4. QED
  BY <1>1, <1>3 DEF BoundsInv

LEMMA InitBounds ==
  ASSUME Init
  PROVE  BoundsInv
<1>1. traversal = NewTraversal /\ phase = "membership" /\ failure = "none"
  BY DEF Init
<1>2. traversal.items = <<>> /\ traversal.items \in Seq(Membership)
      /\ Range(traversal.items) = {}
  BY <1>1 DEF NewTraversal, Range
<1>3. Selected = {}
  BY DEF Init, Selected, Range
<1>4. ReadingOK
  <2>1. InStep(history[Tasks[current]], traversal)
    BY <1>1, NewTraversalInStep
  <2>2. traversal.pages \in 0..MaxPages
    BY <1>1, TraversalAssumption DEF NewTraversal
  <2>3. QED
    BY <1>1, <1>2, <2>1, <2>2 DEF ReadingOK
<1>5. Cardinality(DeliveriesOf(Selected \union Range(traversal.items))) = 0
  BY <1>2, <1>3, FS_EmptySet DEF DeliveriesOf
<1>6. QED
  BY <1>1, <1>2, <1>4, <1>5, PopulationAssumption DEF BoundsInv, BoundsAreExact

LEMMA ChangeBounds ==
  ASSUME IInv, BoundsInv, NEW task \in TaskIds, NEW content \in Contents[task],
         Change(task, content)
  PROVE  BoundsInv'
<1>1. /\ phase \notin {"done", "failed"}
      /\ history' = [history EXCEPT ![task] = Append(history[task], content)]
      /\ UNCHANGED <<phase, failure, current, traversal, population, snapshots, readings,
                     pending, workflows>>
  BY DEF Change, client
<1>2. failure = "none"
  BY <1>1 DEF BoundsInv
<1>3. BoundsAreExact'
  BY <1>1, <1>2 DEF BoundsInv, BoundsAreExact, Selected
<1>4. ASSUME phase = "membership" PROVE ReadingOK'
  <2>1. Tasks[current] \in TaskIds
    BY DEF IInv, TypesOK, TaskIds, Range
  <2>2. PICK h \in Seq(Seq(Membership)) : h = history[Tasks[current]]
    BY <2>1 DEF IInv, TypesOK
  <2>3. PICK n \in Nat : n = Len(h) /\ DOMAIN h = 1..n
    OBVIOUS
  <2>4. /\ DOMAIN history[Tasks[current]] \subseteq DOMAIN history'[Tasks[current]]
        /\ \A v \in DOMAIN h : history'[Tasks[current]][v] = h[v]
    <3>1. CASE Tasks[current] = task
      <4>1. content \in Seq(Membership)
        BY PopulationAssumption
      <4>2. history'[Tasks[current]] = Append(h, content)
        BY <1>1, <2>1, <2>2, <3>1 DEF IInv, TypesOK
      <4>3. PICK S : S = Seq(Membership)
        OBVIOUS
      <4>4. /\ DOMAIN Append(h, content) = 1..(n + 1)
            /\ \A v \in 1..n : Append(h, content)[v] = h[v]
        BY <2>2, <2>3, <4>1, <4>3, AppendProperties
      <4>5. QED
        BY <2>2, <2>3, <4>2, <4>4
    <3>2. CASE Tasks[current] # task
      BY <1>1, <2>1, <2>2, <3>2 DEF IInv, TypesOK
    <3>3. QED
      BY <3>1, <3>2
  <2>5. ReadingOK /\ TraversalOK(h, traversal, Membership)
    BY <1>4, <2>2 DEF BoundsInv, IInv, MembershipOK
  <2>6. InStep(history'[Tasks[current]], traversal)
    <3>1. ASSUME traversal.cursor # NoCursor
          PROVE  history'[Tasks[current]][traversal.snapshot] = h[traversal.snapshot]
      <4>1. traversal.snapshot # 0
        BY <2>5, <3>1 DEF TraversalOK, NewTraversal
      <4>2. traversal.snapshot \in DOMAIN h
        BY <2>3, <2>5, <4>1 DEF TraversalOK
      <4>3. QED
        BY <2>4, <4>2
    <3>2. QED
      BY <2>2, <2>5, <3>1 DEF ReadingOK, InStep
  <2>7. \A m \in Range(traversal.items) : FromRoute(m)'
    BY <1>1, <2>2, <2>4, <2>5 DEF ReadingOK, FromRoute
  <2>8. QED
    BY <1>1, <2>5, <2>6, <2>7 DEF ReadingOK
<1>5. QED
  BY <1>1, <1>3, <1>4 DEF BoundsInv

(* What the traversal of the current Task may look like before a page.     *)
LEMMA BeforeAPage ==
  ASSUME IInv, BoundsInv, phase = "membership",
         NEW page \in ServedPages(history[Tasks[current]], traversal),
         ~Drifts(traversal, page)
  PROVE  /\ InStep(history[Tasks[current]], Extend(traversal, page))
         /\ page.snapshot \in DOMAIN history[Tasks[current]]
         /\ page.cursor = NoCursor =>
              \/ traversal.items \o page.items = history[Tasks[current]][page.snapshot]
              \/ /\ traversal.cursor # NoCursor
                 /\ traversal.cursor < traversal.pages * PageSize
<1>1. Tasks[current] \in TaskIds
  BY DEF IInv, TypesOK, TaskIds, Range
<1>2. PICK h, t : h \in Seq(Seq(Membership)) /\ h = history[Tasks[current]] /\ t = traversal
  BY <1>1 DEF IInv, TypesOK
<1>3. h # <<>> /\ TraversalOK(h, t, Membership)
  BY <1>1, <1>2 DEF IInv, TypesOK, MembershipOK
<1>4. t.pages \in Nat /\ InStep(h, t) /\ (t.cursor = NoCursor => t = NewTraversal)
  BY <1>2, TraversalAssumption DEF BoundsInv, ReadingOK
<1>5. page \in ServedPages(h, t) /\ ~Drifts(t, page)
  BY <1>2
<1>6. /\ InStep(h, Extend(t, page))
      /\ page.cursor = NoCursor =>
           \/ t.items \o page.items = h[page.snapshot]
           \/ t.cursor # NoCursor /\ t.cursor < t.pages * PageSize
  BY <1>2, <1>3, <1>4, <1>5, PageInStep
<1>7. page.snapshot \in 1..Len(h)
  BY <1>2, <1>3, <1>5, PageKept
<1>8. DOMAIN h = 1..Len(h)
  BY <1>2
<1>9. QED
  BY <1>2, <1>6, <1>7, <1>8

LEMMA PageBoundBounds ==
  ASSUME IInv, BoundsInv, PageBound
  PROVE  BoundsInv'
<1>1. phase = "membership" /\ traversal.pages >= MaxPages /\ Fail("pages")
  BY DEF PageBound, PagesExhausted
<1>2. ReadingOK /\ failure = "none"
  BY <1>1 DEF BoundsInv
<1>3. traversal.pages = MaxPages /\ traversal.pages # 0
  BY <1>1, <1>2, TraversalAssumption DEF ReadingOK
<1>4. traversal.cursor # NoCursor
  BY <1>2, <1>3 DEF ReadingOK, NewTraversal
<1>5. QED
  BY <1>1, <1>2, <1>3, <1>4, FailKeepsBounds

LEMMA RefusePageBounds ==
  ASSUME IInv, BoundsInv,
         NEW page \in ServedPages(history[Tasks[current]], traversal), RefusePage(page)
  PROVE  BoundsInv'
<1>1. phase = "membership"
  BY DEF RefusePage
<1>2. failure = "none"
  BY <1>1 DEF BoundsInv
<1>3. CASE Fail("drift")
  BY <1>2, <1>3, FailKeepsBounds
<1>4. CASE Refusal(page.items) # "none" /\ Fail(Refusal(page.items))
  <2>1. Refusal(page.items) \in {"none", "membership", "deliveries"}
    BY DEF Refusal
  <2>2. CASE Refusal(page.items) = "deliveries"
    <3>1. Cardinality(OnRoutes) > MaxDeliveries
      BY <1>1, <2>2, RefusedExceedsBound
    <3>2. QED
      BY <1>2, <1>4, <2>2, <3>1, FailKeepsBounds
  <2>3. CASE Refusal(page.items) = "membership"
    BY <1>2, <1>4, <2>3, FailKeepsBounds
  <2>4. QED
    BY <1>4, <2>1, <2>2, <2>3
<1>5. CASE RepeatsCursor(traversal, page) /\ Fail("repeated")
  <2>1. traversal.seen # {}
    BY <1>5 DEF RepeatsCursor
  <2>2. traversal.cursor # NoCursor
    BY <1>1, <2>1 DEF BoundsInv, ReadingOK, NewTraversal
  <2>3. QED
    BY <1>2, <1>5, <2>2, FailKeepsBounds
<1>6. CASE /\ ~Drifts(traversal, page) /\ page.cursor = NoCursor
           /\ Duplicated(traversal.items \o page.items) /\ Fail("duplicate")
  <2>1. \/ \E v \in DOMAIN history[Tasks[current]] :
             Duplicated(history[Tasks[current]][v])
        \/ traversal.cursor # NoCursor /\ traversal.cursor < traversal.pages * PageSize
    BY <1>1, <1>6, BeforeAPage
  <2>2. QED
    BY <1>2, <1>6, <2>1, FailKeepsBounds
<1>7. QED
  BY <1>3, <1>4, <1>5, <1>6 DEF RefusePage

LEMMA NextPageBounds ==
  ASSUME IInv, BoundsInv,
         NEW page \in ServedPages(history[Tasks[current]], traversal), NextPage(page)
  PROVE  BoundsInv'
<1>1. /\ phase = "membership" /\ ~(traversal.pages >= MaxPages)
      /\ ~Drifts(traversal, page) /\ Refusal(page.items) = "none"
      /\ page.cursor # NoCursor
      /\ traversal' = Extend(traversal, page)
      /\ UNCHANGED <<history, phase, failure, current, population, snapshots, readings,
                     pending, workflows>>
  BY DEF NextPage, Admissible, PagesExhausted
<1>2. /\ traversal'.pages = traversal.pages + 1 /\ traversal'.cursor = page.cursor
      /\ traversal'.items = traversal.items \o page.items
  BY <1>1 DEF Extend
<1>3. /\ traversal'.items \in Seq(Membership)
      /\ Range(traversal'.items) = Range(traversal.items) \union Range(page.items)
      /\ Cardinality(DeliveriesOf(Selected \union Range(traversal'.items))) <= MaxDeliveries
  BY <1>1, <1>2, AdmittedKeepsBound
<1>4. failure = "none" /\ ReadingOK
  BY <1>1 DEF BoundsInv
<1>5. ReadingOK'
  <2>1. traversal'.pages \in 0..MaxPages
    BY <1>1, <1>2, <1>4, TraversalAssumption DEF ReadingOK
  <2>2. InStep(history[Tasks[current]], traversal')
    BY <1>1, BeforeAPage
  <2>3. \A m \in Range(traversal'.items) : FromRoute(m)
    BY <1>1, <1>3, <1>4, PageItems DEF ReadingOK
  <2>4. QED
    BY <1>1, <1>2, <2>1, <2>2, <2>3 DEF ReadingOK, FromRoute
<1>6. BoundsAreExact'
  BY <1>1, <1>3, <1>4 DEF BoundsAreExact, Selected
<1>7. QED
  BY <1>1, <1>3, <1>4, <1>5, <1>6 DEF BoundsInv

LEMMA LastPageBounds ==
  ASSUME IInv, BoundsInv,
         NEW page \in ServedPages(history[Tasks[current]], traversal), LastPage(page)
  PROVE  BoundsInv'
<1>1. /\ phase = "membership" /\ Refusal(page.items) = "none" /\ Admissible(page)
      /\ population' = [population EXCEPT ![Tasks[current]] = traversal.items \o page.items]
      /\ traversal' = NewTraversal
      /\ phase' # "failed"
      /\ UNCHANGED <<history, failure, readings, workflows>>
  BY DEF LastPage, Admissible, Extend
<1>2. failure = "none" /\ failure' = "none"
  BY <1>1 DEF BoundsInv
<1>3. traversal'.items = <<>> /\ Range(traversal'.items) = {}
  BY <1>1 DEF NewTraversal, Range
<1>4. /\ Tasks[current] \in TaskIds /\ snapshots[Tasks[current]] = 0
      /\ \A task \in TaskIds \ {Tasks[current]} : population'[task] = population[task]
  BY <1>1, LastPageSelects
<1>5. Selected' = Selected \union Range(traversal.items \o page.items)
  <2>1. population[Tasks[current]] = <<>>
    <3>1. EntryOK(Tasks[current])
      BY <1>4 DEF IInv
    <3>2. QED
      BY <1>4, <3>1 DEF EntryOK
  <2>2. Range(population[Tasks[current]]) = {}
    BY <2>1 DEF Range
  <2>3. population'[Tasks[current]] = traversal.items \o page.items
    BY <1>1, <1>4 DEF IInv, TypesOK
  <2>4. QED
    BY <1>4, <2>2, <2>3 DEF Selected
<1>6. Cardinality(DeliveriesOf(Selected' \union Range(traversal'.items))) <= MaxDeliveries
  <2>1. Selected' \union Range(traversal'.items)
          = Selected \union Range(traversal.items \o page.items)
    BY <1>3, <1>5
  <2>2. QED
    BY <1>1, <2>1, AdmittedKeepsBound
<1>7. BoundsAreExact'
  BY <1>2, <1>6 DEF BoundsAreExact
<1>8. ReadingOK'
  <2>1. InStep(history'[Tasks[current']], NewTraversal)
    BY NewTraversalInStep
  <2>2. QED
    BY <1>1, <1>3, <2>1, TraversalAssumption DEF ReadingOK, NewTraversal
<1>9. QED
  BY <1>1, <1>2, <1>3, <1>7, <1>8 DEF BoundsInv

LEMMA StepBounds ==
  ASSUME IInv, BoundsInv, [Next]_vars
  PROVE  BoundsInv'
<1>0. ASSUME UNCHANGED <<history, failure, current, traversal, population>>,
             phase # "failed", phase # "membership", phase' # "failed", phase' # "membership"
      PROVE  BoundsInv'
  BY <1>0 DEF BoundsInv, BoundsAreExact, Selected
<1>1. CASE Membering
  BY <1>1, PageBoundBounds, RefusePageBounds, NextPageBounds, LastPageBounds DEF Membering
<1>2. CASE Checking
  <2>1. PICK m \in pending, reading \in Reading : CheckManifest(m, reading)
    BY <1>2 DEF Checking
  <2>2. phase = "manifest" /\ failure = "none"
    BY <2>1 DEF CheckManifest, BoundsInv
  <2>3. CASE Fail("manifest")
    BY <2>2, <2>3, FailKeepsBounds
  <2>4. CASE /\ phase' = IF pending' = {} THEN "workflow" ELSE phase
             /\ UNCHANGED <<history, failure, current, traversal, population>>
    BY <1>0, <2>2, <2>4
  <2>5. QED
    BY <2>1, <2>3, <2>4 DEF CheckManifest
<1>3. CASE Resolving
  BY <1>0, <1>3 DEF Resolving, ResolveWorkflow
<1>4. CASE \E reason \in {"unavailable", "contract"} : RequestFails(reason)
  <2>1. PICK reason \in {"unavailable", "contract"} : RequestFails(reason)
    BY <1>4
  <2>2. failure = "none" /\ Fail(reason)
    BY <2>1 DEF RequestFails, BoundsInv
  <2>3. QED
    BY <2>2, FailKeepsBounds
<1>5. CASE WorkflowEscapes
  BY <1>5, FailKeepsBounds DEF WorkflowEscapes, BoundsInv
<1>6. CASE \E task \in TaskIds : \E content \in Contents[task] : Change(task, content)
  BY <1>6, ChangeBounds
<1>7. CASE UNCHANGED vars
  BY <1>7 DEF vars, BoundsInv, BoundsAreExact, Selected, ReadingOK, FromRoute
<1>8. QED
  BY <1>1, <1>2, <1>3, <1>4, <1>5, <1>6, <1>7 DEF Next

(* However the routes change and whatever cursors come back, the bounds    *)
(* are kept, and a population refused by one of them exceeds it.           *)
THEOREM BoundsExact == Spec => []BoundsAreExact
<1>1. IInv /\ BoundsInv /\ [Next]_vars => BoundsInv'
  BY StepBounds
<1>2. Init => BoundsInv
  BY InitBounds
<1>3. Spec => []BoundsInv
  BY <1>1, <1>2, Invariance, PTL DEF Spec
<1>4. QED
  BY <1>3, PTL DEF BoundsInv
=============================================================================
