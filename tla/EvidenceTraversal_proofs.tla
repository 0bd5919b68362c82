---------------------- MODULE EvidenceTraversal_proofs ----------------------
(***************************************************************************)
(* What a traversal holds, proved for any page size, any contents and any  *)
(* cursors, also those that point back.                                    *)
(*                                                                         *)
(* The items read so far are a prefix of the version the traversal names,  *)
(* and its cursor does not point past them; or, after a cursor has pointed *)
(* back, some item is there twice.  Nothing else can be said of them while *)
(* the traversal is under way, and it is enough: the last page completes a *)
(* prefix, and what is there twice is refused by whoever called.           *)
(***************************************************************************)
EXTENDS EvidenceTraversal, FiniteSets, TLAPS, SequenceTheorems, FiniteSetTheorems

Repeats(items) == \E i, j \in 1..Len(items) : i # j /\ items[i] = items[j]

IsPrefix(items, content) ==
  /\ Len(items) <= Len(content)
  /\ \A i \in 1..Len(items) : items[i] = content[i]

Held(content, t) ==
  \/ Repeats(t.items)
  \/ IsPrefix(t.items, content) /\ Offset(t) <= Len(t.items)

(* history: the versions of the route that t reads; S: what it may hold.   *)
TraversalOK(history, t, S) ==
  /\ t.items \in Seq(S)
  /\ t.cursor \in Nat \union {NoCursor}
  /\ t.snapshot \in 0..Len(history)
  /\ t.snapshot = 0 => t = NewTraversal
  /\ t.snapshot # 0 => Held(history[t.snapshot], t)

-----------------------------------------------------------------------------
LEMMA NewTraversalOK ==
  ASSUME NEW S, NEW history \in Seq(Seq(S))
  PROVE  TraversalOK(history, NewTraversal, S)
BY DEF TraversalOK, NewTraversal

(* A version that is added leaves those before it as they are. *)
LEMMA TraversalOutlivesChanges ==
  ASSUME NEW S, NEW history \in Seq(Seq(S)), NEW content \in Seq(S), NEW t,
         TraversalOK(history, t, S)
  PROVE  TraversalOK(Append(history, content), t, S)
<1>1. Len(Append(history, content)) = Len(history) + 1 /\ Len(history) \in Nat
  OBVIOUS
<1>2. t.snapshot # 0 => Append(history, content)[t.snapshot] = history[t.snapshot]
  BY DEF TraversalOK
<1> QED BY <1>1, <1>2 DEF TraversalOK

LEMMA RepeatsStays ==
  ASSUME NEW S, NEW s \in Seq(S), NEW u \in Seq(S), Repeats(s)
  PROVE  Repeats(s \o u)
<1>1. Len(s \o u) = Len(s) + Len(u) /\ Len(s) \in Nat /\ Len(u) \in Nat
  OBVIOUS
<1>2. \A i \in 1..Len(s) : (s \o u)[i] = s[i]
  OBVIOUS
<1> QED BY <1>1, <1>2 DEF Repeats

(* The last item of a page that is cut from content at offset. *)
Last(content, offset) ==
  IF offset + PageSize <= Len(content) THEN offset + PageSize ELSE Len(content)

(* What a page adds to a prefix. *)
CutOf(cut, content, offset) ==
  /\ offset < Last(content, offset) => Len(cut) = Last(content, offset) - offset
  /\ offset >= Last(content, offset) => Len(cut) = 0
  /\ \A i \in 1..Len(cut) : cut[i] = content[offset + i]

CutAt(content, offset) == SubSeq(content, offset + 1, Last(content, offset))

LEMMA CutProperties ==
  ASSUME NEW S, NEW content \in Seq(S), NEW offset \in Nat, NEW cut, cut = CutAt(content, offset)
  PROVE  CutOf(cut, content, offset) /\ cut \in Seq(S)
<1>1. PICK last \in Nat : last = Last(content, offset) /\ last <= Len(content)
  BY TraversalAssumption DEF Last
<1>2. \A i \in (offset + 1)..last : content[i] \in S
  BY <1>1
<1>3. /\ cut \in Seq(S)
      /\ Len(cut) = IF offset + 1 <= last THEN last - (offset + 1) + 1 ELSE 0
      /\ \A i \in 1..(last - (offset + 1) + 1) : cut[i] = content[offset + 1 + i - 1]
  BY <1>1, <1>2, SubSeqProperties DEF CutAt
<1>4. /\ offset < last => Len(cut) = last - offset
      /\ offset >= last => Len(cut) = 0
      /\ Len(cut) \in Nat
  BY <1>3
<1>5. ASSUME NEW i \in 1..Len(cut) PROVE cut[i] = content[offset + i]
  <2>1. i \in 1..(last - (offset + 1) + 1) /\ offset + 1 + i - 1 = offset + i
    BY <1>4
  <2> QED BY <1>3, <2>1
<1> QED BY <1>1, <1>3, <1>4, <1>5 DEF CutOf

(* A page cut at the end of a prefix makes it a longer one; a page cut     *)
(* before its end brings an item a second time.                            *)
LEMMA PrefixExtended ==
  ASSUME NEW S, NEW content \in Seq(S), NEW s \in Seq(S), NEW cut \in Seq(S), NEW offset \in Nat,
         IsPrefix(s, content), offset <= Len(s), CutOf(cut, content, offset)
  PROVE  /\ s \o cut \in Seq(S)
         /\ \/ offset < Len(s) /\ Repeats(s \o cut)
            \/ /\ IsPrefix(s \o cut, content)
               /\ Len(s \o cut) = Last(content, offset) /\ offset <= Last(content, offset)
<1>0. PICK last \in Nat : last = Last(content, offset)
  BY TraversalAssumption DEF Last
<1>1. /\ PageSize \in Nat \ {0} /\ Len(content) \in Nat /\ Len(s) \in Nat /\ Len(cut) \in Nat
  BY TraversalAssumption
<1> DEFINE both == s \o cut
<1>7. /\ both \in Seq(S) /\ Len(both) = Len(s) + Len(cut)
      /\ \A i \in 1..(Len(s) + Len(cut)) :
           both[i] = IF i <= Len(s) THEN s[i] ELSE cut[i - Len(s)]
  BY ConcatProperties
<1> HIDE DEF both
<1>8. PICK items \in Seq(S) : items = both
  BY <1>7
<1>2. /\ items \in Seq(S) /\ Len(items) = Len(s) + Len(cut)
      /\ \A i \in 1..Len(s) : items[i] = s[i]
      /\ \A i \in (Len(s) + 1)..(Len(s) + Len(cut)) : items[i] = cut[i - Len(s)]
  BY <1>1, <1>7, <1>8
<1>3. /\ Len(s) <= Len(content)
      /\ \A i \in 1..Len(s) : s[i] = content[i]
  BY DEF IsPrefix
<1>4. /\ last \in Nat /\ last <= Len(content) /\ last >= offset
      /\ offset < last => Len(cut) = last - offset
      /\ offset >= last => Len(cut) = 0
      /\ \A i \in 1..Len(cut) : cut[i] = content[offset + i]
  BY <1>0, <1>1, <1>3 DEF Last, CutOf
<1>5. CASE offset < Len(s)
  <2>1. offset < last
    BY <1>0, <1>1, <1>3, <1>5 DEF Last
  <2>2. Len(cut) > 0 /\ Len(cut) = last - offset
    BY <1>4, <2>1
  <2>3. items[Len(s) + 1] = content[offset + 1]
    <3>1. Len(s) + 1 \in (Len(s) + 1)..(Len(s) + Len(cut))
          /\ (Len(s) + 1) - Len(s) = 1 /\ 1 \in 1..Len(cut)
      BY <1>1, <2>2
    <3>2. items[Len(s) + 1] = cut[1] /\ cut[1] = content[offset + 1]
      BY <1>2, <1>4, <3>1
    <3> QED BY <3>2
  <2>4. items[offset + 1] = content[offset + 1]
    <3>1. offset + 1 \in 1..(Len(s) + Len(cut)) /\ offset + 1 <= Len(s) /\ offset + 1 \in 1..Len(s)
      BY <1>1, <1>5
    <3> QED BY <1>2, <1>3, <3>1
  <2>5. /\ offset + 1 \in 1..Len(items) /\ Len(s) + 1 \in 1..Len(items)
        /\ offset + 1 # Len(s) + 1
    BY <1>1, <1>2, <1>5, <2>2
  <2>6. Repeats(items)
    BY <2>3, <2>4, <2>5 DEF Repeats
  <2> QED BY <1>2, <1>5, <1>8, <2>6 DEF both
<1>6. CASE offset = Len(s)
  <2>1. Len(items) = last
    BY <1>1, <1>2, <1>4, <1>6
  <2>2. ASSUME NEW i \in 1..Len(items) PROVE items[i] = content[i]
    <3>1. CASE i <= Len(s)
      BY <1>1, <1>2, <1>3, <3>1
    <3>2. CASE i > Len(s)
      <4>1. /\ i - Len(s) \in 1..Len(cut) /\ offset + (i - Len(s)) = i
            /\ i \in (Len(s) + 1)..(Len(s) + Len(cut))
        BY <1>1, <1>2, <1>6, <3>2
      <4>2. items[i] = cut[i - Len(s)] /\ cut[i - Len(s)] = content[offset + (i - Len(s))]
        BY <1>2, <1>4, <4>1
      <4> QED BY <4>1, <4>2
    <3> QED BY <1>1, <1>2, <3>1, <3>2
  <2>3. IsPrefix(items, content)
    BY <1>4, <2>1, <2>2 DEF IsPrefix
  <2> QED BY <1>0, <1>2, <1>4, <1>8, <2>1, <2>3 DEF both
<1> QED BY <1>1, <1>5, <1>6

(* A page the loop keeps: the traversal stays as it should be, and with    *)
(* the last page it holds the whole of one version, or an item twice.      *)
LEMMA PageKept ==
  ASSUME NEW S, NEW history \in Seq(Seq(S)), history # <<>>, NEW t,
         TraversalOK(history, t, S), NEW page \in ServedPages(history, t), ~Drifts(t, page)
  PROVE  LET more == Extend(t, page)
         IN  /\ page.snapshot \in 1..Len(history)
             /\ more.items \in Seq(S)
             /\ page.cursor # NoCursor => TraversalOK(history, more, S)
             /\ page.cursor = NoCursor =>
                  Repeats(more.items) \/ more.items = history[page.snapshot]
<1> DEFINE more == Extend(t, page)
<1>0. PICK v \in {Len(history)} \union ({t.snapshot} \ {0}) :
        \E next \in {NextCursor(history, v, Offset(t))} \union 0..Offset(t) :
          page = [snapshot |-> v, items |-> Cut(history, v, Offset(t)), cursor |-> next]
  BY DEF ServedPages
<1>1. PICK next \in {NextCursor(history, v, Offset(t))} \union 0..Offset(t) :
        page = [snapshot |-> v, items |-> Cut(history, v, Offset(t)), cursor |-> next]
  BY <1>0
<1>2. /\ Len(history) \in Nat \ {0} /\ v \in 1..Len(history)
      /\ t.snapshot # 0 => v = t.snapshot
  BY <1>1 DEF TraversalOK, Drifts
<1>3. NoCursor \notin Nat /\ PageSize \in Nat \ {0}
  BY TraversalAssumption
<1>4. Offset(t) \in Nat
  BY <1>3 DEF Offset, TraversalOK
<1>5. history[v] \in Seq(S)
  BY <1>2
<1>6. Held(history[v], t) /\ t.items \in Seq(S)
  <2>1. CASE t.snapshot # 0
    BY <1>2, <2>1 DEF TraversalOK
  <2>2. CASE t.snapshot = 0
    <3>1. t = NewTraversal
      BY <2>2 DEF TraversalOK
    <3>2. Len(history[v]) \in Nat /\ t.items = <<>> /\ Offset(t) = 0
      BY <1>5, <3>1 DEF NewTraversal, Offset
    <3> QED BY <3>2 DEF Held, IsPrefix
  <2> QED BY <2>1, <2>2
<1>7. next \in Nat \union {NoCursor}
  BY <1>1, <1>3, <1>4, <1>5 DEF NextCursor
<1> DEFINE items == t.items \o Cut(history, v, Offset(t))
<1>8. /\ items \in Seq(S)
      /\ \/ Repeats(items)
         \/ /\ IsPrefix(items, history[v])
            /\ next \in Nat => next <= Len(items)
            /\ next \notin Nat => items = history[v]
  <2>0. PICK content \in Seq(S), s \in Seq(S), offset \in Nat :
          content = history[v] /\ s = t.items /\ offset = Offset(t)
    BY <1>4, <1>5, <1>6
  <2>1. PICK cut : /\ content = history[v] /\ s = t.items /\ offset = Offset(t)
                   /\ cut = Cut(history, v, offset)
    BY <2>0
  <2>2. CutOf(cut, content, offset) /\ cut \in Seq(S)
    <3>1. cut = CutAt(content, offset)
      BY <2>1 DEF Cut, CutAt, Last
    <3> QED BY <3>1, CutProperties
  <2>3. items = s \o cut
    BY <2>1
  <2> HIDE DEF items
  <2>4. CASE Repeats(s)
    BY <2>2, <2>3, <2>4, RepeatsStays
  <2>5. CASE IsPrefix(s, content) /\ offset <= Len(s)
    <3>1. /\ s \o cut \in Seq(S)
          /\ \/ Repeats(s \o cut)
             \/ /\ IsPrefix(s \o cut, content)
                /\ Len(s \o cut) = Last(content, offset) /\ offset <= Last(content, offset)
      BY <2>2, <2>5, PrefixExtended
    <3>2. CASE IsPrefix(items, content) /\ Len(items) = Last(content, offset)
               /\ offset <= Last(content, offset)
      <4>1. Len(content) \in Nat
        OBVIOUS
      <4>2. next = NextCursor(history, v, offset) \/ next \in 0..offset
        BY <2>1
      <4>3. ASSUME next \in Nat PROVE next <= Len(items)
        BY <1>3, <2>1, <3>2, <4>1, <4>2, <4>3 DEF NextCursor, Last
      <4>4. ASSUME next \notin Nat PROVE items = content
        <5>1. next = NextCursor(history, v, offset)
          BY <4>2, <4>4
        <5>2. Len(items) = Len(content)
          BY <1>3, <2>1, <3>2, <4>1, <4>4, <5>1 DEF NextCursor, Last
        <5> QED BY <2>3, <3>1, <3>2, <5>2, SeqEqual DEF IsPrefix
      <4> QED BY <2>1, <2>3, <3>1, <3>2, <4>3, <4>4
    <3> QED BY <2>3, <3>1, <3>2
  <2> QED BY <1>6, <2>1, <2>4, <2>5 DEF Held
<1>9. more.items = items /\ more.cursor = next /\ more.snapshot = v /\ page.snapshot = v
      /\ page.cursor = next
  BY <1>1 DEF Extend
<1> HIDE DEF items, more
<1>10. ASSUME next # NoCursor PROVE TraversalOK(history, more, S)
  <2>1. Offset(more) = next /\ next \in Nat
    BY <1>7, <1>9, <1>10 DEF Offset
  <2>2. Held(history[v], more)
    BY <1>8, <1>9, <2>1 DEF Held
  <2> QED BY <1>2, <1>8, <1>9, <2>1, <2>2 DEF TraversalOK
<1>11. ASSUME next = NoCursor PROVE Repeats(more.items) \/ more.items = history[v]
  BY <1>3, <1>8, <1>9, <1>11
<1> QED BY <1>2, <1>8, <1>9, <1>10, <1>11 DEF more

(* Values that are given twice are fewer than their places. *)
LEMMA TwiceIsFewer ==
  ASSUME NEW n \in Nat, NEW f, f = [i \in 1..n |-> f[i]],
         NEW i \in 1..n, NEW j \in 1..n, i # j, f[i] = f[j]
  PROVE  Cardinality({f[k] : k \in 1..n}) # n
<1> DEFINE T == {f[k] : k \in 1..n}
<1>1. f \in Surjection(1..n, T)
  BY DEF Surjection
<1>2. f \notin Injection(1..n, T)
  BY DEF Injection, IsInjective
<1>3. IsFiniteSet(1..n) /\ Cardinality(1..n) = n
  <2>1. 1 \in Int /\ n \in Int
    OBVIOUS
  <2>2. IsFiniteSet(1..n) /\ Cardinality(1..n) = IF 1 > n THEN 0 ELSE n - 1 + 1
    BY <2>1, FS_Interval
  <2> QED BY <2>2
<1> HIDE DEF T
<1>4. Cardinality(T) = Cardinality(1..n) <=> f \in Injection(1..n, T)
  BY <1>1, <1>3, FS_Surjection
<1> QED BY <1>2, <1>3, <1>4 DEF T

(* A traversal whose cursor has not pointed back is as far as its pages    *)
(* reach, and holds what they hold; one whose cursor has stays behind.     *)
InStep(history, t) ==
  t.cursor # NoCursor =>
    /\ t.cursor <= t.pages * PageSize
    /\ t.cursor = t.pages * PageSize =>
         IsPrefix(t.items, history[t.snapshot]) /\ Len(t.items) = t.cursor

LEMMA NewTraversalInStep ==
  ASSUME NEW history
  PROVE  InStep(history, NewTraversal)
BY DEF InStep, NewTraversal

(* The last page of a traversal in step makes it the whole version.        *)
LEMMA PageInStep ==
  ASSUME NEW S, NEW history \in Seq(Seq(S)), history # <<>>, NEW t,
         TraversalOK(history, t, S), t.pages \in Nat, InStep(history, t),
         t.cursor = NoCursor => t = NewTraversal,
         NEW page \in ServedPages(history, t), ~Drifts(t, page)
  PROVE  /\ InStep(history, Extend(t, page))
         /\ page.cursor = NoCursor =>
              \/ t.items \o page.items = history[page.snapshot]
              \/ t.cursor # NoCursor /\ t.cursor < t.pages * PageSize
<1> DEFINE reach == t.pages * PageSize
<1>0. PICK v \in {Len(history)} \union ({t.snapshot} \ {0}) :
        \E next \in {NextCursor(history, v, Offset(t))} \union 0..Offset(t) :
          page = [snapshot |-> v, items |-> Cut(history, v, Offset(t)), cursor |-> next]
  BY DEF ServedPages
<1>1. PICK next \in {NextCursor(history, v, Offset(t))} \union 0..Offset(t) :
        page = [snapshot |-> v, items |-> Cut(history, v, Offset(t)), cursor |-> next]
  BY <1>0
<1>2. v \in 1..Len(history) /\ (t.snapshot # 0 => v = t.snapshot)
  <2>1. Len(history) \in Nat \ {0}
    OBVIOUS
  <2>2. QED
    BY <1>1, <2>1 DEF TraversalOK, Drifts
<1>3. NoCursor \notin Nat /\ PageSize \in Nat \ {0}
  BY TraversalAssumption
<1>4. PICK content \in Seq(S), s \in Seq(S), offset \in Nat :
        content = history[v] /\ s = t.items /\ offset = Offset(t)
  BY <1>2, <1>3 DEF TraversalOK, Offset
<1>5. PICK cut : /\ content = history[v] /\ s = t.items /\ offset = Offset(t)
                 /\ cut = Cut(history, v, offset)
  BY <1>4
<1>6. CutOf(cut, content, offset) /\ cut \in Seq(S)
  <2>1. cut = CutAt(content, offset)
    BY <1>5 DEF Cut, CutAt, Last
  <2>2. QED
    BY <2>1, CutProperties
<1>7. reach \in Nat /\ (t.pages + 1) * PageSize = reach + PageSize
  BY <1>3
<1>8. /\ offset <= reach
      /\ offset = reach => IsPrefix(s, content) /\ Len(s) = offset
      /\ offset < reach => t.cursor # NoCursor /\ t.cursor < reach
  <2>1. CASE t.cursor = NoCursor
    <3>1. offset = 0 /\ s = <<>> /\ reach = 0
      BY <1>3, <1>5, <2>1 DEF NewTraversal, Offset
    <3>2. Len(content) \in Nat
      OBVIOUS
    <3>3. QED
      BY <3>1, <3>2 DEF IsPrefix
  <2>2. CASE t.cursor # NoCursor
    <3>1. t.snapshot # 0
      BY <2>2 DEF TraversalOK, NewTraversal
    <3>2. history[t.snapshot] = content /\ offset = t.cursor
      BY <1>2, <1>5, <2>2, <3>1 DEF Offset
    <3>3. QED
      BY <1>3, <1>5, <1>7, <2>2, <3>2 DEF InStep
  <2>3. QED
    BY <2>1, <2>2
<1>9. /\ next = NextCursor(history, v, offset) \/ next \in 0..offset
      /\ next # NoCursor => next \in Nat /\ next <= offset + PageSize
      /\ next = offset + PageSize => offset + PageSize < Len(content)
      /\ next = NoCursor => Len(content) <= offset + PageSize
  <2>1. next = NextCursor(history, v, offset) \/ next \in 0..offset
    BY <1>5
  <2>2. Len(content) \in Nat
    OBVIOUS
  <2>3. QED
    BY <1>3, <1>5, <2>1, <2>2 DEF NextCursor
<1> DEFINE items == s \o cut
<1>10. ASSUME offset = reach
       PROVE  IsPrefix(items, content) /\ Len(items) = Last(content, offset)
  <2>1. IsPrefix(s, content) /\ offset <= Len(s) /\ ~(offset < Len(s))
    BY <1>8, <1>10
  <2>2. QED
    BY <1>6, <2>1, PrefixExtended
<1>11. InStep(history, Extend(t, page))
  <2>1. /\ Extend(t, page).cursor = next /\ Extend(t, page).pages = t.pages + 1
        /\ Extend(t, page).snapshot = v /\ Extend(t, page).items = items
    BY <1>1, <1>5 DEF Extend
  <2> HIDE DEF items, reach
  <2>2. ASSUME next # NoCursor
        PROVE  next <= reach + PageSize
    BY <1>3, <1>7, <1>8, <1>9, <2>2
  <2>3. ASSUME next # NoCursor, next = reach + PageSize
        PROVE  IsPrefix(items, content) /\ Len(items) = next
    <3>1. offset = reach /\ next = offset + PageSize
      BY <1>3, <1>7, <1>8, <1>9, <2>3
    <3>2. Len(content) \in Nat /\ offset + PageSize < Len(content)
      BY <1>9, <3>1
    <3>3. QED
      BY <1>10, <3>1, <3>2 DEF Last
  <2>4. QED
    BY <1>5, <1>7, <2>1, <2>2, <2>3 DEF InStep
<1>12. ASSUME page.cursor = NoCursor, offset = reach
       PROVE  t.items \o page.items = history[page.snapshot]
  <2>1. next = NoCursor /\ page.items = cut /\ page.snapshot = v
    BY <1>1, <1>5, <1>12
  <2>2. Last(content, offset) = Len(content)
    <3>1. Len(content) \in Nat
      OBVIOUS
    <3>2. QED
      BY <1>3, <1>9, <2>1, <3>1 DEF Last
  <2>3. IsPrefix(items, content) /\ Len(items) = Len(content) /\ items \in Seq(S)
    BY <1>6, <1>10, <1>12, <2>2
  <2>4. items = content
    <3> HIDE DEF items
    <3>1. QED
      BY <2>3, SeqEqual DEF IsPrefix
  <2>5. QED
    BY <1>5, <2>1, <2>4
<1>13. ASSUME offset # reach
       PROVE  t.cursor # NoCursor /\ t.cursor < t.pages * PageSize
  <2>1. offset < reach
    <3> HIDE DEF reach
    <3>1. QED
      BY <1>7, <1>8, <1>13
  <2>2. QED
    BY <1>8, <2>1
<1>14. QED
  BY <1>11, <1>12, <1>13

(* A set of numbers has a least one. *)
LEMMA SmallestOf ==
  ASSUME NEW S \in SUBSET Nat, S # {}
  PROVE  \E n \in S : \A m \in S : n <= m
<1> DEFINE R == StrictSubsetOrdering(Nat)
           T == {1..n : n \in S}
<1>1. IsWellFoundedOn(R, FiniteSubsetsOf(Nat))
  BY FS_StrictSubsetOrderingWellFounded
<1>2. T \subseteq FiniteSubsetsOf(Nat) /\ T # {}
  <2>1. \A n \in S : 1..n \in SUBSET Nat /\ IsFiniteSet(1..n)
    BY FS_Interval
  <2>2. QED
    BY <2>1 DEF FiniteSubsetsOf
<1>3. PICK t \in T : \A u \in T : ~(<<u, t>> \in R)
  <2> HIDE DEF R, T
  <2>1. QED
    BY <1>1, <1>2, WFMin
<1>4. PICK n \in S : t = 1..n
  OBVIOUS
<1>5. ASSUME NEW m \in S, m < n PROVE FALSE
  <2>1. 1..m \in T
    OBVIOUS
  <2>2. 1..m \subseteq 1..n /\ n \in 1..n /\ n \notin 1..m
    BY <1>5
  <2>3. 1..m \in SUBSET Nat /\ 1..n \in SUBSET Nat
    OBVIOUS
  <2>4. <<1..m, 1..n>> \in R
    BY <2>2, <2>3 DEF StrictSubsetOrdering
  <2>5. QED
    BY <1>3, <1>4, <2>1, <2>4
<1>6. QED
  BY <1>5

(* The image of a finite set under a function is finite. *)
LEMMA ImageIsFinite ==
  ASSUME NEW f, IsFiniteSet(DOMAIN f), f = [x \in DOMAIN f |-> f[x]]
  PROVE  IsFiniteSet({f[x] : x \in DOMAIN f})
<1> DEFINE T == {f[x] : x \in DOMAIN f}
<1>1. f \in Surjection(DOMAIN f, T)
  BY DEF Surjection
<1>2. QED
  <2> HIDE DEF T
  <2>1. IsFiniteSet(T)
    BY <1>1, FS_Surjection
  <2>2. QED
    BY <2>1 DEF T

LEMMA RangeIsFinite ==
  ASSUME NEW S, NEW s \in Seq(S)
  PROVE  IsFiniteSet(Range(s))
<1>1. PICK n \in Nat : n = Len(s) /\ DOMAIN s = 1..n
  OBVIOUS
<1>2. IsFiniteSet(1..n)
  BY FS_Interval
<1>3. s = [i \in DOMAIN s |-> s[i]]
  OBVIOUS
<1>4. QED
  BY <1>1, <1>2, <1>3, ImageIsFinite DEF Range

LEMMA RangeOfConcat ==
  ASSUME NEW S, NEW s \in Seq(S), NEW u \in Seq(S)
  PROVE  s \o u \in Seq(S) /\ Range(s \o u) = Range(s) \union Range(u)
<1>1. PICK m \in Nat, n \in Nat : /\ m = Len(s) /\ n = Len(u)
                                  /\ DOMAIN s = 1..m /\ DOMAIN u = 1..n
  OBVIOUS
<1>2. /\ s \o u \in Seq(S) /\ DOMAIN (s \o u) = 1..(m + n)
      /\ \A i \in 1..(m + n) : (s \o u)[i] = IF i <= m THEN s[i] ELSE u[i - m]
  BY <1>1
<1>3. ASSUME NEW x \in Range(s \o u) PROVE x \in Range(s) \union Range(u)
  <2>1. PICK i \in 1..(m + n) : x = (s \o u)[i]
    BY <1>2, <1>3 DEF Range
  <2>2. CASE i <= m
    <3>1. i \in DOMAIN s /\ x = s[i]
      BY <1>1, <1>2, <2>1, <2>2
    <3>2. QED
      BY <3>1 DEF Range
  <2>3. CASE i > m
    <3>1. i - m \in DOMAIN u /\ x = u[i - m]
      BY <1>1, <1>2, <2>1, <2>3
    <3>2. QED
      BY <3>1 DEF Range
  <2>4. i <= m \/ i > m
    OBVIOUS
  <2>5. QED
    BY <2>2, <2>3, <2>4
<1>4. ASSUME NEW x \in Range(s) PROVE x \in Range(s \o u)
  <2>1. PICK i \in 1..m : x = s[i]
    BY <1>1, <1>4 DEF Range
  <2>2. i \in 1..(m + n) /\ x = (s \o u)[i]
    BY <1>2, <2>1
  <2>3. QED
    BY <1>2, <2>2 DEF Range
<1>5. ASSUME NEW x \in Range(u) PROVE x \in Range(s \o u)
  <2>1. PICK i \in 1..n : x = u[i]
    BY <1>1, <1>5 DEF Range
  <2>2. m + i \in 1..(m + n) /\ x = (s \o u)[m + i]
    <3>1. m + i \in 1..(m + n) /\ ~(m + i <= m) /\ (m + i) - m = i
      OBVIOUS
    <3>2. QED
      BY <1>2, <2>1, <3>1
  <2>3. QED
    BY <1>2, <2>2 DEF Range
<1>6. QED
  BY <1>2, <1>3, <1>4, <1>5
=============================================================================
