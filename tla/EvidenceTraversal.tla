-------------------------- MODULE EvidenceTraversal --------------------------
(***************************************************************************)
(* The paged read of one Evidence route.  resolution/service.py writes the *)
(* same loop three times (Task memberships, Facts, Traces): ask for a      *)
(* page, refuse a page of another snapshot, keep its items, stop at the    *)
(* absent cursor, refuse a cursor seen before, and never ask for more than *)
(* max_pages_per_traversal pages.                                          *)
(*                                                                         *)
(* The Evidence service is external.  A route has a history of versions,   *)
(* each a sequence of items; a page is cut from one version and names that *)
(* version as its snapshot.  The service may move on to the newest version *)
(* between two pages, and a faulty cursor may point backwards; it does not *)
(* skip items of the version it names.                                     *)
(***************************************************************************)
EXTENDS Integers, Sequences, Functions

CONSTANTS
  MaxPages,     \* max_pages_per_traversal
  PageSize,     \* items in one page (limit=200)
  NoCursor

ASSUME TraversalAssumption ==
  /\ MaxPages \in Nat \ {0} /\ PageSize \in Nat \ {0} /\ NoCursor \notin Nat

(* Nothing is read yet; version 0 is no version. *)
NewTraversal == [pages |-> 0, cursor |-> NoCursor, seen |-> {},
                 snapshot |-> 0, items |-> <<>>]

-----------------------------------------------------------------------------
(* Bugs the properties of the resolvers are shown to catch. *)

ForgetsTheSnapshot(t, page) == FALSE

StopsOnePageEarly(t) == t.pages >= MaxPages - 1

LoopsWithoutCounting(t, page) ==
  [pages |-> t.pages, cursor |-> page.cursor, seen |-> t.seen,
   snapshot |-> page.snapshot, items |-> page.items]

-----------------------------------------------------------------------------
(* The guard at the head of the loop. *)
PagesExhausted(t) == t.pages >= MaxPages

(* The page belongs to another snapshot than the pages before it. *)
Drifts(t, page) == t.snapshot # 0 /\ page.snapshot # t.snapshot

RepeatsCursor(t, page) == page.cursor # NoCursor /\ page.cursor \in t.seen

Extend(t, page) ==
  [pages |-> t.pages + 1, cursor |-> page.cursor,
   seen |-> t.seen \union ({page.cursor} \ {NoCursor}),
   snapshot |-> page.snapshot, items |-> t.items \o page.items]

Complete(t) == t.pages > 0 /\ t.cursor = NoCursor

-----------------------------------------------------------------------------
(* External: the page the service cuts from version v of history. *)
Cut(history, v, offset) ==
  SubSeq(history[v], offset + 1,
         IF offset + PageSize <= Len(history[v]) THEN offset + PageSize
         ELSE Len(history[v]))

Offset(t) == IF t.cursor = NoCursor THEN 0 ELSE t.cursor

NextCursor(history, v, offset) ==
  IF offset + PageSize < Len(history[v]) THEN offset + PageSize ELSE NoCursor

(* The pages the service may send to a traversal in state t. *)
ServedPages(history, t) ==
  UNION {{[snapshot |-> v, items |-> Cut(history, v, Offset(t)), cursor |-> next] :
            next \in {NextCursor(history, v, Offset(t))} \union 0..Offset(t)} :
         v \in {Len(history)} \union ({t.snapshot} \ {0})}
=============================================================================
