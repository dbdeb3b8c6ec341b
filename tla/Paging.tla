------------------------------- MODULE Paging -------------------------------
(***************************************************************************)
(* Lists are read in pages: count and page on the Blockfrost face, limit    *)
(* and offset on the Koios face.  The face turns them into count, page and  *)
(* order; the provider forwards these, turns them back into limit and       *)
(* offset, or fetches the whole list and cuts the page out.  Between two    *)
(* pages the list goes on: rows are added at its end, and rows disappear    *)
(* (an output is spent, a block is rolled back).                            *)
(***************************************************************************)
EXTENDS Integers, FiniteSets, SequencesExt

CONSTANTS
  MaxRows,  \* bound: rows ever added to the list
  MaxGone,  \* bound: rows that disappear
  MaxCount, \* `count' of Blockfrost's API, at most and by default
  Asks      \* what clients may ask for: a set of Request records

Faces == {"blockfrost", "koios"}

(* How a list is served: "count", by a backend with count and page;         *)
(* "limit", by one with limit and offset; "slice", whole, for Janus to cut; *)
(* "native", a Blockfrost list that is asked for without paging; "ownorder", *)
(* a Koios list that is asked for with limit and offset but no order;       *)
(* "nested", one that Koios gives in a single row: limit and offset count   *)
(* rows, and the mapper then unfolds the row.                               *)
Served == {"count", "limit", "slice", "native", "ownorder", "nested"}

(* `order' as the client writes it.                                         *)
Descending == {"desc", "height.desc"}
Orders == Descending \cup {"asc", "height.asc", "other"}

(* from is the first page (Blockfrost) or offset (Koios) of a client.       *)
Request == [face : Faces, served : Served, size : Nat \ {0}, from : Nat, order : Orders]

ASSUME PagingAssumption ==
  /\ MaxRows \in Nat /\ MaxGone \in Nat /\ MaxCount \in Nat \ {0}
  /\ Asks \subseteq Request
  /\ \A a \in Asks :  \* what the query's types let through
       a.face = "blockfrost" => a.from >= 1 /\ a.size <= MaxCount

VARIABLES
  list,    \* the rows of the list, oldest first; a row is the number of its adding
  added,   \* the rows ever added
  pc,      \* "idle", "reading", "end", "refused"
  ask,     \* the request, NoRequest before it
  pages,   \* the pages read: the rows of each, and (history) the list it was
           \* read from and how many rows had been added to it
  gone     \* history: the rows that disappeared since the first page was read

vars == <<list, added, pc, ask, pages, gone>>

NoRequest == [face |-> "none"]

Page == [rows : Seq(1 .. MaxRows), of : Seq(1 .. MaxRows), added : 0 .. MaxRows]

TypeOK ==
  /\ list \in Seq(1 .. MaxRows)
  /\ added \in 0 .. MaxRows
  /\ pc \in {"idle", "reading", "end", "refused"}
  /\ pc # "idle" => ask \in Request
  /\ pages \in Seq(Page)
  /\ gone \in 0 .. MaxGone

-----------------------------------------------------------------------------
(* The parameters on their way.                                             *)

AtLeast(n, low) == IF n < low THEN low ELSE n

(* An order the face does not know is "asc".                                *)
PaginationParams(count, page, order) ==
  [count |-> count, page |-> page, order |-> IF order = "desc" THEN "desc" ELSE "asc"]

Aligned(limit, offset) == offset % AtLeast(limit, 1) = 0

KoiosPage(limit, offset, order) ==
  LET count == AtLeast(limit, 1)
  IN [count |-> count,
      page  |-> offset \div count + 1,
      order |-> IF order \in Descending THEN "desc" ELSE "asc"]

(* Mutant: the first page is taken for the second.                          *)
PageToOffsetFromZero(page, count) == AtLeast(page, 1) * AtLeast(count, 1)

(* Mutant: a page begins with the last row of the one before.               *)
PageToOffsetInclusive(page, count) == (AtLeast(page, 1) - 1) * (AtLeast(count, 1) - 1)

PageToOffset(page, count) == (AtLeast(page, 1) - 1) * AtLeast(count, 1)

(* rows[start : start + count]                                              *)
Window(rows, start, count) ==
  SubSeq(rows, start + 1, IF start + count < Len(rows) THEN start + count ELSE Len(rows))

Ordered(rows, order) == IF order = "desc" THEN Reverse(rows) ELSE rows

(* Mutant: the page is cut out of the list before the list is turned.       *)
SliceThenTurn(rows, params) ==
  Ordered(Window(rows, PageToOffset(params.page, params.count), params.count), params.order)

Paginate(rows, params) ==
  Window(Ordered(rows, params.order), PageToOffset(params.page, params.count),
         AtLeast(params.count, 1))

(* The backends: Blockfrost's count and page, Koios's limit and offset.     *)
ByCount(rows, count, page, order) == Window(Ordered(rows, order), (page - 1) * count, count)
ByLimit(rows, limit, offset, order) == Window(Ordered(rows, order), offset, limit)

(* Lists a Blockfrost backend is asked for without parameters.              *)
Native(rows) == ByCount(rows, MaxCount, 1, "asc")

(* Lists a Koios backend is asked for without the order.                    *)
OwnOrder(rows, params) ==
  ByLimit(rows, params.count, PageToOffset(params.page, params.count), "asc")

(* Limit and offset count the one row the list is nested in.                *)
Nested(rows, params) ==
  IF PageToOffset(params.page, params.count) = 0 THEN rows ELSE <<>>

Answer(rows, served, params) ==
  CASE served = "count"    -> ByCount(rows, params.count, params.page, params.order)
    [] served = "limit"    -> ByLimit(rows, params.count,
                                PageToOffset(params.page, params.count), params.order)
    [] served = "slice"    -> Paginate(rows, params)
    [] served = "native"   -> Native(rows)
    [] served = "ownorder" -> OwnOrder(rows, params)
    [] served = "nested"   -> Nested(rows, params)

-----------------------------------------------------------------------------
(* What the client asks next, and what it is turned into.                   *)

NextPage == ask.from + Len(pages)
NextOffset == ask.from + Len(pages) * ask.size

Params ==
  IF ask.face = "blockfrost" THEN PaginationParams(ask.size, NextPage, ask.order)
  ELSE KoiosPage(ask.size, NextOffset, ask.order)

(* The Koios face refuses an offset between two pages, Blockfrost a count   *)
(* above its maximum.                                                       *)
Refused ==
  \/ ask.face = "koios" /\ ~Aligned(ask.size, NextOffset)
  \/ ask.served = "count" /\ Params.count > MaxCount

Init ==
  /\ added \in 0 .. MaxRows
  /\ list = [i \in 1 .. added |-> i]
  /\ pc = "idle" /\ ask = NoRequest /\ pages = <<>> /\ gone = 0

Ask ==
  /\ pc = "idle" /\ pc' = "reading"
  /\ ask' \in Asks
  /\ UNCHANGED <<list, added, pages, gone>>

(* A page is answered; after a full one the client asks for the next.       *)
ReadPage ==
  /\ pc = "reading" /\ ~Refused
  /\ LET rows == Answer(list, ask.served, Params)
     IN /\ pages' = Append(pages, [rows |-> rows, of |-> list, added |-> added])
        /\ pc' = IF Len(rows) < ask.size THEN "end" ELSE "reading"
  /\ UNCHANGED <<list, added, ask, gone>>

Refuse ==
  /\ pc = "reading" /\ Refused
  /\ pc' = "refused"
  /\ UNCHANGED <<list, added, ask, pages, gone>>

RowAdded ==
  /\ added < MaxRows
  /\ added' = added + 1
  /\ list' = Append(list, added + 1)
  /\ UNCHANGED <<pc, ask, pages, gone>>

RowGone ==
  /\ gone < MaxGone
  /\ \E i \in 1 .. Len(list) : list' = RemoveAt(list, i)
  /\ gone' = IF pages = <<>> THEN 0 ELSE gone + 1
  /\ UNCHANGED <<added, pc, ask, pages>>

Next == Ask \/ ReadPage \/ Refuse \/ RowAdded \/ RowGone

Spec == Init /\ [][Next]_vars

-----------------------------------------------------------------------------
(* Properties                                                               *)

(* Where the client's k-th page starts in the list, by the face's own       *)
(* meaning of its parameters, and in which order it wants it.               *)
Meant(k) ==
  IF ask.face = "blockfrost" THEN (ask.from + k - 2) * ask.size
  ELSE ask.from + (k - 1) * ask.size

Downwards == ask.order \in IF ask.face = "blockfrost" THEN {"desc"} ELSE Descending

Turned(rows) == IF Downwards THEN Reverse(rows) ELSE rows

(* A page is what the face's own API would have answered: that window of    *)
(* the list as it then was, in that order, whatever backend it came from    *)
(* and however often its parameters were converted.                         *)
PageIsTheWindow ==
  \A k \in 1 .. Len(pages) :
    pages[k].rows = Window(Turned(pages[k].of), Meant(k), ask.size)

(* The rows the client was told, by page and place in the page, and which   *)
(* they are.                                                                *)
Told == UNION {{k} \X (1 .. Len(pages[k].rows)) : k \in 1 .. Len(pages)}
RowOf(p) == pages[p[1]].rows[p[2]]
Read == {RowOf(p) : p \in Told}

(* What it was told already when it was told it again.                      *)
Before(p, q) == p[1] < q[1] \/ (p[1] = q[1] /\ p[2] < q[2])
Repeats == {q \in Told : \E p \in Told : Before(p, q) /\ RowOf(p) = RowOf(q)}

(* Reading upwards, the client sees every row after the ones before it and  *)
(* so none twice, whatever is added to the list and disappears from it      *)
(* between two pages.                                                       *)
UpwardsInOrder ==
  pages # <<>> /\ ~Downwards =>
    \A p, q \in Told : Before(p, q) => RowOf(p) < RowOf(q)

(* Reading downwards, it is told at most as many rows twice as were added.  *)
RepeatsAtMostAdded ==
  pages # <<>> /\ Downwards => Cardinality(Repeats) <= added - pages[1].added

(* A client that read to the end has every row it would have had at once:   *)
(* those in the list from its first page on and still there.  A row that    *)
(* disappears lets it miss at most one other.                               *)
Due == ToSet(Window(Turned(pages[1].of), Meant(1), Len(pages[1].of)))

MissesAtMostGone ==
  pc = "end" => Cardinality((Due \cap ToSet(list)) \ Read) <= gone
=============================================================================
