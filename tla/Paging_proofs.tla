---------------------------- MODULE Paging_proofs ---------------------------
(***************************************************************************)
(* Proofs about Paging, for lists, pages and offsets of every size.         *)
(***************************************************************************)
EXTENDS Paging, SequenceTheorems, FiniteSetTheorems, TLAPS

-----------------------------------------------------------------------------
(* Arithmetic.                                                              *)

(* An offset between no two pages is that of its page.                      *)
LEMMA DivExact ==
  ASSUME NEW n \in Nat, NEW d \in Nat \ {0}, n % d = 0
  PROVE  /\ n \div d \in Nat
         /\ (n \div d) * d = n
OBVIOUS

LEMMA ProductNat == \A a, b \in Nat : a * b \in Nat
OBVIOUS

(* The next page starts where this one ends.                                *)
LEMMA NextProduct == \A a \in Int, b \in Nat : (a + 1) * b = a * b + b
OBVIOUS

-----------------------------------------------------------------------------
(* Sequences.                                                               *)

LEMMA ReverseFacts ==
  ASSUME NEW S, NEW s \in Seq(S)
  PROVE  /\ Reverse(s) \in Seq(S)
         /\ Len(Reverse(s)) = Len(s)
         /\ \A i \in 1 .. Len(s) : Reverse(s)[i] = s[Len(s) + 1 - i]
<1>1. Len(s) \in Nat /\ \A i \in 1 .. Len(s) : s[i] \in S
  OBVIOUS
<1>2. \A i \in 1 .. Len(s) : (Len(s) - i) + 1 \in 1 .. Len(s)
  BY <1>1
<1>3. \A i \in 1 .. Len(s) : s[(Len(s) - i) + 1] \in S
  BY <1>1, <1>2
<1>4. Reverse(s) = [i \in 1 .. Len(s) |-> s[(Len(s) - i) + 1]]
  BY DEF Reverse
<1> QED BY <1>1, <1>3, <1>4

LEMMA WindowFacts ==
  ASSUME NEW S, NEW s \in Seq(S), NEW start \in Nat, NEW count \in Nat
  PROVE  LET w == Window(s, start, count)
         IN /\ w \in Seq(S)
            /\ Len(w) <= count
            /\ Len(w) = count => start + count <= Len(s) \/ count = 0
            /\ \A i \in 1 .. Len(w) : start + i \in 1 .. Len(s) /\ w[i] = s[start + i]
<1> DEFINE n == IF start + count < Len(s) THEN start + count ELSE Len(s)
<1>1. Len(s) \in Nat /\ n \in Int /\ start + 1 \in Int
  OBVIOUS
<1>2. \A i \in start + 1 .. n : s[i] \in S
  OBVIOUS
<1>3. Window(s, start, count) = SubSeq(s, start + 1, n)
  BY DEF Window
<1>4. /\ SubSeq(s, start + 1, n) \in Seq(S)
      /\ Len(SubSeq(s, start + 1, n)) = IF start + 1 <= n THEN n - (start + 1) + 1 ELSE 0
      /\ \A i \in 1 .. n - (start + 1) + 1 :
            SubSeq(s, start + 1, n)[i] = s[(start + 1) + i - 1]
  <2> HIDE DEF n
  <2> QED BY <1>1, <1>2, SubSeqProperties
<1>5. Len(Window(s, start, count)) <= count
  BY <1>1, <1>3, <1>4
<1>6. Len(Window(s, start, count)) = count => start + count <= Len(s) \/ count = 0
  BY <1>1, <1>3, <1>4
<1>7. ASSUME NEW i \in 1 .. Len(Window(s, start, count))
      PROVE  start + i \in 1 .. Len(s) /\ Window(s, start, count)[i] = s[start + i]
  <2>1. i \in 1 .. n - (start + 1) + 1 /\ start + i \in 1 .. Len(s)
    BY <1>1, <1>3, <1>4
  <2>2. (start + 1) + i - 1 = start + i
    BY <2>1
  <2> QED BY <1>3, <1>4, <2>1, <2>2
<1> QED BY <1>3, <1>4, <1>5, <1>6, <1>7

LEMMA RemoveFacts ==
  ASSUME NEW S, NEW s \in Seq(S), NEW n \in 1 .. Len(s)
  PROVE  /\ RemoveAt(s, n) \in Seq(S)
         /\ Len(RemoveAt(s, n)) = Len(s) - 1
         /\ \A i \in 1 .. Len(s) - 1 :
              RemoveAt(s, n)[i] = IF i < n THEN s[i] ELSE s[i + 1]
<1> DEFINE a == SubSeq(s, 1, n - 1)
           b == SubSeq(s, n + 1, Len(s))
<1>1. a \in Seq(S) /\ Len(a) = n - 1 /\ \A i \in 1 .. n - 1 : a[i] = s[i]
  OBVIOUS
<1>2. b \in Seq(S) /\ Len(b) = Len(s) - n
  OBVIOUS
<1>3. \A i \in 1 .. Len(s) - n : b[i] = s[n + i]
  OBVIOUS
<1>4. RemoveAt(s, n) = a \o b
  BY DEF RemoveAt
<1> HIDE DEF a, b
<1>5. a \o b \in Seq(S) /\ Len(a \o b) = Len(s) - 1
  BY <1>1, <1>2
<1>6. ASSUME NEW i \in 1 .. Len(s) - 1
      PROVE  (a \o b)[i] = IF i < n THEN s[i] ELSE s[i + 1]
  <2>1. (a \o b)[i] = IF i <= Len(a) THEN a[i] ELSE b[i - Len(a)]
    BY <1>1, <1>2, ConcatProperties
  <2>2. CASE i < n
    BY <2>1, <2>2, <1>1
  <2>3. CASE ~(i < n)
    <3>1. i - Len(a) \in 1 .. Len(s) - n /\ ~(i <= Len(a)) /\ n + (i - Len(a)) = i + 1
      BY <2>3, <1>1
    <3> QED BY <2>1, <2>3, <3>1, <1>3
  <2> QED BY <2>2, <2>3
<1> QED BY <1>4, <1>5, <1>6

-----------------------------------------------------------------------------
(* The parameters on their way.                                             *)

(* A client's page number or offset is where its page starts.               *)
LEMMA NextStarts ==
  ASSUME TypeOK, pc = "reading", ask.face = "blockfrost" => ask.from >= 1
  PROVE  /\ ask.size \in Nat \ {0}
         /\ Meant(Len(pages) + 1) \in Nat
         /\ Meant(Len(pages) + 2) = Meant(Len(pages) + 1) + ask.size
<1> DEFINE k == Len(pages)
<1>1. k \in Nat /\ ask.size \in Nat \ {0} /\ ask.from \in Nat
  BY DEF TypeOK, Request
<1>2. CASE ask.face = "blockfrost"
  <2>1. ask.from + (k + 1) - 2 \in Nat
    BY <1>1, <1>2
  <2>2. /\ Meant(k + 1) = (ask.from + (k + 1) - 2) * ask.size
        /\ Meant(k + 2) = (ask.from + (k + 2) - 2) * ask.size
    BY <1>2 DEF Meant
  <2>3. ask.from + (k + 2) - 2 = (ask.from + (k + 1) - 2) + 1
    BY <1>1
  <2> HIDE DEF k
  <2>4. Meant(k + 2) = Meant(k + 1) + ask.size
    BY <1>1, <2>1, <2>2, <2>3, NextProduct
  <2>5. Meant(k + 1) \in Nat
    BY <1>1, <2>1, <2>2, ProductNat
  <2> QED BY <1>1, <2>4, <2>5 DEF k
<1>3. CASE ask.face # "blockfrost"
  <2>1. /\ Meant(k + 1) = ask.from + ((k + 1) - 1) * ask.size
        /\ Meant(k + 2) = ask.from + ((k + 2) - 1) * ask.size
    BY <1>3 DEF Meant
  <2>2. (k + 1) - 1 = k /\ (k + 2) - 1 = k + 1
    BY <1>1
  <2> HIDE DEF k
  <2>3. k * ask.size \in Nat /\ (k + 1) * ask.size = k * ask.size + ask.size
    BY <1>1, ProductNat, NextProduct
  <2>4. Meant(k + 1) = ask.from + k * ask.size /\ Meant(k + 2) = ask.from + (k + 1) * ask.size
    BY <2>1, <2>2
  <2>5. Meant(k + 1) \in Nat /\ Meant(k + 2) = Meant(k + 1) + ask.size
    BY <1>1, <2>3, <2>4
  <2> QED BY <1>1, <2>5 DEF k
<1> QED BY <1>2, <1>3

(* However the parameters are converted, they mean the client's page.       *)
LEMMA ParamsMean ==
  ASSUME TypeOK, pc = "reading", ask.face = "blockfrost" => ask.from >= 1, ~Refused
  PROVE  /\ Params.count = ask.size
         /\ Params.page \in Nat \ {0}
         /\ (Params.page - 1) * ask.size = Meant(Len(pages) + 1)
         /\ Params.order = IF Downwards THEN "desc" ELSE "asc"
<1> DEFINE k == Len(pages)
<1>1. /\ k \in Nat /\ ask.size \in Nat \ {0} /\ ask.from \in Nat
      /\ ask.face \in {"blockfrost", "koios"}
  BY DEF TypeOK, Request, Faces
<1>2. CASE ask.face = "blockfrost"
  <2>1. /\ Params.count = ask.size /\ Params.page = ask.from + k
        /\ Params.order = IF ask.order = "desc" THEN "desc" ELSE "asc"
    BY <1>2 DEF Params, PaginationParams, NextPage
  <2>2. Downwards = (ask.order = "desc")
    BY <1>2 DEF Downwards
  <2>3. Meant(k + 1) = (ask.from + (k + 1) - 2) * ask.size
    BY <1>2 DEF Meant
  <2>4. ask.from + (k + 1) - 2 = (ask.from + k) - 1 /\ ask.from + k \in Nat \ {0}
    BY <1>1, <1>2
  <2>5. (Params.page - 1) * ask.size = Meant(k + 1)
    BY <2>1, <2>3, <2>4
  <2> QED BY <2>1, <2>2, <2>4, <2>5
<1>3. CASE ask.face = "koios"
  <2>1. AtLeast(ask.size, 1) = ask.size
    BY <1>1 DEF AtLeast
  <2>2. NextOffset = ask.from + k * ask.size /\ NextOffset \in Nat
    BY <1>1, ProductNat DEF NextOffset
  <2>3. NextOffset % ask.size = 0
    BY <1>3, <2>1 DEF Refused, Aligned
  <2>4. NextOffset \div ask.size \in Nat /\ (NextOffset \div ask.size) * ask.size = NextOffset
    BY <1>1, <2>2, <2>3, DivExact
  <2>5. /\ Params.count = ask.size /\ Params.page = NextOffset \div ask.size + 1
        /\ Params.order = IF ask.order \in Descending THEN "desc" ELSE "asc"
    BY <1>3, <2>1 DEF Params, KoiosPage
  <2>6. Downwards = (ask.order \in Descending)
    BY <1>3 DEF Downwards
  <2>7. Meant(k + 1) = NextOffset
    BY <1>1, <1>3, <2>2 DEF Meant
  <2>8. (NextOffset \div ask.size + 1) - 1 = NextOffset \div ask.size
    BY <2>4
  <2>9. (Params.page - 1) * ask.size = Meant(k + 1)
    BY <2>4, <2>5, <2>7, <2>8
  <2>10. Params.page \in Nat \ {0}
    BY <2>4, <2>5
  <2>11. Params.order = IF Downwards THEN "desc" ELSE "asc"
    BY <2>5, <2>6
  <2> QED BY <2>5, <2>9, <2>10, <2>11
<1> QED BY <1>1, <1>2, <1>3

(* What a paged backend answers is the client's window.                     *)
Paged == {"count", "limit", "slice"}

LEMMA AnswerIsWindow ==
  ASSUME TypeOK, pc = "reading", ask.face = "blockfrost" => ask.from >= 1, ~Refused,
         ask.served \in Paged
  PROVE  Answer(list, ask.served, Params) =
           Window(Turned(list), Meant(Len(pages) + 1), ask.size)
<1>1. /\ Params.count = ask.size /\ Params.page \in Nat \ {0}
      /\ (Params.page - 1) * ask.size = Meant(Len(pages) + 1)
      /\ Params.order = IF Downwards THEN "desc" ELSE "asc"
  BY ParamsMean
<1>2. ask.size \in Nat \ {0}
  BY DEF TypeOK, Request
<1>3. Ordered(list, Params.order) = Turned(list)
  BY <1>1 DEF Ordered, Turned
<1>4. AtLeast(ask.size, 1) = ask.size /\ AtLeast(Params.page, 1) = Params.page
  BY <1>1, <1>2 DEF AtLeast
<1>5. PageToOffset(Params.page, Params.count) = Meant(Len(pages) + 1)
  BY <1>1, <1>4 DEF PageToOffset
<1>6. CASE ask.served = "count"
  BY <1>1, <1>3, <1>6 DEF Answer, ByCount
<1>7. CASE ask.served = "limit"
  BY <1>1, <1>3, <1>5, <1>7 DEF Answer, ByLimit
<1>8. CASE ask.served = "slice"
  BY <1>1, <1>3, <1>4, <1>5, <1>8 DEF Answer, Paginate
<1> QED BY <1>6, <1>7, <1>8 DEF Paged

-----------------------------------------------------------------------------
(* Type correctness.                                                        *)

AskFits ==
  /\ pc = "idle" => pages = <<>>
  /\ pc # "idle" => ask \in Asks

LEMMA AskedFrom ==
  ASSUME AskFits, pc # "idle"
  PROVE  ask \in Request /\ (ask.face = "blockfrost" => ask.from >= 1)
BY PagingAssumption DEF AskFits

LEMMA AnswerType ==
  ASSUME TypeOK, AskFits, pc = "reading", ~Refused
  PROVE  Answer(list, ask.served, Params) \in Seq(1 .. MaxRows)
<1>1. /\ Params.count \in Nat \ {0} /\ Params.page \in Nat \ {0}
      /\ list \in Seq(1 .. MaxRows) /\ ask.served \in Served
      /\ (Params.page - 1) * Params.count \in Nat
  <2>1. ask \in Request /\ ask.size \in Nat \ {0}
    BY AskedFrom DEF Request
  <2>2. /\ Params.count = ask.size /\ Params.page \in Nat \ {0}
    BY AskedFrom, ParamsMean
  <2>3. Params.page - 1 \in Nat
    BY <2>2
  <2>4. (Params.page - 1) * Params.count \in Nat
    BY <2>1, <2>2, <2>3, ProductNat
  <2> QED BY <2>1, <2>2, <2>4 DEF TypeOK, Request
<1>2. \A o : Ordered(list, o) \in Seq(1 .. MaxRows)
  BY <1>1, ReverseFacts DEF Ordered
<1>3. PageToOffset(Params.page, Params.count) \in Nat
  BY <1>1 DEF PageToOffset, AtLeast
<1>4. AtLeast(Params.count, 1) \in Nat
  BY <1>1 DEF AtLeast
<1>5. CASE ask.served = "count"
  BY <1>1, <1>2, <1>5, WindowFacts DEF Answer, ByCount
<1>6. CASE ask.served = "limit"
  BY <1>1, <1>2, <1>3, <1>6, WindowFacts DEF Answer, ByLimit
<1>7. CASE ask.served = "slice"
  BY <1>1, <1>2, <1>3, <1>4, <1>7, WindowFacts DEF Answer, Paginate
<1>8. CASE ask.served = "native"
  <2>1. (1 - 1) * MaxCount = 0 /\ MaxCount \in Nat
    BY PagingAssumption
  <2> QED BY <1>2, <1>8, <2>1, WindowFacts DEF Answer, Native, ByCount
<1>9. CASE ask.served = "ownorder"
  BY <1>1, <1>2, <1>3, <1>9, WindowFacts DEF Answer, OwnOrder, ByLimit
<1>10. CASE ask.served = "nested"
  <2>1. Answer(list, ask.served, Params) \in {list, <<>>}
    BY <1>10 DEF Answer, Nested
  <2>2. <<>> \in Seq(1 .. MaxRows)
    OBVIOUS
  <2> QED BY <1>1, <2>1, <2>2, Zenon
<1> QED BY <1>1, <1>5, <1>6, <1>7, <1>8, <1>9, <1>10 DEF Served

(* The types, and that the request is one of Asks once it is made.          *)
TInv == TypeOK /\ AskFits

LEMMA TInvInit == Init => TInv
<1> SUFFICES ASSUME Init PROVE TInv
  OBVIOUS
<1>1. added \in 0 .. MaxRows /\ list = [i \in 1 .. added |-> i]
  BY DEF Init
<1>2. list \in Seq(1 .. MaxRows)
  BY <1>1, PagingAssumption
<1> QED BY <1>1, <1>2, PagingAssumption DEF Init, TInv, TypeOK, AskFits

LEMMA TInvNext == TInv /\ [Next]_vars => TInv'
<1> SUFFICES ASSUME TInv, [Next]_vars PROVE TInv'
  OBVIOUS
<1>0. TypeOK /\ AskFits
  BY DEF TInv
<1>1. CASE Ask
  BY <1>0, <1>1, PagingAssumption DEF TInv, TypeOK, AskFits, Ask
<1>2. CASE ReadPage
  <2> DEFINE rows == Answer(list, ask.served, Params)
             page == [rows |-> rows, of |-> list, added |-> added]
  <2>1. /\ pages' = Append(pages, page) /\ pc = "reading" /\ pc' \in {"end", "reading"}
        /\ UNCHANGED <<list, added, ask, gone>> /\ ~Refused
    BY <1>2 DEF ReadPage
  <2>2. rows \in Seq(1 .. MaxRows)
    BY <1>0, <2>1, AnswerType
  <2> HIDE DEF rows
  <2>3. page \in Page
    BY <1>0, <2>2 DEF TypeOK, Page
  <2> HIDE DEF page
  <2>4. pages' \in Seq(Page)
    BY <1>0, <2>1, <2>3 DEF TypeOK
  <2> QED BY <1>0, <2>1, <2>4 DEF TInv, TypeOK, AskFits
<1>3. CASE Refuse
  BY <1>0, <1>3 DEF TInv, TypeOK, AskFits, Refuse
<1>4. CASE RowAdded
  <2>1. added' \in 0 .. MaxRows /\ added + 1 \in 1 .. MaxRows
    BY <1>0, <1>4, PagingAssumption DEF TypeOK, RowAdded
  <2>2. list' \in Seq(1 .. MaxRows)
    BY <1>0, <1>4, <2>1 DEF TypeOK, RowAdded
  <2> QED BY <1>0, <1>4, <2>1, <2>2 DEF TInv, TypeOK, AskFits, RowAdded
<1>5. CASE RowGone
  <2>1. list' \in Seq(1 .. MaxRows)
    BY <1>0, <1>5, RemoveFacts DEF TypeOK, RowGone
  <2>2. gone' \in 0 .. MaxGone
    BY <1>0, <1>5, PagingAssumption DEF TypeOK, RowGone
  <2> QED BY <1>0, <1>5, <2>1, <2>2 DEF TInv, TypeOK, AskFits, RowGone
<1>6. CASE UNCHANGED vars
  BY <1>0, <1>6 DEF TInv, TypeOK, AskFits, vars
<1> QED BY <1>1, <1>2, <1>3, <1>4, <1>5, <1>6 DEF Next

(* Every reachable state of the lists, the requests and the pages is well   *)
(* typed.                                                                   *)
THEOREM TypeCorrect == Spec => []TypeOK
<1>1. TInv => TypeOK
  BY DEF TInv
<1> QED BY <1>1, TInvInit, TInvNext, PTL DEF Spec

-----------------------------------------------------------------------------
(* Pages are windows.                                                       *)

PagedAsks == \A a \in Asks : a.served \in Paged

(* What ReadPage adds.                                                      *)
NewPage == [rows  |-> Window(Turned(list), Meant(Len(pages) + 1), ask.size),
            of    |-> list,
            added |-> added]

LEMMA ReadPageAdds ==
  ASSUME PagedAsks, TInv, ReadPage
  PROVE  /\ pages' = Append(pages, NewPage)
         /\ pc' = IF Len(NewPage.rows) < ask.size THEN "end" ELSE "reading"
         /\ pc = "reading"
         /\ UNCHANGED <<list, added, ask, gone>>
<1>1. ask \in Asks /\ pc = "reading" /\ ~Refused
  BY DEF TInv, AskFits, ReadPage
<1>2. Answer(list, ask.served, Params) = NewPage.rows
  BY <1>1, AnswerIsWindow, AskedFrom DEF TInv, PagedAsks, NewPage
<1>3. NewPage = [rows |-> Answer(list, ask.served, Params), of |-> list, added |-> added]
  BY <1>2 DEF NewPage
<1> QED BY <1>1, <1>2, <1>3 DEF ReadPage

(* A page is what the face's own API would have answered, whichever backend *)
(* with paging it came from.                                                *)
THEOREM PagesAreWindows ==
  ASSUME PagedAsks
  PROVE  Spec => []PageIsTheWindow
<1> DEFINE WInv == TInv /\ PageIsTheWindow
<1>1. Init => WInv
  BY TInvInit DEF Init, PageIsTheWindow
<1>2. WInv /\ [Next]_vars => WInv'
  <2> SUFFICES ASSUME WInv, [Next]_vars PROVE PageIsTheWindow'
    BY TInvNext
  <2>1. CASE Ask
    <3>1. pages' = <<>>
      BY <2>1 DEF TInv, AskFits, Ask
    <3> QED BY <3>1 DEF PageIsTheWindow
  <2>2. CASE ReadPage
    <3>1. pages' = Append(pages, NewPage) /\ ask' = ask
      BY <2>2, ReadPageAdds
    <3>2. pages \in Seq(Page)
      BY DEF TInv, TypeOK
    <3>3. /\ Len(pages') = Len(pages) + 1 /\ Len(pages) \in Nat
          /\ pages'[Len(pages) + 1] = NewPage
          /\ \A k \in 1 .. Len(pages) : pages'[k] = pages[k]
      BY <3>1, <3>2
    <3> SUFFICES ASSUME NEW k \in 1 .. Len(pages')
                 PROVE  pages'[k].rows = Window(Turned(pages'[k].of), Meant(k), ask.size)
      BY <3>1 DEF PageIsTheWindow, Turned, Downwards, Meant
    <3>4. CASE k = Len(pages) + 1
      BY <3>3, <3>4 DEF NewPage
    <3>5. CASE k \in 1 .. Len(pages)
      BY <3>3, <3>5 DEF PageIsTheWindow
    <3> QED BY <3>3, <3>4, <3>5
  <2>3. CASE UNCHANGED <<ask, pages>>
    BY <2>3 DEF PageIsTheWindow, Turned, Downwards, Meant
  <2> QED BY <2>1, <2>2, <2>3 DEF Next, Refuse, RowAdded, RowGone, vars
<1>3. WInv => PageIsTheWindow
  OBVIOUS
<1> QED BY <1>1, <1>2, <1>3, PTL DEF Spec

-----------------------------------------------------------------------------
(* Reading upwards.                                                         *)

(* The list is in the order of adding.                                      *)
ListInOrder ==
  /\ \A i, j \in 1 .. Len(list) : i < j => list[i] < list[j]
  /\ \A i \in 1 .. Len(list) : list[i] <= added

(* What the client has lies behind the rows it will read next, whatever     *)
(* disappears from the list: rows move forward, towards what was read.      *)
RowsBehind ==
  pc = "reading" /\ ~Downwards =>
    \A k \in 1 .. Len(pages) : \A i \in 1 .. Len(pages[k].rows) :
      /\ pages[k].rows[i] <= added
      /\ \A j \in 1 .. Len(list) :
           j > Meant(Len(pages) + 1) => pages[k].rows[i] < list[j]

(* UpwardsInOrder, page by page.                                            *)
RowsInOrder ==
  pages # <<>> /\ ~Downwards =>
    \A k, l \in 1 .. Len(pages) :
      \A i \in 1 .. Len(pages[k].rows), j \in 1 .. Len(pages[l].rows) :
        k < l \/ (k = l /\ i < j) => pages[k].rows[i] < pages[l].rows[j]

OInv == TInv /\ ListInOrder /\ RowsBehind /\ RowsInOrder

(* Rows are numbers.                                                        *)
LEMMA RowsAreNat ==
  ASSUME NEW s \in Seq(1 .. MaxRows)
  PROVE  Len(s) \in Nat /\ \A i \in 1 .. Len(s) : s[i] \in Nat
<1> DEFINE Row == 1 .. MaxRows
<1>1. \A r \in Row : r \in Nat
  BY PagingAssumption
<1>2. s \in Seq(Row)
  OBVIOUS
<1> HIDE DEF Row
<1>3. Len(s) \in Nat /\ \A i \in 1 .. Len(s) : s[i] \in Row
  BY <1>2
<1> QED BY <1>1, <1>3

LEMMA OInvRead ==
  ASSUME PagedAsks, OInv, ReadPage
  PROVE  ListInOrder' /\ RowsBehind' /\ RowsInOrder'
<1> DEFINE n == Len(pages)
           start == Meant(n + 1)
           w == NewPage.rows
<1>1. /\ pages' = Append(pages, NewPage) /\ pc = "reading"
      /\ pc' = IF Len(w) < ask.size THEN "end" ELSE "reading"
      /\ UNCHANGED <<list, added, ask, gone>>
  BY ReadPageAdds DEF OInv
<1>2. /\ pages \in Seq(Page) /\ list \in Seq(1 .. MaxRows) /\ added \in Nat /\ ask \in Request
  BY <1>1, AskedFrom DEF OInv, TInv, TypeOK
<1>3. /\ Len(pages') = n + 1 /\ n \in Nat
      /\ pages'[n + 1] = NewPage
      /\ \A k \in 1 .. n : pages'[k] = pages[k]
  BY <1>1, <1>2
<1>4. start \in Nat /\ ask.size \in Nat \ {0} /\ Meant(n + 2) = start + ask.size
  BY <1>1, NextStarts, AskedFrom DEF OInv, TInv
<1>5. ListInOrder'
  BY <1>1 DEF OInv, ListInOrder
<1>6. Downwards' = Downwards /\ \A k : Meant(k)' = Meant(k)
  BY <1>1 DEF Downwards, Meant
<1> SUFFICES ASSUME ~Downwards PROVE RowsBehind' /\ RowsInOrder'
  BY <1>5, <1>6 DEF RowsBehind, RowsInOrder
<1>7. w = Window(list, start, ask.size)
  BY DEF NewPage, Turned
<1>8. /\ w \in Seq(1 .. MaxRows)
      /\ Len(w) = ask.size => start + ask.size <= Len(list)
      /\ Len(w) <= ask.size
      /\ \A i \in 1 .. Len(w) : start + i \in 1 .. Len(list) /\ w[i] = list[start + i]
  <2> HIDE DEF w, start, n
  <2>1. /\ w \in Seq(1 .. MaxRows) /\ Len(w) <= ask.size
        /\ Len(w) = ask.size => start + ask.size <= Len(list) \/ ask.size = 0
        /\ \A i \in 1 .. Len(w) : start + i \in 1 .. Len(list) /\ w[i] = list[start + i]
    <3>1. start \in Nat /\ ask.size \in Nat /\ list \in Seq(1 .. MaxRows)
      BY <1>2, <1>4
    <3> QED BY <1>7, <3>1, WindowFacts
  <2> QED BY <1>4, <2>1
<1>9. /\ Len(w) \in Nat /\ \A i \in 1 .. Len(w) : w[i] \in Nat
      /\ Len(list) \in Nat /\ \A j \in 1 .. Len(list) : list[j] \in Nat
  <2> HIDE DEF w
  <2> QED BY <1>2, <1>8, RowsAreNat
<1>10. \A i, j \in 1 .. Len(w) : i < j => w[i] < w[j]
  <2> SUFFICES ASSUME NEW i \in 1 .. Len(w), NEW j \in 1 .. Len(w), i < j PROVE w[i] < w[j]
    OBVIOUS
  <2>1. start + i \in 1 .. Len(list) /\ start + j \in 1 .. Len(list) /\ start + i < start + j
    BY <1>4, <1>8, <1>9
  <2> QED BY <2>1, <1>8 DEF OInv, ListInOrder
<1>11. \A k \in 1 .. n : \A i \in 1 .. Len(pages[k].rows) :
         pages[k].rows[i] <= added /\ \A j \in 1 .. Len(w) : pages[k].rows[i] < w[j]
  <2> SUFFICES ASSUME NEW k \in 1 .. n, NEW i \in 1 .. Len(pages[k].rows)
               PROVE  pages[k].rows[i] <= added /\ \A j \in 1 .. Len(w) : pages[k].rows[i] < w[j]
    OBVIOUS
  <2>1. /\ pages[k].rows[i] <= added
        /\ \A j \in 1 .. Len(list) : j > start => pages[k].rows[i] < list[j]
    BY <1>1 DEF OInv, RowsBehind
  <2>2. ASSUME NEW j \in 1 .. Len(w) PROVE pages[k].rows[i] < w[j]
    <3>1. start + j \in 1 .. Len(list) /\ start + j > start /\ w[j] = list[start + j]
      BY <1>4, <1>8, <1>9
    <3> QED BY <2>1, <3>1
  <2> QED BY <2>1, <2>2
<1>12. \A i \in 1 .. Len(w) : w[i] <= added
  BY <1>8 DEF OInv, ListInOrder
<1> HIDE DEF w, start, n
<1>13. RowsBehind'
  <2> SUFFICES ASSUME pc' = "reading", NEW k \in 1 .. n + 1, NEW i \in 1 .. Len(pages'[k].rows)
               PROVE  /\ pages'[k].rows[i] <= added
                      /\ \A j \in 1 .. Len(list) : j > Meant(n + 2) => pages'[k].rows[i] < list[j]
    <3>1. Len(pages') + 1 = n + 2
      BY <1>3
    <3> QED BY <1>1, <1>3, <1>6, <3>1 DEF RowsBehind
  <2>1. Len(w) = ask.size
    BY <1>1, <1>4, <1>8, <1>9
  <2>2. CASE k = n + 1
    <3>1. pages'[k].rows = w
      BY <1>3, <2>2 DEF w
    <3>2. i \in 1 .. Len(w) /\ w[i] <= added /\ w[i] = list[start + i] /\ start + i \in 1 .. Len(list)
      BY <1>8, <1>12, <3>1
    <3>3. ASSUME NEW j \in 1 .. Len(list), j > Meant(n + 2) PROVE w[i] < list[j]
      <4>1. start + i < j
        BY <1>4, <1>9, <2>1, <3>2, <3>3
      <4> QED BY <3>2, <4>1 DEF OInv, ListInOrder
    <3> QED BY <3>1, <3>2, <3>3
  <2>3. CASE k \in 1 .. n
    <3>1. pages'[k] = pages[k]
      BY <1>3, <2>3
    <3>2. /\ pages[k].rows[i] <= added
          /\ \A j \in 1 .. Len(list) : j > start => pages[k].rows[i] < list[j]
      BY <1>1, <2>3, <3>1 DEF OInv, RowsBehind, n, start
    <3>3. \A j \in 1 .. Len(list) : j > Meant(n + 2) => j > start
      BY <1>4, <1>9
    <3> QED BY <3>1, <3>2, <3>3
  <2> QED BY <1>3, <2>2, <2>3
<1>14. RowsInOrder'
  <2> SUFFICES ASSUME NEW k \in 1 .. n + 1, NEW l \in 1 .. n + 1,
                      NEW i \in 1 .. Len(pages'[k].rows), NEW j \in 1 .. Len(pages'[l].rows),
                      k < l \/ (k = l /\ i < j)
               PROVE  pages'[k].rows[i] < pages'[l].rows[j]
    BY <1>3, <1>6 DEF RowsInOrder
  <2>1. CASE l = n + 1 /\ k = n + 1
    <3>1. pages'[k].rows = w /\ pages'[l].rows = w /\ i < j
      BY <1>3, <2>1 DEF w
    <3> QED BY <3>1, <1>10
  <2>2. CASE l = n + 1 /\ k \in 1 .. n
    <3>1. pages'[k] = pages[k] /\ pages'[l].rows = w
      BY <1>3, <2>2 DEF w
    <3> QED BY <2>2, <3>1, <1>11
  <2>3. CASE l \in 1 .. n
    <3>1. k \in 1 .. n /\ pages # <<>>
      BY <1>3, <2>3 DEF n
    <3>2. pages'[k] = pages[k] /\ pages'[l] = pages[l]
      BY <1>3, <2>3, <3>1
    <3> QED BY <2>3, <3>1, <3>2 DEF OInv, RowsInOrder, n
  <2> QED BY <1>3, <2>1, <2>2, <2>3
<1> QED BY <1>13, <1>14

LEMMA OInvGone ==
  ASSUME OInv, RowGone
  PROVE  ListInOrder' /\ RowsBehind' /\ RowsInOrder'
<1>1. PICK n \in 1 .. Len(list) : list' = RemoveAt(list, n)
  BY DEF RowGone
<1>2. UNCHANGED <<added, pc, ask, pages>>
  BY DEF RowGone
<1>3. list \in Seq(1 .. MaxRows) /\ added \in Nat
  BY DEF OInv, TInv, TypeOK
<1>4. /\ Len(list') = Len(list) - 1 /\ Len(list) \in Nat
      /\ \A i \in 1 .. Len(list) - 1 : list'[i] = IF i < n THEN list[i] ELSE list[i + 1]
      /\ \A i \in 1 .. Len(list) : list[i] \in Nat
  <2>1. Len(list) \in Nat /\ \A i \in 1 .. Len(list) : list[i] \in Nat
    BY <1>3, RowsAreNat
  <2>2. /\ Len(RemoveAt(list, n)) = Len(list) - 1
        /\ \A i \in 1 .. Len(list) - 1 :
             RemoveAt(list, n)[i] = IF i < n THEN list[i] ELSE list[i + 1]
    BY <1>3, RemoveFacts
  <2> QED BY <1>1, <2>1, <2>2
<1>5. ListInOrder'
  <2>1. ASSUME NEW i \in 1 .. Len(list'), NEW j \in 1 .. Len(list'), i < j
        PROVE  list'[i] < list'[j]
    BY <1>4, <2>1 DEF OInv, ListInOrder
  <2>2. ASSUME NEW i \in 1 .. Len(list') PROVE list'[i] <= added'
    BY <1>2, <1>4 DEF OInv, ListInOrder
  <2> QED BY <2>1, <2>2 DEF ListInOrder
<1>6. RowsInOrder'
  BY <1>2 DEF OInv, RowsInOrder, Downwards
<1>7. RowsBehind'
  <2> SUFFICES ASSUME pc = "reading", ~Downwards, NEW k \in 1 .. Len(pages),
                      NEW i \in 1 .. Len(pages[k].rows)
               PROVE  /\ pages[k].rows[i] <= added
                      /\ \A j \in 1 .. Len(list') :
                           j > Meant(Len(pages) + 1) => pages[k].rows[i] < list'[j]
    BY <1>2 DEF RowsBehind, Downwards, Meant
  <2>1. /\ pages[k].rows[i] <= added
        /\ \A j \in 1 .. Len(list) : j > Meant(Len(pages) + 1) => pages[k].rows[i] < list[j]
    BY DEF OInv, RowsBehind
  <2>2. Meant(Len(pages) + 1) \in Nat
    BY NextStarts, AskedFrom DEF OInv, TInv
  <2>3. ASSUME NEW j \in 1 .. Len(list'), j > Meant(Len(pages) + 1)
        PROVE  pages[k].rows[i] < list'[j]
    <3>1. CASE j < n
      BY <1>4, <2>1, <2>3, <3>1
    <3>2. CASE ~(j < n)
      <4>1. j + 1 \in 1 .. Len(list) /\ j + 1 > Meant(Len(pages) + 1) /\ list'[j] = list[j + 1]
        BY <1>4, <2>2, <2>3, <3>2
      <4> QED BY <2>1, <4>1
    <3> QED BY <3>1, <3>2
  <2> QED BY <2>1, <2>3
<1> QED BY <1>5, <1>6, <1>7

LEMMA OInvAdded ==
  ASSUME OInv, RowAdded
  PROVE  ListInOrder' /\ RowsBehind' /\ RowsInOrder'
<1>1. list' = Append(list, added + 1) /\ added' = added + 1 /\ UNCHANGED <<pc, ask, pages, gone>>
  BY DEF RowAdded
<1>2. list \in Seq(1 .. MaxRows) /\ added \in Nat
  BY DEF OInv, TInv, TypeOK
<1>3. /\ Len(list') = Len(list) + 1 /\ Len(list) \in Nat
      /\ \A i \in 1 .. Len(list) : list'[i] = list[i] /\ list[i] \in Nat
      /\ list'[Len(list) + 1] = added + 1
  <2>1. Len(list) \in Nat /\ \A i \in 1 .. Len(list) : list[i] \in Nat
    BY <1>2, RowsAreNat
  <2>2. /\ Len(list') = Len(list) + 1
        /\ \A i \in 1 .. Len(list) : list'[i] = list[i]
        /\ list'[Len(list) + 1] = added + 1
    BY <1>1, <1>2
  <2> QED BY <2>1, <2>2
<1>4. ListInOrder'
  BY <1>1, <1>2, <1>3 DEF OInv, ListInOrder
<1>5. RowsInOrder'
  BY <1>1 DEF OInv, RowsInOrder, Downwards
<1>6. RowsBehind'
  <2> SUFFICES ASSUME pc = "reading", ~Downwards, NEW k \in 1 .. Len(pages),
                      NEW i \in 1 .. Len(pages[k].rows)
               PROVE  /\ pages[k].rows[i] <= added + 1
                      /\ \A j \in 1 .. Len(list') :
                           j > Meant(Len(pages) + 1) => pages[k].rows[i] < list'[j]
    BY <1>1 DEF RowsBehind, Downwards, Meant
  <2>1. /\ pages[k].rows[i] <= added
        /\ \A j \in 1 .. Len(list) : j > Meant(Len(pages) + 1) => pages[k].rows[i] < list[j]
    BY DEF OInv, RowsBehind
  <2>2. pages[k].rows[i] \in Nat
    <3>1. pages[k] \in Page
      BY DEF OInv, TInv, TypeOK
    <3>2. pages[k].rows \in Seq(1 .. MaxRows)
      BY <3>1 DEF Page
    <3> QED BY <3>2, RowsAreNat
  <2>3. pages[k].rows[i] <= added + 1 /\ pages[k].rows[i] < added + 1
    BY <1>2, <2>1, <2>2
  <2>4. ASSUME NEW j \in 1 .. Len(list'), j > Meant(Len(pages) + 1)
        PROVE  pages[k].rows[i] < list'[j]
    <3>1. CASE j = Len(list) + 1
      BY <1>3, <2>3, <3>1
    <3>2. CASE j \in 1 .. Len(list)
      BY <1>3, <2>1, <2>4, <3>2
    <3> QED BY <1>3, <3>1, <3>2
  <2> QED BY <2>3, <2>4
<1> QED BY <1>4, <1>5, <1>6

LEMMA OInvInit == Init => OInv
<1> SUFFICES ASSUME Init PROVE ListInOrder /\ RowsBehind /\ RowsInOrder
  BY TInvInit DEF OInv
<1>1. added \in 0 .. MaxRows /\ list = [i \in 1 .. added |-> i]
  BY DEF Init
<1>2. ListInOrder
  BY <1>1, PagingAssumption DEF ListInOrder
<1> QED BY <1>2 DEF Init, RowsBehind, RowsInOrder

LEMMA OInvNext ==
  ASSUME PagedAsks
  PROVE  OInv /\ [Next]_vars => OInv'
<1> SUFFICES ASSUME OInv, [Next]_vars PROVE ListInOrder' /\ RowsBehind' /\ RowsInOrder'
  BY TInvNext DEF OInv
<1>1. CASE Ask
  <2>1. pages' = <<>> /\ UNCHANGED <<list, added>>
    BY <1>1 DEF OInv, TInv, AskFits, Ask
  <2> QED BY <2>1 DEF OInv, ListInOrder, RowsBehind, RowsInOrder
<1>2. CASE ReadPage
  BY <1>2, OInvRead
<1>3. CASE Refuse
  <2>1. pc' = "refused" /\ UNCHANGED <<list, added, ask, pages>>
    BY <1>3 DEF Refuse
  <2> QED BY <2>1 DEF OInv, ListInOrder, RowsBehind, RowsInOrder, Downwards
<1>4. CASE RowAdded
  BY <1>4, OInvAdded
<1>5. CASE RowGone
  BY <1>5, OInvGone
<1>6. CASE UNCHANGED vars
  BY <1>6 DEF OInv, ListInOrder, RowsBehind, RowsInOrder, Downwards, Meant, vars
<1> QED BY <1>1, <1>2, <1>3, <1>4, <1>5, <1>6 DEF Next

(* What the client was told, row by row.                                    *)
LEMMA ToldFacts ==
  /\ \A p \in Told : /\ p = <<p[1], p[2]>> /\ p[1] \in 1 .. Len(pages)
                     /\ p[2] \in 1 .. Len(pages[p[1]].rows)
  /\ \A k \in 1 .. Len(pages) : \A i \in 1 .. Len(pages[k].rows) :
       <<k, i>> \in Told /\ RowOf(<<k, i>>) = pages[k].rows[i]
BY DEF Told, RowOf

LEMMA RowsInOrderTold ==
  ASSUME RowsInOrder
  PROVE  UpwardsInOrder
<1> SUFFICES ASSUME pages # <<>>, ~Downwards, NEW p \in Told, NEW q \in Told, Before(p, q)
             PROVE  RowOf(p) < RowOf(q)
  BY DEF UpwardsInOrder
<1>1. /\ p[1] \in 1 .. Len(pages) /\ p[2] \in 1 .. Len(pages[p[1]].rows)
      /\ q[1] \in 1 .. Len(pages) /\ q[2] \in 1 .. Len(pages[q[1]].rows)
  BY ToldFacts
<1> QED BY <1>1 DEF RowsInOrder, Before, RowOf

(* Reading upwards, a client sees every row after the ones before it, and   *)
(* none twice, whatever happens to the list between two pages.              *)
THEOREM UpwardsNothingTwice ==
  ASSUME PagedAsks
  PROVE  Spec => []UpwardsInOrder
<1>1. OInv => UpwardsInOrder
  BY RowsInOrderTold DEF OInv
<1> QED BY OInvInit, OInvNext, <1>1, PTL DEF Spec

-----------------------------------------------------------------------------
(* A list that is read up to a place while rows come and go.                *)
Passed(s, n) == {s[i] : i \in {j \in 1 .. Len(s) : j <= n}}
Rest(s, n) == {s[i] : i \in {j \in 1 .. Len(s) : j > n}}
Distinct(s) == \A i, j \in 1 .. Len(s) : s[i] = s[j] => i = j

Shortened(s, t) ==
  /\ Len(t) = Len(s) - 1
  /\ \E m \in 1 .. Len(s) : \A i \in 1 .. Len(t) : t[i] = IF i < m THEN s[i] ELSE s[i + 1]

Lengthened(s, t, x) ==
  /\ Len(t) = Len(s) + 1
  /\ \E m \in 1 .. Len(t) : \A i \in 1 .. Len(t) :
       t[i] = IF i < m THEN s[i] ELSE IF i = m THEN x ELSE s[i - 1]

LEMMA SetOfSeq ==
  ASSUME NEW S, NEW s \in Seq(S)
  PROVE  ToSet(s) = {s[i] : i \in 1 .. Len(s)} /\ Len(s) \in Nat
BY DEF ToSet

(* A row that disappears moves at most one row into the part that was read, *)
(* and none out of it.                                                      *)
LEMMA ShortenedMoves ==
  ASSUME NEW S, NEW s \in Seq(S), NEW t \in Seq(S), Shortened(s, t), NEW n \in Nat
  PROVE  /\ Passed(t, n) \subseteq Passed(s, n) \cup {s[n + 1]}
         /\ Rest(t, n) \subseteq Rest(s, n)
         /\ ToSet(t) \subseteq ToSet(s)
<1>1. PICK m \in 1 .. Len(s) :
        \A i \in 1 .. Len(t) : t[i] = IF i < m THEN s[i] ELSE s[i + 1]
  BY DEF Shortened
<1>2. Len(t) = Len(s) - 1 /\ Len(s) \in Nat /\ Len(t) \in Nat
  BY DEF Shortened
<1>3. ASSUME NEW i \in 1 .. Len(t), i <= n
      PROVE  t[i] \in Passed(s, n) \cup {s[n + 1]}
  <2>1. CASE i < m
    BY <1>1, <1>2, <1>3, <2>1 DEF Passed
  <2>2. CASE ~(i < m) /\ i < n
    <3>1. t[i] = s[i + 1] /\ i + 1 \in 1 .. Len(s) /\ i + 1 <= n
      BY <1>1, <1>2, <1>3, <2>2
    <3> QED BY <3>1 DEF Passed
  <2>3. CASE ~(i < m) /\ i = n
    BY <1>1, <1>3, <2>3
  <2> QED BY <1>3, <2>1, <2>2, <2>3
<1>4. ASSUME NEW i \in 1 .. Len(t), i > n
      PROVE  t[i] \in Rest(s, n)
  <2>1. CASE i < m
    BY <1>1, <1>2, <1>4, <2>1 DEF Rest
  <2>2. CASE ~(i < m)
    <3>1. t[i] = s[i + 1] /\ i + 1 \in 1 .. Len(s) /\ i + 1 > n
      BY <1>1, <1>2, <1>4, <2>2
    <3> QED BY <3>1 DEF Rest
  <2> QED BY <2>1, <2>2
<1>5. ASSUME NEW i \in 1 .. Len(t) PROVE t[i] \in {s[j] : j \in 1 .. Len(s)}
  <2>1. i \in 1 .. Len(s) /\ i + 1 \in 1 .. Len(s)
    BY <1>2
  <2> QED BY <1>1, <2>1
<1>6. Passed(t, n) \subseteq Passed(s, n) \cup {s[n + 1]}
  BY <1>3 DEF Passed
<1>7. Rest(t, n) \subseteq Rest(s, n)
  BY <1>4 DEF Rest
<1>8. ToSet(t) \subseteq ToSet(s)
  BY <1>5, SetOfSeq
<1> QED BY <1>6, <1>7, <1>8

(* A row that is added moves at most one row out of the part that was read, *)
(* and at most itself into it.                                              *)
LEMMA LengthenedMoves ==
  ASSUME NEW S, NEW s \in Seq(S), NEW t \in Seq(S), NEW x, Lengthened(s, t, x), NEW n \in Nat
  PROVE  /\ Passed(t, n) \subseteq Passed(s, n) \cup {x}
         /\ \E y : Rest(t, n) \subseteq Rest(s, n) \cup {y}
         /\ ToSet(t) \subseteq ToSet(s) \cup {x}
<1>1. PICK m \in 1 .. Len(t) :
        \A i \in 1 .. Len(t) : t[i] = IF i < m THEN s[i] ELSE IF i = m THEN x ELSE s[i - 1]
  BY DEF Lengthened
<1>2. Len(t) = Len(s) + 1 /\ Len(s) \in Nat /\ Len(t) \in Nat
  BY DEF Lengthened
<1>3. ASSUME NEW i \in 1 .. Len(t), i <= n
      PROVE  t[i] \in Passed(s, n) \cup {x}
  <2>1. CASE i < m
    <3>1. t[i] = s[i] /\ i \in 1 .. Len(s)
      BY <1>1, <1>2, <2>1
    <3> QED BY <1>3, <3>1 DEF Passed
  <2>2. CASE i = m
    BY <1>1, <2>2
  <2>3. CASE i > m
    <3>1. t[i] = s[i - 1] /\ i - 1 \in 1 .. Len(s) /\ i - 1 <= n
      BY <1>1, <1>2, <1>3, <2>3
    <3> QED BY <3>1 DEF Passed
  <2> QED BY <2>1, <2>2, <2>3
<1> DEFINE y == IF n + 1 < m THEN x ELSE t[n + 1]
<1>4. ASSUME NEW i \in 1 .. Len(t), i > n
      PROVE  t[i] \in Rest(s, n) \cup {y}
  <2>1. CASE i < m
    <3>1. t[i] = s[i] /\ i \in 1 .. Len(s)
      BY <1>1, <1>2, <2>1
    <3> QED BY <1>4, <3>1 DEF Rest
  <2>2. CASE i = m
    <3>1. CASE n + 1 < m
      BY <1>1, <2>2, <3>1
    <3>2. CASE ~(n + 1 < m)
      <4>1. i = n + 1
        BY <1>4, <2>2, <3>2
      <4> QED BY <3>2, <4>1
    <3> QED BY <3>1, <3>2
  <2>3. CASE i > m
    <3>1. t[i] = s[i - 1] /\ i - 1 \in 1 .. Len(s)
      BY <1>1, <1>2, <1>4, <2>3
    <3>2. CASE i = n + 1
      <4>1. ~(n + 1 < m)
        BY <2>3, <3>2
      <4> QED BY <3>2, <4>1
    <3>3. CASE i # n + 1
      <4>1. i - 1 > n
        BY <1>4, <3>3
      <4> QED BY <3>1, <4>1 DEF Rest
    <3> QED BY <3>2, <3>3
  <2> QED BY <2>1, <2>2, <2>3
<1>5. ASSUME NEW i \in 1 .. Len(t) PROVE t[i] \in {s[j] : j \in 1 .. Len(s)} \cup {x}
  <2>1. i < m => i \in 1 .. Len(s)
    BY <1>2
  <2>2. i > m => i - 1 \in 1 .. Len(s)
    BY <1>2
  <2> QED BY <1>1, <2>1, <2>2
<1> HIDE DEF y
<1>6. Passed(t, n) \subseteq Passed(s, n) \cup {x}
  BY <1>3 DEF Passed
<1>7. Rest(t, n) \subseteq Rest(s, n) \cup {y}
  BY <1>4 DEF Rest
<1>8. ToSet(t) \subseteq ToSet(s) \cup {x}
  BY <1>5, SetOfSeq
<1> QED BY <1>6, <1>7, <1>8

(* A window is what lies between two places.                                *)
LEMMA WindowCovers ==
  ASSUME NEW S, NEW s \in Seq(S), NEW start \in Nat, NEW count \in Nat
  PROVE  /\ \A j \in 1 .. Len(s) : start < j /\ j <= start + count =>
              /\ j - start \in 1 .. Len(Window(s, start, count))
              /\ Window(s, start, count)[j - start] = s[j]
         /\ Len(Window(s, start, count)) < count => Len(s) < start + count
<1> DEFINE w == Window(s, start, count)
<1>1. /\ w \in Seq(S)
      /\ \A i \in 1 .. Len(w) : start + i \in 1 .. Len(s) /\ w[i] = s[start + i]
  BY WindowFacts
<1>2. Len(s) \in Nat /\ Len(w) \in Nat
  BY <1>1
<1>3. Len(w) = IF start + count < Len(s) THEN count
               ELSE IF start < Len(s) THEN Len(s) - start ELSE 0
  BY <1>2 DEF Window
<1> HIDE DEF w
<1>4. ASSUME NEW j \in 1 .. Len(s), start < j, j <= start + count
      PROVE  j - start \in 1 .. Len(w) /\ w[j - start] = s[j]
  <2>1. j - start \in 1 .. Len(w) /\ start + (j - start) = j
    BY <1>2, <1>3, <1>4
  <2> QED BY <1>1, <2>1
<1>5. Len(w) < count => Len(s) < start + count
  BY <1>2, <1>3
<1> QED BY <1>4, <1>5 DEF w

LEMMA WindowReads ==
  ASSUME NEW S, NEW s \in Seq(S), NEW n \in Nat, NEW c \in Nat
  PROVE  LET w == Window(s, n, c)
         IN /\ ToSet(w) \subseteq Rest(s, n)
            /\ Passed(s, n + c) \subseteq Passed(s, n) \cup ToSet(w)
            /\ Rest(s, n + c) \subseteq Rest(s, n)
            /\ Len(w) < c => ToSet(s) \subseteq Passed(s, n + c)
            /\ Distinct(s) => Distinct(w) /\ Rest(s, n + c) \cap ToSet(w) = {}
<1> DEFINE w == Window(s, n, c)
<1>1. /\ w \in Seq(S) /\ Len(w) <= c
      /\ \A i \in 1 .. Len(w) : n + i \in 1 .. Len(s) /\ w[i] = s[n + i]
  BY WindowFacts
<1>2. /\ \A j \in 1 .. Len(s) : n < j /\ j <= n + c =>
           j - n \in 1 .. Len(w) /\ w[j - n] = s[j]
      /\ Len(w) < c => Len(s) < n + c
  BY WindowCovers
<1> HIDE DEF w
<1>3. /\ Len(s) \in Nat /\ Len(w) \in Nat
      /\ ToSet(w) = {w[i] : i \in 1 .. Len(w)} /\ ToSet(s) = {s[i] : i \in 1 .. Len(s)}
  BY <1>1, SetOfSeq
<1>4. ToSet(w) \subseteq Rest(s, n)
  <2>1. ASSUME NEW i \in 1 .. Len(w) PROVE w[i] \in Rest(s, n)
    <3>1. n + i \in 1 .. Len(s) /\ n + i > n /\ w[i] = s[n + i]
      BY <1>1, <1>3
    <3> QED BY <3>1 DEF Rest
  <2> QED BY <1>3, <2>1
<1>5. Passed(s, n + c) \subseteq Passed(s, n) \cup ToSet(w)
  <2>1. ASSUME NEW j \in 1 .. Len(s), j <= n + c PROVE s[j] \in Passed(s, n) \cup ToSet(w)
    <3>1. CASE j <= n
      BY <3>1 DEF Passed
    <3>2. CASE ~(j <= n)
      <4>1. j - n \in 1 .. Len(w) /\ w[j - n] = s[j]
        BY <1>2, <2>1, <3>2
      <4> QED BY <1>3, <4>1
    <3> QED BY <3>1, <3>2
  <2> QED BY <2>1 DEF Passed
<1>6. Rest(s, n + c) \subseteq Rest(s, n)
  <2>1. ASSUME NEW j \in 1 .. Len(s), j > n + c PROVE s[j] \in Rest(s, n)
    BY <2>1 DEF Rest
  <2> QED BY <2>1 DEF Rest
<1>7. Len(w) < c => ToSet(s) \subseteq Passed(s, n + c)
  BY <1>2, <1>3 DEF Passed
<1>8. ASSUME Distinct(s) PROVE Distinct(w) /\ Rest(s, n + c) \cap ToSet(w) = {}
  <2>1. Distinct(w)
    <3> SUFFICES ASSUME NEW i \in 1 .. Len(w), NEW j \in 1 .. Len(w), w[i] = w[j] PROVE i = j
      BY DEF Distinct
    <3>1. n + i = n + j
      BY <1>1, <1>8 DEF Distinct
    <3> QED BY <3>1
  <2>2. ASSUME NEW j \in 1 .. Len(s), j > n + c, NEW i \in 1 .. Len(w), s[j] = w[i] PROVE FALSE
    <3>1. n + i = j
      BY <1>1, <1>8, <2>2 DEF Distinct
    <3> QED BY <1>1, <1>3, <2>2, <3>1
  <2> QED BY <1>3, <2>1, <2>2 DEF Rest
<1> QED BY <1>4, <1>5, <1>6, <1>7, <1>8 DEF w

-----------------------------------------------------------------------------
(* Counting.                                                                *)
LEMMA OneMore ==
  ASSUME NEW A, NEW B, NEW y, IsFiniteSet(A), B \subseteq A \cup {y}
  PROVE  /\ IsFiniteSet(B) /\ Cardinality(B) \in Nat /\ Cardinality(A) \in Nat
         /\ Cardinality(B) <= Cardinality(A) + 1
<1>1. /\ IsFiniteSet(A \cup {y}) /\ Cardinality(A) \in Nat
      /\ Cardinality(A \cup {y}) \in {Cardinality(A), Cardinality(A) + 1}
  BY FS_AddElement, FS_CardinalityType
<1>2. IsFiniteSet(B) /\ Cardinality(B) <= Cardinality(A \cup {y})
  BY <1>1, FS_Subset
<1>3. Cardinality(B) \in Nat
  BY <1>2, FS_CardinalityType
<1> QED BY <1>1, <1>2, <1>3

LEMMA NoMore ==
  ASSUME NEW A, NEW B, IsFiniteSet(A), B \subseteq A
  PROVE  /\ IsFiniteSet(B) /\ Cardinality(B) \in Nat /\ Cardinality(A) \in Nat
         /\ Cardinality(B) <= Cardinality(A)
BY FS_Subset, FS_CardinalityType

LEMMA Disjoint ==
  ASSUME NEW A, NEW B, NEW C, IsFiniteSet(C), A \subseteq C, B \subseteq C, A \cap B = {}
  PROVE  /\ Cardinality(A) \in Nat /\ Cardinality(B) \in Nat /\ Cardinality(C) \in Nat
         /\ Cardinality(A) + Cardinality(B) <= Cardinality(C)
<1>1. IsFiniteSet(A) /\ IsFiniteSet(B)
  BY NoMore
<1>2. Cardinality(A \cup B) = Cardinality(A) + Cardinality(B)
  <2>1. Cardinality(A \cup B) = Cardinality(A) + Cardinality(B) - Cardinality(A \cap B)
    BY <1>1, FS_Union
  <2>2. Cardinality(A) \in Nat /\ Cardinality(B) \in Nat /\ Cardinality(A \cap B) = 0
    BY <1>1, FS_CardinalityType, FS_EmptySet
  <2> QED BY <2>1, <2>2
<1>3. Cardinality(A \cup B) <= Cardinality(C)
  BY FS_Subset
<1> QED BY <1>1, <1>2, <1>3, FS_CardinalityType

-----------------------------------------------------------------------------
(* The list in the order the client reads it.                               *)
Rows == 1 .. MaxRows

LEMMA TurnedFacts ==
  ASSUME TInv, ListInOrder
  PROVE  /\ Turned(list) \in Seq(Rows) /\ Distinct(Turned(list))
         /\ ToSet(Turned(list)) = ToSet(list)
         /\ \A r \in ToSet(list) : r <= added
<1>1. list \in Seq(Rows)
  BY DEF TInv, TypeOK, Rows
<1>2. Len(list) \in Nat /\ \A i \in 1 .. Len(list) : list[i] \in Nat
  BY <1>1, RowsAreNat DEF Rows
<1>3. ToSet(list) = {list[i] : i \in 1 .. Len(list)}
  BY <1>1, SetOfSeq
<1>4. Distinct(list)
  <2> SUFFICES ASSUME NEW i \in 1 .. Len(list), NEW j \in 1 .. Len(list), i < j, list[i] = list[j]
               PROVE  FALSE
    BY <1>2 DEF Distinct
  <2> QED BY <1>2 DEF ListInOrder
<1>5. CASE ~Downwards
  BY <1>1, <1>3, <1>4, <1>5 DEF Turned, ListInOrder
<1>6. CASE Downwards
  <2>1. Turned(list) = Reverse(list)
    BY <1>6 DEF Turned
  <2>2. /\ Turned(list) \in Seq(Rows) /\ Len(Turned(list)) = Len(list)
        /\ \A i \in 1 .. Len(list) : Turned(list)[i] = list[Len(list) + 1 - i]
    BY <1>1, <2>1, ReverseFacts
  <2>3. Distinct(Turned(list))
    <3> SUFFICES ASSUME NEW i \in 1 .. Len(list), NEW j \in 1 .. Len(list),
                        Turned(list)[i] = Turned(list)[j]
                 PROVE  i = j
      BY <2>2 DEF Distinct
    <3>1. Len(list) + 1 - i \in 1 .. Len(list) /\ Len(list) + 1 - j \in 1 .. Len(list)
      BY <1>2
    <3>2. Len(list) + 1 - i = Len(list) + 1 - j
      BY <1>4, <2>2, <3>1 DEF Distinct
    <3> QED BY <1>2, <3>2
  <2>4. ToSet(Turned(list)) = ToSet(list)
    <3>1. ToSet(Turned(list)) = {Turned(list)[i] : i \in 1 .. Len(list)}
      BY <2>2, SetOfSeq
    <3>2. \A i \in 1 .. Len(list) : Len(list) + 1 - i \in 1 .. Len(list)
                                    /\ Len(list) + 1 - (Len(list) + 1 - i) = i
      BY <1>2
    <3>3. \A i \in 1 .. Len(list) : list[i] = Turned(list)[Len(list) + 1 - i]
      BY <2>2, <3>2
    <3>4. \A i \in 1 .. Len(list) : Turned(list)[i] \in ToSet(list)
      BY <1>3, <2>2, <3>2
    <3>5. \A i \in 1 .. Len(list) : list[i] \in ToSet(Turned(list))
      BY <3>1, <3>2, <3>3
    <3> QED BY <1>3, <3>1, <3>4, <3>5
  <2>5. \A r \in ToSet(list) : r <= added
    BY <1>3 DEF ListInOrder
  <2> QED BY <2>2, <2>3, <2>4, <2>5
<1> QED BY <1>5, <1>6

(* Read from the other end, a list changes as much.                         *)
LEMMA ReverseShortened ==
  ASSUME NEW S, NEW s \in Seq(S), NEW t \in Seq(S), Shortened(s, t)
  PROVE  Shortened(Reverse(s), Reverse(t))
<1> DEFINE r == Reverse(s)
           u == Reverse(t)
<1>1. PICK n \in 1 .. Len(s) :
        \A i \in 1 .. Len(t) : t[i] = IF i < n THEN s[i] ELSE s[i + 1]
  BY DEF Shortened
<1>2. PICK N \in Nat : N = Len(s) /\ Len(t) = N - 1 /\ n \in 1 .. N
  BY DEF Shortened
<1>3. Len(r) = N /\ \A i \in 1 .. N : r[i] = s[N + 1 - i]
  BY <1>2, ReverseFacts
<1>4. Len(u) = N - 1 /\ \A i \in 1 .. N - 1 : u[i] = t[(N - 1) + 1 - i]
  <2>1. Len(u) = Len(t) /\ \A i \in 1 .. Len(t) : u[i] = t[Len(t) + 1 - i]
    BY ReverseFacts
  <2> QED BY <1>2, <2>1
<1> HIDE DEF r, u
<1>5. ASSUME NEW i \in 1 .. N - 1
      PROVE  u[i] = IF i < N + 1 - n THEN r[i] ELSE r[i + 1]
  <2>1. /\ i \in 1 .. N /\ i + 1 \in 1 .. N
        /\ (N - 1) + 1 - i = N - i /\ N - i \in 1 .. N - 1
        /\ (N - i) + 1 = N + 1 - i
        /\ N + 1 - (i + 1) = N - i
        /\ (N - i < n) <=> ~(i < N + 1 - n)
    BY <1>2
  <2>2. u[i] = IF N - i < n THEN s[N - i] ELSE s[(N - i) + 1]
    BY <1>1, <1>2, <1>4, <2>1
  <2>3. r[i] = s[N + 1 - i] /\ r[i + 1] = s[N - i]
    BY <1>3, <2>1
  <2> QED BY <2>1, <2>2, <2>3
<1>6. N + 1 - n \in 1 .. N
  BY <1>2
<1>7. Shortened(r, u)
  BY <1>3, <1>4, <1>5, <1>6 DEF Shortened
<1> QED BY <1>7 DEF r, u

LEMMA ReverseAppended ==
  ASSUME NEW S, NEW s \in Seq(S), NEW x \in S
  PROVE  Lengthened(Reverse(s), Reverse(Append(s, x)), x)
<1> DEFINE t == Append(s, x)
           r == Reverse(s)
           u == Reverse(t)
<1>1. PICK N \in Nat : N = Len(s)
  OBVIOUS
<1>2. t \in Seq(S) /\ Len(t) = N + 1 /\ t[N + 1] = x /\ \A i \in 1 .. N : t[i] = s[i]
  BY <1>1
<1> HIDE DEF t
<1>3. Len(r) = N /\ \A i \in 1 .. N : r[i] = s[N + 1 - i]
  BY <1>1, ReverseFacts
<1>4. Len(u) = N + 1 /\ \A i \in 1 .. N + 1 : u[i] = t[(N + 1) + 1 - i]
  BY <1>2, ReverseFacts
<1> HIDE DEF r, u
<1>5. ASSUME NEW i \in 1 .. N + 1
      PROVE  u[i] = IF i < 1 THEN r[i] ELSE IF i = 1 THEN x ELSE r[i - 1]
  <2>1. CASE i = 1
    <3>1. (N + 1) + 1 - i = N + 1
      BY <1>1, <2>1
    <3> QED BY <1>2, <1>4, <2>1, <3>1
  <2>2. CASE i # 1
    <3>1. /\ i - 1 \in 1 .. N /\ (N + 1) + 1 - i \in 1 .. N
          /\ N + 1 - (i - 1) = (N + 1) + 1 - i /\ ~(i < 1)
      BY <2>2
    <3>2. u[i] = s[(N + 1) + 1 - i] /\ r[i - 1] = s[N + 1 - (i - 1)]
      BY <1>2, <1>3, <1>4, <3>1
    <3> QED BY <2>2, <3>1, <3>2
  <2> QED BY <2>1, <2>2
<1>6. 1 \in 1 .. N + 1
  OBVIOUS
<1>7. Lengthened(r, u, x)
  BY <1>3, <1>4, <1>5, <1>6 DEF Lengthened
<1> QED BY <1>7 DEF r, u, t

LEMMA Appended ==
  ASSUME NEW S, NEW s \in Seq(S), NEW x \in S
  PROVE  Lengthened(s, Append(s, x), x)
<1>1. PICK t : t = Append(s, x)
  OBVIOUS
<1>2. PICK N \in Nat : N = Len(s)
  OBVIOUS
<1>3. Len(t) = N + 1 /\ t[N + 1] = x /\ \A i \in 1 .. N : t[i] = s[i]
  BY <1>1, <1>2
<1>4. \A i \in 1 .. N + 1 :
        t[i] = IF i < N + 1 THEN s[i] ELSE IF i = N + 1 THEN x ELSE s[i - 1]
  BY <1>3
<1>5. Lengthened(s, t, x)
  <2>1. N + 1 \in 1 .. Len(t) /\ Len(t) = Len(s) + 1
    BY <1>2, <1>3
  <2>2. \E m \in 1 .. Len(t) : \A i \in 1 .. Len(t) :
          t[i] = IF i < m THEN s[i] ELSE IF i = m THEN x ELSE s[i - 1]
    BY <1>3, <1>4, <2>1
  <2> QED BY <2>1, <2>2 DEF Lengthened
<1> QED BY <1>1, <1>5, Zenon

LEMMA TurnedGone ==
  ASSUME TInv, RowGone
  PROVE  /\ Turned(list)' \in Seq(Rows)
         /\ Shortened(Turned(list), Turned(list)') /\ Shortened(list, list')
<1>1. list \in Seq(Rows) /\ ask' = ask
  BY DEF TInv, TypeOK, Rows, RowGone
<1>2. PICK n \in 1 .. Len(list) : list' = RemoveAt(list, n)
  BY DEF RowGone
<1>3. /\ RemoveAt(list, n) \in Seq(Rows) /\ Len(RemoveAt(list, n)) = Len(list) - 1
      /\ \A i \in 1 .. Len(list) - 1 :
           RemoveAt(list, n)[i] = IF i < n THEN list[i] ELSE list[i + 1]
  BY <1>1, RemoveFacts
<1>4. Shortened(list, RemoveAt(list, n))
  BY <1>3 DEF Shortened
<1>5. Turned(list)' = IF Downwards THEN Reverse(RemoveAt(list, n)) ELSE RemoveAt(list, n)
  BY <1>1, <1>2 DEF Turned, Downwards
<1>6. CASE ~Downwards
  <2>1. Turned(list) = list /\ Turned(list)' = RemoveAt(list, n)
    BY <1>5, <1>6 DEF Turned
  <2> QED BY <1>2, <1>3, <1>4, <2>1
<1>7. CASE Downwards
  <2>1. Shortened(Reverse(list), Reverse(RemoveAt(list, n)))
    BY <1>1, <1>3, <1>4, ReverseShortened
  <2>2. Reverse(RemoveAt(list, n)) \in Seq(Rows)
    BY <1>3, ReverseFacts
  <2>3. Turned(list) = Reverse(list) /\ Turned(list)' = Reverse(RemoveAt(list, n))
    BY <1>5, <1>7 DEF Turned
  <2> QED BY <1>2, <1>4, <2>1, <2>2, <2>3
<1> QED BY <1>6, <1>7

LEMMA TurnedAdded ==
  ASSUME TInv, RowAdded
  PROVE  /\ Turned(list)' \in Seq(Rows)
         /\ Lengthened(Turned(list), Turned(list)', added + 1)
         /\ Lengthened(list, list', added + 1)
<1>1. list \in Seq(Rows) /\ added + 1 \in Rows /\ ask' = ask
  BY PagingAssumption DEF TInv, TypeOK, Rows, RowAdded
<1>2. list' = Append(list, added + 1) /\ Append(list, added + 1) \in Seq(Rows)
  BY <1>1 DEF RowAdded
<1>3. Turned(list)' = IF Downwards THEN Reverse(Append(list, added + 1))
                      ELSE Append(list, added + 1)
  BY <1>1, <1>2 DEF Turned, Downwards
<1> QED
  BY <1>1, <1>2, <1>3, Appended, ReverseAppended, ReverseFacts DEF Turned

(* What a new page adds to what the client was told.                        *)
Again(n, w) == {q \in {n} \X (1 .. Len(w)) : w[q[2]] \in Read}

LEMMA PageTold ==
  ASSUME pages \in Seq(Page), NEW p \in Page, pages' = Append(pages, p)
  PROVE  /\ Read' = Read \cup ToSet(p.rows)
         /\ Distinct(p.rows) => Repeats' = Repeats \cup Again(Len(pages) + 1, p.rows)
<1>0. PICK n \in Nat : n = Len(pages)
  OBVIOUS
<1> DEFINE w == p.rows
           New == {n + 1} \X (1 .. Len(w))
<1>1. /\ n = Len(pages) /\ Len(pages') = n + 1 /\ pages'[n + 1] = p
      /\ \A k \in 1 .. n : pages'[k] = pages[k]
  BY <1>0
<1>2. w \in Seq(Rows)
  BY DEF Page, Rows
<1>3. ToSet(w) = {w[i] : i \in 1 .. Len(w)} /\ Len(w) \in Nat
  BY <1>2, SetOfSeq
<1> HIDE DEF w
<1>4. Told' = Told \cup New
  BY <1>1 DEF Told, w
<1>5. \A q \in Told : RowOf(q)' = RowOf(q) /\ q[1] \in 1 .. n
  <2> SUFFICES ASSUME NEW q \in Told PROVE RowOf(q)' = RowOf(q) /\ q[1] \in 1 .. n
    OBVIOUS
  <2>1. q[1] \in 1 .. n
    BY <1>1, ToldFacts
  <2> QED BY <1>1, <2>1 DEF RowOf
<1>6. \A q \in New : RowOf(q)' = w[q[2]] /\ q[1] = n + 1 /\ q[2] \in 1 .. Len(w)
                     /\ q = <<n + 1, q[2]>>
  BY <1>1 DEF RowOf, w
<1>7. Read' = Read \cup ToSet(w)
  <2>1. \A q \in Told' : RowOf(q)' \in Read \cup ToSet(w)
    BY <1>3, <1>4, <1>5, <1>6 DEF Read
  <2>2. \A r \in Read : \E q \in Told' : RowOf(q)' = r
    BY <1>4, <1>5 DEF Read
  <2>3. ASSUME NEW i \in 1 .. Len(w) PROVE \E q \in Told' : RowOf(q)' = w[i]
    <3>1. <<n + 1, i>> \in New
      OBVIOUS
    <3>2. RowOf(<<n + 1, i>>)' = w[i]
      BY <1>1 DEF RowOf, w
    <3> QED BY <1>4, <3>1, <3>2
  <2>4. \A r : r \in Read' <=> \E q \in Told' : RowOf(q)' = r
    BY DEF Read
  <2> HIDE DEF New
  <2>5. \A r \in Read' : r \in Read \cup ToSet(w)
    BY <2>1, <2>4
  <2>6. \A r \in ToSet(w) : r \in Read'
    BY <1>3, <2>3, <2>4
  <2>7. \A r \in Read : r \in Read'
    BY <2>2, <2>4
  <2> QED BY <2>5, <2>6, <2>7
<1>8. ASSUME Distinct(w) PROVE Repeats' = Repeats \cup Again(n + 1, w)
  <2>1. Repeats' = {q \in Told' : \E r \in Told' : Before(r, q) /\ RowOf(r)' = RowOf(q)'}
    BY DEF Repeats, Before
  <2>2. ASSUME NEW q \in Told PROVE q \in Repeats' <=> q \in Repeats
    <3>1. \A r \in New : ~Before(r, q)
      BY <1>1, <1>5, <1>6 DEF Before
    <3> QED BY <1>4, <1>5, <2>1, <3>1 DEF Repeats
  <2>3. ASSUME NEW q \in New PROVE q \in Repeats' <=> w[q[2]] \in Read
    <3>1. \A r \in Told : Before(r, q)
      BY <1>1, <1>5, <1>6 DEF Before
    <3>2. \A r \in New : Before(r, q) => w[r[2]] # w[q[2]]
      BY <1>1, <1>3, <1>6, <1>8 DEF Before, Distinct
    <3>3. w[q[2]] \in Read <=> \E r \in Told : RowOf(r)' = w[q[2]]
      BY <1>5 DEF Read
    <3> QED BY <1>4, <1>6, <2>1, <3>1, <3>2, <3>3
  <2>4. Repeats \subseteq Told /\ Again(n + 1, w) \subseteq New /\ Repeats' \subseteq Told'
    BY <2>1 DEF Repeats, Again
  <2>5. \A q \in New : q \in Again(n + 1, w) <=> w[q[2]] \in Read
    BY DEF Again
  <2>6. \A q \in New : q \notin Told
    BY <1>1, <1>5, <1>6
  <2> HIDE DEF New
  <2> QED BY <1>4, <2>2, <2>3, <2>4, <2>5, <2>6
<1> QED BY <1>1, <1>7, <1>8 DEF w

(* A page repeats as many rows as it has that were read.                    *)
LEMMA AgainCount ==
  ASSUME NEW n, NEW w \in Seq(Rows), Distinct(w)
  PROVE  /\ IsFiniteSet(Again(n, w))
         /\ Cardinality(Again(n, w)) \in Nat
         /\ Cardinality(Again(n, w)) <= Cardinality(ToSet(w) \cap Read)
<1> DEFINE A == Again(n, w)
           B == ToSet(w) \cap Read
           f == [q \in A |-> w[q[2]]]
<1>1. ToSet(w) = {w[i] : i \in 1 .. Len(w)} /\ \A i \in 1 .. Len(w) : w[i] \in Rows
  BY SetOfSeq
<1>2. \A q \in A : q[2] \in 1 .. Len(w) /\ w[q[2]] \in B /\ q = <<n, q[2]>>
  BY <1>1 DEF Again
<1>3. IsFiniteSet(B)
  <2>1. MaxRows \in Int /\ IsFiniteSet(Rows)
    BY PagingAssumption, FS_Interval DEF Rows
  <2>2. B \subseteq Rows
    BY <1>1
  <2> QED BY <2>1, <2>2, NoMore
<1> HIDE DEF A, B
<1>4. f \in Injection(A, B)
  <2>1. f \in [A -> B]
    BY <1>2
  <2>2. \A p, q \in A : f[p] = f[q] => p = q
    <3> SUFFICES ASSUME NEW p \in A, NEW q \in A, f[p] = f[q] PROVE p = q
      OBVIOUS
    <3>1. p[2] = q[2]
      BY <1>2 DEF Distinct
    <3> QED BY <1>2, <3>1
  <2> QED BY <2>1, <2>2 DEF Injection, IsInjective
<1> QED BY <1>3, <1>4, FS_Injection, FS_CardinalityType DEF A, B

-----------------------------------------------------------------------------
(* What a client misses, and what it is told twice, while it reads on.      *)
Start == Meant(Len(pages) + 1)

(* What is due lay in the list when the first page was read.  So much of it *)
(* as has moved past the client, unread, was moved by a row that is gone.   *)
DueFits == pages # <<>> => Due \subseteq 1 .. added

MissedSoFar ==
  pages # <<>> /\ pc = "reading" =>
    Cardinality((Due \cap Passed(Turned(list), Start)) \ Read) <= gone

(* Each row that was read and will be read again makes a repeat, and a row  *)
(* that is added puts at most one into that position.                       *)
Repeating == IF pc = "reading" THEN Rest(Turned(list), Start) \cap Read ELSE {}

RepeatsSoFar ==
  pages # <<>> /\ Downwards =>
    /\ IsFiniteSet(Repeats)
    /\ Cardinality(Repeats) + Cardinality(Repeating) <= added - pages[1].added

EndRead == pc = "end" => pages # <<>>

PInv ==
  /\ OInv
  /\ EndRead
  /\ DueFits
  /\ MissedSoFar
  /\ MissesAtMostGone
  /\ RepeatsSoFar

LEMMA InRows ==
  ASSUME NEW s \in Seq(Rows), NEW n \in Nat
  PROVE  /\ IsFiniteSet(Rows)
         /\ Passed(s, n) \subseteq Rows /\ Rest(s, n) \subseteq ToSet(s) /\ ToSet(s) \subseteq Rows
<1>1. MaxRows \in Int /\ IsFiniteSet(Rows)
  BY PagingAssumption, FS_Interval DEF Rows
<1>2. ToSet(s) = {s[i] : i \in 1 .. Len(s)} /\ \A i \in 1 .. Len(s) : s[i] \in Rows
  BY SetOfSeq
<1>3. Passed(s, n) \subseteq Rows
  BY <1>2 DEF Passed
<1>4. Rest(s, n) \subseteq ToSet(s)
  BY <1>2 DEF Rest
<1> QED BY <1>1, <1>2, <1>3, <1>4

LEMMA PassedOrRest ==
  ASSUME NEW S, NEW s \in Seq(S), Distinct(s), NEW n \in Nat
  PROVE  Passed(s, n) \cap Rest(s, n) = {}
<1>1. ASSUME NEW i \in 1 .. Len(s), i <= n, NEW j \in 1 .. Len(s), j > n, s[i] = s[j]
      PROVE  FALSE
  BY <1>1 DEF Distinct
<1> QED BY <1>1 DEF Passed, Rest

LEMMA NothingTold ==
  ASSUME pages = <<>>
  PROVE  Read = {} /\ Repeats = {}
BY DEF Told, Read, Repeats

LEMMA PagesUnread ==
  ASSUME UNCHANGED <<ask, pages>>
  PROVE  /\ Read' = Read /\ Repeats' = Repeats /\ Due' = Due /\ Start' = Start
         /\ Downwards' = Downwards
BY DEF Told, RowOf, Read, Before, Repeats, Due, Start, Meant, Turned, Downwards

(* The place where a client is.                                             *)
LEMMA PlaceType ==
  ASSUME OInv, pc = "reading"
  PROVE  Start \in Nat /\ ask.size \in Nat \ {0} /\ Meant(Len(pages) + 2) = Start + ask.size
BY NextStarts, AskedFrom DEF OInv, TInv, Start

LEMMA FirstAdded ==
  ASSUME OInv, pages # <<>>
  PROVE  pages[1].added \in Int
<1>1. pages \in Seq(Page) /\ pages # <<>>
  BY DEF OInv, TInv, TypeOK
<1>2. pages[1] \in Page
  BY <1>1
<1> QED BY <1>2, PagingAssumption DEF Page

(* A page is read.                                                          *)
LEMMA ReadOn ==
  ASSUME PagedAsks, OInv, ReadPage
  PROVE  \E s \in Seq(Rows) : \E m \in Nat : \E c \in Nat \ {0} :
           LET w == Window(s, m, c)
           IN /\ s = Turned(list) /\ Turned(list)' = s /\ m = Start /\ Start' = m + c
              /\ Distinct(s) /\ w = NewPage.rows /\ w \in Seq(Rows) /\ Len(w) <= c
              /\ pc' = IF Len(w) < c THEN "end" ELSE "reading"
              /\ Read' = Read \cup ToSet(w)
              /\ Repeats' = Repeats \cup Again(Len(pages) + 1, w)
              /\ pages = <<>> => Due' \subseteq Rest(s, m)
              /\ pages # <<>> => Due' = Due
<1>1. /\ pages' = Append(pages, NewPage) /\ pc = "reading"
      /\ pc' = IF Len(NewPage.rows) < ask.size THEN "end" ELSE "reading"
      /\ UNCHANGED <<list, added, ask, gone>>
  BY ReadPageAdds DEF OInv
<1>2. PICK s : s = Turned(list)
  OBVIOUS
<1>3. PICK m : m = Start
  OBVIOUS
<1>4. PICK c : c = ask.size
  OBVIOUS
<1>5. s \in Seq(Rows) /\ Distinct(s)
  BY <1>2, TurnedFacts DEF OInv
<1>6. m \in Nat /\ c \in Nat \ {0} /\ Meant(Len(pages) + 2) = m + c
  BY <1>1, <1>3, <1>4, PlaceType
<1>7. NewPage.rows = Window(s, m, c)
  BY <1>2, <1>3, <1>4 DEF NewPage, Start
<1>8. PICK w : w = Window(s, m, c)
  OBVIOUS
<1>9. w \in Seq(Rows) /\ Len(w) <= c /\ Distinct(w)
  <2>1. c \in Nat
    BY <1>6
  <2> QED BY <1>5, <1>6, <1>8, <2>1, WindowFacts, WindowReads
<1>10. pages \in Seq(Page) /\ list \in Seq(1 .. MaxRows) /\ added \in 0 .. MaxRows
  BY DEF OInv, TInv, TypeOK
<1>11. NewPage \in Page /\ NewPage.rows = w /\ NewPage.of = list
  BY <1>7, <1>8, <1>9, <1>10 DEF NewPage, Page, Rows
<1>12. PICK p \in Page : p = NewPage
  BY <1>11
<1>13. Read' = Read \cup ToSet(w) /\ Repeats' = Repeats \cup Again(Len(pages) + 1, w)
  <2>1. pages' = Append(pages, p) /\ p.rows = w
    BY <1>1, <1>11, <1>12
  <2> QED BY <1>9, <1>10, <2>1, PageTold
<1>14. Turned(list)' = s /\ \A k : Meant(k)' = Meant(k)
  BY <1>1, <1>2 DEF Turned, Downwards, Meant
<1>15. Start' = m + c
  <2>1. Len(pages') + 1 = Len(pages) + 2
    BY <1>1, <1>10, <1>11
  <2>2. Start' = Meant(Len(pages) + 2)
    BY <1>1, <2>1 DEF Start, Meant
  <2> QED BY <1>6, <2>2
<1>16. ASSUME pages = <<>> PROVE Due' \subseteq Rest(s, m)
  <2>1. pages' = <<p>> /\ p.of = list
    BY <1>1, <1>11, <1>12, <1>16
  <2>2. pages'[1].of = list
    BY <2>1
  <2>3. m = Meant(1)
    BY <1>3, <1>16 DEF Start
  <2>4. Due' = ToSet(Window(s, m, Len(list)))
    BY <1>1, <1>2, <2>2, <2>3 DEF Due, Turned, Downwards, Meant
  <2>5. Len(list) \in Nat
    BY <1>10
  <2> QED BY <1>5, <1>6, <2>4, <2>5, WindowReads
<1>17. ASSUME pages # <<>> PROVE Due' = Due
  <2>1. pages'[1] = pages[1]
    BY <1>1, <1>10, <1>11, <1>17
  <2> QED BY <1>1, <2>1 DEF Due, Turned, Downwards, Meant
<1>18. pc' = IF Len(w) < c THEN "end" ELSE "reading"
  BY <1>1, <1>4, <1>11
<1> QED
  BY <1>2, <1>3, <1>5, <1>6, <1>7, <1>8, <1>9, <1>13, <1>14, <1>15, <1>16, <1>17, <1>18

LEMMA PInvRead ==
  ASSUME PagedAsks, PInv, ReadPage
  PROVE  DueFits' /\ MissedSoFar' /\ MissesAtMostGone' /\ RepeatsSoFar'
<1>0. OInv /\ TInv /\ ListInOrder /\ gone \in Nat /\ added \in Int
  BY PagingAssumption DEF PInv, OInv, TInv, TypeOK
<1>1. PICK s \in Seq(Rows), m \in Nat, c \in Nat \ {0} :
        LET w == Window(s, m, c)
        IN /\ s = Turned(list) /\ Turned(list)' = s /\ m = Start /\ Start' = m + c
           /\ Distinct(s) /\ w = NewPage.rows /\ w \in Seq(Rows) /\ Len(w) <= c
           /\ pc' = IF Len(w) < c THEN "end" ELSE "reading"
           /\ Read' = Read \cup ToSet(w)
           /\ Repeats' = Repeats \cup Again(Len(pages) + 1, w)
           /\ pages = <<>> => Due' \subseteq Rest(s, m)
           /\ pages # <<>> => Due' = Due
  BY <1>0, ReadOn
<1>2. PICK w : w = Window(s, m, c)
  OBVIOUS
<1>3. /\ s = Turned(list) /\ Turned(list)' = s /\ m = Start /\ Start' = m + c
      /\ Distinct(s) /\ w = NewPage.rows /\ w \in Seq(Rows) /\ Len(w) <= c
      /\ pc' = IF Len(w) < c THEN "end" ELSE "reading"
      /\ Read' = Read \cup ToSet(w)
      /\ Repeats' = Repeats \cup Again(Len(pages) + 1, w)
      /\ pages = <<>> => Due' \subseteq Rest(s, m)
      /\ pages # <<>> => Due' = Due
  BY <1>1, <1>2
<1>4. /\ ToSet(w) \subseteq Rest(s, m)
      /\ Passed(s, m + c) \subseteq Passed(s, m) \cup ToSet(w)
      /\ Rest(s, m + c) \subseteq Rest(s, m)
      /\ Len(w) < c => ToSet(s) \subseteq Passed(s, m + c)
      /\ Distinct(w) /\ Rest(s, m + c) \cap ToSet(w) = {}
  <2>1. c \in Nat
    OBVIOUS
  <2> QED BY <1>2, <1>3, <2>1, WindowReads
<1>5. ToSet(s) = ToSet(list) /\ \A r \in ToSet(s) : r <= added
  BY <1>0, <1>3, TurnedFacts
<1>6. /\ IsFiniteSet(Rows) /\ Passed(s, m) \subseteq Rows
      /\ Rest(s, m) \subseteq ToSet(s) /\ ToSet(s) \subseteq Rows
  BY InRows
<1>7. /\ pages' = Append(pages, NewPage) /\ pc = "reading" /\ pages \in Seq(Page)
      /\ UNCHANGED <<list, added, ask, gone>>
  BY <1>0, ReadPageAdds DEF TInv, TypeOK
<1>8. DueFits'
  <2>1. CASE pages = <<>>
    <3>1. \A r \in Rows : r <= added => r \in 1 .. added
      BY <1>0, PagingAssumption DEF Rows
    <3> QED BY <1>3, <1>5, <1>6, <1>7, <2>1, <3>1 DEF DueFits
  <2>2. CASE pages # <<>>
    BY <1>3, <1>7, <2>2 DEF PInv, DueFits
  <2> QED BY <2>1, <2>2
<1>9. /\ Cardinality((Due' \cap Passed(s, m + c)) \ Read') <= gone
      /\ Cardinality((Due' \cap Passed(s, m + c)) \ Read') \in Nat
      /\ IsFiniteSet((Due' \cap Passed(s, m + c)) \ Read')
  <2> DEFINE new == (Due' \cap Passed(s, m + c)) \ Read'
             old == (Due' \cap Passed(s, m)) \ Read
  <2>1. new \subseteq old
    BY <1>3, <1>4
  <2>2. IsFiniteSet(old)
    <3>1. old \subseteq Rows
      BY <1>6
    <3> QED BY <1>6, <3>1, NoMore
  <2>3. Cardinality(old) <= gone
    <3>1. CASE pages = <<>>
      <4>1. old = {}
        BY <1>3, <3>1, PassedOrRest
      <4>2. Cardinality(old) = 0
        BY <4>1, FS_EmptySet
      <4> QED BY <1>0, <4>2
    <3>2. CASE pages # <<>>
      BY <1>3, <1>7, <3>2 DEF PInv, MissedSoFar
    <3> QED BY <3>1, <3>2
  <2> HIDE DEF new, old
  <2>4. IsFiniteSet(new) /\ Cardinality(new) \in Nat /\ Cardinality(new) <= gone
    <3>1. /\ IsFiniteSet(new) /\ Cardinality(new) \in Nat /\ Cardinality(old) \in Nat
          /\ Cardinality(new) <= Cardinality(old)
      BY <2>1, <2>2, NoMore
    <3> QED BY <1>0, <2>3, <3>1
  <2> QED BY <2>4 DEF new
<1>10. MissedSoFar'
  BY <1>3, <1>7, <1>9 DEF MissedSoFar
<1>11. MissesAtMostGone'
  <2> SUFFICES ASSUME pc' = "end" PROVE Cardinality((Due' \cap ToSet(list)) \ Read') <= gone
    BY <1>7 DEF MissesAtMostGone
  <2> DEFINE missed == (Due' \cap ToSet(list)) \ Read'
             new == (Due' \cap Passed(s, m + c)) \ Read'
  <2>1. missed \subseteq new
    BY <1>3, <1>4, <1>5
  <2>2. IsFiniteSet(new) /\ Cardinality(new) <= gone
    BY <1>9
  <2> HIDE DEF missed, new
  <2>3. /\ Cardinality(missed) <= Cardinality(new)
        /\ Cardinality(missed) \in Nat /\ Cardinality(new) \in Nat
    BY <2>1, <2>2, NoMore
  <2>4. Cardinality(missed) <= gone
    BY <1>0, <2>2, <2>3
  <2> QED BY <2>4 DEF missed
<1>12. RepeatsSoFar'
  <2> SUFFICES ASSUME Downwards
               PROVE  /\ IsFiniteSet(Repeats')
                      /\ Cardinality(Repeats') + Cardinality(Repeating') <= added - pages'[1].added
    BY <1>7 DEF RepeatsSoFar, Downwards
  <2> DEFINE again == Again(Len(pages) + 1, w)
             A == ToSet(w) \cap Read
             B == Rest(s, m + c) \cap Read'
             C == Rest(s, m) \cap Read
  <2>1. IsFiniteSet(Repeats) /\ Cardinality(Repeats) + Cardinality(C) <= added - pages'[1].added
        /\ pages'[1].added \in Int
    <3>1. CASE pages = <<>>
      <4>1. pages'[1] = NewPage
        BY <1>7, <3>1
      <4>2. pages'[1].added = added
        BY <4>1 DEF NewPage
      <4>3. Repeats = {} /\ C = {}
        BY <3>1, NothingTold
      <4>4. Cardinality(Repeats) = 0 /\ Cardinality(C) = 0 /\ IsFiniteSet(Repeats)
        BY <4>3, FS_EmptySet
      <4> HIDE DEF C
      <4> QED BY <1>0, <4>2, <4>4
    <3>2. CASE pages # <<>>
      <4>1. pages'[1] = pages[1] /\ pages[1].added \in Int
        BY <1>0, <1>7, <3>2, FirstAdded
      <4>2. Repeating = C
        BY <1>3, <1>7 DEF Repeating
      <4>3. IsFiniteSet(Repeats)
            /\ Cardinality(Repeats) + Cardinality(Repeating) <= added - pages[1].added
        BY <3>2 DEF PInv, RepeatsSoFar
      <4> HIDE DEF C
      <4> QED BY <4>1, <4>2, <4>3
    <3> QED BY <3>1, <3>2
  <2>2. /\ IsFiniteSet(again) /\ Cardinality(again) \in Nat
        /\ Cardinality(again) <= Cardinality(A)
    BY <1>3, <1>4, AgainCount
  <2>3. A \subseteq C /\ B \subseteq C /\ A \cap B = {} /\ IsFiniteSet(C)
    <3>1. C \subseteq Rows
      BY <1>6
    <3>2. IsFiniteSet(C)
      BY <1>6, <3>1, NoMore
    <3> QED BY <1>3, <1>4, <3>2
  <2>4. Repeating' \subseteq B
    <3>1. Repeating' = IF pc' = "reading" THEN B ELSE {}
      BY <1>3 DEF Repeating
    <3> QED BY <3>1
  <2>5. Repeats' = Repeats \cup again
    BY <1>3
  <2> HIDE DEF again, A, B, C
  <2>6. /\ Cardinality(A) \in Nat /\ Cardinality(B) \in Nat /\ Cardinality(C) \in Nat
        /\ Cardinality(A) + Cardinality(B) <= Cardinality(C)
    BY <2>3, Disjoint
  <2>7. /\ IsFiniteSet(Repeats') /\ Cardinality(Repeats') \in Nat
        /\ Cardinality(Repeats) \in Nat
        /\ Cardinality(Repeats') <= Cardinality(Repeats) + Cardinality(again)
    <3>1. /\ IsFiniteSet(Repeats \cup again)
          /\ Cardinality(Repeats \cup again) =
               Cardinality(Repeats) + Cardinality(again) - Cardinality(Repeats \cap again)
      BY <2>1, <2>2, FS_Union
    <3>2. Cardinality(Repeats \cap again) \in Nat /\ Cardinality(Repeats) \in Nat
          /\ Cardinality(Repeats \cup again) \in Nat
      BY <2>1, <3>1, FS_Intersection, FS_CardinalityType
    <3> QED BY <2>2, <2>5, <3>1, <3>2
  <2>8. Cardinality(Repeating') <= Cardinality(B) /\ Cardinality(Repeating') \in Nat
    <3>1. IsFiniteSet(B)
      BY <2>3, NoMore
    <3> QED BY <2>4, <3>1, NoMore
  <2> QED BY <1>0, <2>1, <2>2, <2>6, <2>7, <2>8
<1> QED BY <1>8, <1>10, <1>11, <1>12

(* A row disappears.                                                        *)
LEMMA PInvGone ==
  ASSUME PInv, RowGone
  PROVE  DueFits' /\ MissedSoFar' /\ MissesAtMostGone' /\ RepeatsSoFar'
<1>0. /\ OInv /\ TInv /\ ListInOrder /\ gone \in Nat /\ added \in Int
      /\ list \in Seq(Rows)
  BY PagingAssumption DEF PInv, OInv, TInv, TypeOK, Rows
<1>1. UNCHANGED <<added, pc, ask, pages>> /\ (pages # <<>> => gone' = gone + 1)
  BY DEF RowGone
<1>2. /\ Read' = Read /\ Repeats' = Repeats /\ Due' = Due /\ Start' = Start
      /\ Downwards' = Downwards
  BY <1>1, PagesUnread
<1>3. PICK s, t : s = Turned(list) /\ t = Turned(list)'
  OBVIOUS
<1>4. PICK u : u = list'
  OBVIOUS
<1>5. s \in Seq(Rows) /\ t \in Seq(Rows) /\ Shortened(s, t) /\ Shortened(list, u)
  BY <1>0, <1>3, <1>4, TurnedGone, TurnedFacts
<1>6. DueFits'
  BY <1>1, <1>2 DEF PInv, DueFits
<1>7. MissedSoFar'
  <2> SUFFICES ASSUME pages # <<>>, pc = "reading"
               PROVE  Cardinality((Due \cap Passed(t, Start)) \ Read) <= gone + 1
    BY <1>1, <1>2, <1>3 DEF MissedSoFar
  <2> DEFINE new == (Due \cap Passed(t, Start)) \ Read
             old == (Due \cap Passed(s, Start)) \ Read
  <2>1. Start \in Nat
    BY <1>0, PlaceType
  <2>2. new \subseteq old \cup {s[Start + 1]}
    BY <1>5, <2>1, ShortenedMoves
  <2>3. IsFiniteSet(old)
    <3>1. old \subseteq Rows /\ IsFiniteSet(Rows)
      BY <1>5, <2>1, InRows
    <3> QED BY <3>1, NoMore
  <2>4. Cardinality(old) <= gone
    BY <1>3 DEF PInv, MissedSoFar
  <2> HIDE DEF new, old
  <2>5. /\ Cardinality(new) \in Nat /\ Cardinality(old) \in Nat
        /\ Cardinality(new) <= Cardinality(old) + 1
    BY <2>2, <2>3, OneMore
  <2>6. Cardinality(new) <= gone + 1
    BY <1>0, <2>4, <2>5
  <2> QED BY <2>6 DEF new
<1>8. MissesAtMostGone'
  <2> SUFFICES ASSUME pc = "end"
               PROVE  Cardinality((Due \cap ToSet(u)) \ Read) <= gone'
    BY <1>1, <1>2, <1>4 DEF MissesAtMostGone
  <2> DEFINE new == (Due \cap ToSet(u)) \ Read
             old == (Due \cap ToSet(list)) \ Read
  <2>1. u \in Seq(Rows)
    <3>1. TInv'
      BY <1>0, TInvNext DEF Next
    <3> QED BY <1>4, <3>1 DEF TInv, TypeOK, Rows
  <2>2. new \subseteq old
    BY <1>0, <1>5, <2>1, ShortenedMoves
  <2>3. IsFiniteSet(old)
    <3>1. old \subseteq Rows /\ IsFiniteSet(Rows)
      BY <1>0, InRows
    <3> QED BY <3>1, NoMore
  <2>4. Cardinality(old) <= gone
    BY DEF PInv, MissesAtMostGone
  <2>5. pages # <<>>
    BY DEF PInv, EndRead
  <2>6. gone' = gone + 1
    BY <1>1, <2>5
  <2> HIDE DEF new, old
  <2>7. /\ Cardinality(new) \in Nat /\ Cardinality(old) \in Nat
        /\ Cardinality(new) <= Cardinality(old)
    BY <2>2, <2>3, NoMore
  <2>8. Cardinality(new) <= gone'
    BY <1>0, <2>4, <2>5, <2>6, <2>7
  <2> QED BY <2>8 DEF new
<1>9. RepeatsSoFar'
  <2> SUFFICES ASSUME pages # <<>>, Downwards
               PROVE  /\ IsFiniteSet(Repeats)
                      /\ Cardinality(Repeats) + Cardinality(Repeating') <= added - pages[1].added
    BY <1>1, <1>2 DEF RepeatsSoFar
  <2>1. /\ IsFiniteSet(Repeats)
        /\ Cardinality(Repeats) + Cardinality(Repeating) <= added - pages[1].added
    BY DEF PInv, RepeatsSoFar
  <2>2. IsFiniteSet(Repeating) /\ Repeating' \subseteq Repeating
    <3>1. CASE pc = "reading"
      <4>1. Start \in Nat
        BY <1>0, <3>1, PlaceType
      <4>2. Repeating = Rest(s, Start) \cap Read /\ Repeating' = Rest(t, Start) \cap Read
        BY <1>1, <1>2, <1>3, <3>1 DEF Repeating
      <4>3. Rest(t, Start) \subseteq Rest(s, Start)
        BY <1>5, <4>1, ShortenedMoves
      <4>4. IsFiniteSet(Rows) /\ Rest(s, Start) \subseteq Rows
        BY <1>5, <4>1, InRows
      <4>5. Repeating \subseteq Rows
        BY <4>2, <4>4
      <4> QED BY <4>2, <4>3, <4>4, <4>5, NoMore
    <3>2. CASE pc # "reading"
      BY <1>1, <3>2, FS_EmptySet DEF Repeating
    <3> QED BY <3>1, <3>2
  <2>3. /\ Cardinality(Repeating') <= Cardinality(Repeating)
        /\ Cardinality(Repeating') \in Nat /\ Cardinality(Repeating) \in Nat
        /\ Cardinality(Repeats) \in Nat /\ pages[1].added \in Int
    BY <1>0, <2>1, <2>2, NoMore, FS_CardinalityType, FirstAdded
  <2> QED BY <1>0, <2>1, <2>3
<1> QED BY <1>6, <1>7, <1>8, <1>9

(* A row is added.                                                          *)
LEMMA PInvAdded ==
  ASSUME PInv, RowAdded
  PROVE  DueFits' /\ MissedSoFar' /\ MissesAtMostGone' /\ RepeatsSoFar'
<1>0. /\ OInv /\ TInv /\ ListInOrder /\ gone \in Nat /\ added \in Int
      /\ list \in Seq(Rows)
  BY PagingAssumption DEF PInv, OInv, TInv, TypeOK, Rows
<1>1. UNCHANGED <<pc, ask, pages, gone>> /\ added' = added + 1
  BY DEF RowAdded
<1>2. /\ Read' = Read /\ Repeats' = Repeats /\ Due' = Due /\ Start' = Start
      /\ Downwards' = Downwards
  BY <1>1, PagesUnread
<1>3. PICK s, t : s = Turned(list) /\ t = Turned(list)'
  OBVIOUS
<1>4. PICK u, x : u = list' /\ x = added + 1
  OBVIOUS
<1>5. s \in Seq(Rows) /\ t \in Seq(Rows) /\ Lengthened(s, t, x) /\ Lengthened(list, u, x)
  BY <1>0, <1>3, <1>4, TurnedAdded, TurnedFacts
<1>6. u \in Seq(Rows)
  <2>1. TInv'
    BY <1>0, TInvNext DEF Next
  <2> QED BY <1>4, <2>1 DEF TInv, TypeOK, Rows
<1>7. pages # <<>> => x \notin Due /\ Due \subseteq 1 .. added
  BY <1>0, <1>4 DEF PInv, DueFits
<1>8. DueFits'
  <2>1. 1 .. added \subseteq 1 .. added + 1
    BY <1>0
  <2> QED BY <1>1, <1>2, <1>7, <2>1 DEF DueFits
<1>9. MissedSoFar'
  <2> SUFFICES ASSUME pages # <<>>, pc = "reading"
               PROVE  Cardinality((Due \cap Passed(t, Start)) \ Read) <= gone
    BY <1>1, <1>2, <1>3 DEF MissedSoFar
  <2> DEFINE new == (Due \cap Passed(t, Start)) \ Read
             old == (Due \cap Passed(s, Start)) \ Read
  <2>1. Start \in Nat
    BY <1>0, PlaceType
  <2>2. new \subseteq old
    BY <1>5, <1>7, <2>1, LengthenedMoves
  <2>3. IsFiniteSet(old)
    <3>1. old \subseteq Rows /\ IsFiniteSet(Rows)
      BY <1>5, <2>1, InRows
    <3> QED BY <3>1, NoMore
  <2>4. Cardinality(old) <= gone
    BY <1>3 DEF PInv, MissedSoFar
  <2> HIDE DEF new, old
  <2>5. /\ Cardinality(new) \in Nat /\ Cardinality(old) \in Nat
        /\ Cardinality(new) <= Cardinality(old)
    BY <2>2, <2>3, NoMore
  <2>6. Cardinality(new) <= gone
    BY <1>0, <2>4, <2>5
  <2> QED BY <2>6 DEF new
<1>10. MissesAtMostGone'
  <2> SUFFICES ASSUME pc = "end"
               PROVE  Cardinality((Due \cap ToSet(u)) \ Read) <= gone
    BY <1>1, <1>2, <1>4 DEF MissesAtMostGone
  <2> DEFINE new == (Due \cap ToSet(u)) \ Read
             old == (Due \cap ToSet(list)) \ Read
  <2>1. pages # <<>>
    BY DEF PInv, EndRead
  <2>2. new \subseteq old
    <3>1. ToSet(u) \subseteq ToSet(list) \cup {x}
      BY <1>0, <1>5, <1>6, LengthenedMoves
    <3> QED BY <1>7, <2>1, <3>1
  <2>3. IsFiniteSet(old)
    <3>1. old \subseteq Rows /\ IsFiniteSet(Rows)
      BY <1>0, InRows
    <3> QED BY <3>1, NoMore
  <2>4. Cardinality(old) <= gone
    BY DEF PInv, MissesAtMostGone
  <2> HIDE DEF new, old
  <2>5. /\ Cardinality(new) \in Nat /\ Cardinality(old) \in Nat
        /\ Cardinality(new) <= Cardinality(old)
    BY <2>2, <2>3, NoMore
  <2>6. Cardinality(new) <= gone
    BY <1>0, <2>4, <2>5
  <2> QED BY <2>6 DEF new
<1>11. RepeatsSoFar'
  <2> SUFFICES ASSUME pages # <<>>, Downwards
               PROVE  /\ IsFiniteSet(Repeats)
                      /\ Cardinality(Repeats) + Cardinality(Repeating')
                           <= (added + 1) - pages[1].added
    BY <1>1, <1>2 DEF RepeatsSoFar
  <2>1. /\ IsFiniteSet(Repeats)
        /\ Cardinality(Repeats) + Cardinality(Repeating) <= added - pages[1].added
    BY DEF PInv, RepeatsSoFar
  <2>2. IsFiniteSet(Repeating) /\ \E y : Repeating' \subseteq Repeating \cup {y}
    <3>1. CASE pc = "reading"
      <4>1. Start \in Nat
        BY <1>0, <3>1, PlaceType
      <4>2. Repeating = Rest(s, Start) \cap Read /\ Repeating' = Rest(t, Start) \cap Read
        BY <1>1, <1>2, <1>3, <3>1 DEF Repeating
      <4>3. PICK y : Rest(t, Start) \subseteq Rest(s, Start) \cup {y}
        BY <1>5, <4>1, LengthenedMoves
      <4>4. IsFiniteSet(Rows) /\ Rest(s, Start) \subseteq Rows
        BY <1>5, <4>1, InRows
      <4>5. Repeating \subseteq Rows
        BY <4>2, <4>4
      <4>6. IsFiniteSet(Repeating)
        BY <4>4, <4>5, NoMore
      <4>7. Repeating' \subseteq Repeating \cup {y}
        BY <4>2, <4>3
      <4> QED BY <4>6, <4>7
    <3>2. CASE pc # "reading"
      BY <1>1, <3>2, FS_EmptySet DEF Repeating
    <3> QED BY <3>1, <3>2
  <2>3. /\ Cardinality(Repeating') <= Cardinality(Repeating) + 1
        /\ Cardinality(Repeating') \in Nat /\ Cardinality(Repeating) \in Nat
        /\ Cardinality(Repeats) \in Nat /\ pages[1].added \in Int
    <3>1. PICK y : Repeating' \subseteq Repeating \cup {y}
      BY <2>2
    <3>2. PICK A, B : A = Repeating /\ B = Repeating'
      OBVIOUS
    <3>3. IsFiniteSet(A) /\ B \subseteq A \cup {y}
      BY <2>2, <3>1, <3>2
    <3>4. /\ Cardinality(B) \in Nat /\ Cardinality(A) \in Nat
          /\ Cardinality(B) <= Cardinality(A) + 1
      BY <3>3, OneMore
    <3> QED BY <1>0, <2>1, <3>2, <3>4, FS_CardinalityType, FirstAdded
  <2> QED BY <1>0, <2>1, <2>3
<1> QED BY <1>8, <1>9, <1>10, <1>11

LEMMA PInvInit == Init => PInv
BY OInvInit, TInvInit
   DEF Init, PInv, DueFits, MissedSoFar, MissesAtMostGone, RepeatsSoFar, EndRead

LEMMA PInvNext ==
  ASSUME PagedAsks
  PROVE  PInv /\ [Next]_vars => PInv'
<1> SUFFICES ASSUME PInv, [Next]_vars PROVE PInv'
  OBVIOUS
<1>1. OInv' /\ OInv
  BY OInvNext DEF PInv
<1>2. EndRead'
  <2>1. CASE ReadPage
    <3>1. pages' # <<>>
      <4>1. pages \in Seq(Page) /\ pages' = Append(pages, NewPage)
        BY <1>1, <2>1, ReadPageAdds DEF OInv, TInv, TypeOK
      <4> QED BY <4>1
    <3> QED BY <3>1 DEF EndRead
  <2>2. CASE pc' # "end" \/ UNCHANGED <<pc, pages>>
    BY <2>2 DEF PInv, EndRead
  <2> QED BY <2>1, <2>2 DEF Next, Ask, Refuse, RowAdded, RowGone, vars
<1> SUFFICES DueFits' /\ MissedSoFar' /\ MissesAtMostGone' /\ RepeatsSoFar'
  BY <1>1, <1>2 DEF PInv
<1>3. CASE Ask
  <2>1. pages' = <<>> /\ pc' = "reading"
    BY <1>1, <1>3 DEF OInv, TInv, AskFits, Ask
  <2> QED BY <2>1 DEF DueFits, MissedSoFar, MissesAtMostGone, RepeatsSoFar
<1>4. CASE ReadPage
  BY <1>4, PInvRead
<1>5. CASE Refuse
  <2>1. pc' = "refused" /\ pc = "reading" /\ UNCHANGED <<list, added, ask, pages, gone>>
    BY <1>5 DEF Refuse
  <2>2. /\ Read' = Read /\ Repeats' = Repeats /\ Due' = Due /\ Start' = Start
        /\ Downwards' = Downwards
    BY <2>1, PagesUnread
  <2>3. RepeatsSoFar'
    <3> SUFFICES ASSUME pages # <<>>, Downwards
                 PROVE  /\ IsFiniteSet(Repeats)
                        /\ Cardinality(Repeats) + Cardinality({}) <= added - pages[1].added
      BY <2>1, <2>2 DEF RepeatsSoFar, Repeating
    <3>1. /\ IsFiniteSet(Repeats)
          /\ Cardinality(Repeats) + Cardinality(Repeating) <= added - pages[1].added
      BY DEF PInv, RepeatsSoFar
    <3>2. Turned(list) \in Seq(Rows) /\ Start \in Nat
      BY <1>1, <2>1, TurnedFacts, PlaceType DEF OInv
    <3>3. IsFiniteSet(Rows) /\ Repeating \subseteq Rows
      BY <2>1, <3>2, InRows DEF Repeating
    <3>4. /\ Cardinality(Repeating) \in Nat /\ Cardinality(Repeats) \in Nat
          /\ Cardinality({}) = 0 /\ pages[1].added \in Int /\ added \in Int
      BY <1>1, <3>1, <3>3, NoMore, FS_CardinalityType, FS_EmptySet, FirstAdded,
         PagingAssumption DEF OInv, TInv, TypeOK
    <3> QED BY <3>1, <3>4
  <2> QED
    BY <2>1, <2>2, <2>3 DEF PInv, DueFits, MissedSoFar, MissesAtMostGone
<1>6. CASE RowAdded
  BY <1>6, PInvAdded
<1>7. CASE RowGone
  BY <1>7, PInvGone
<1>8. CASE UNCHANGED vars
  <2>1. UNCHANGED <<ask, pages>> /\ UNCHANGED <<list, added, pc, gone>>
    BY <1>8 DEF vars
  <2>2. /\ Read' = Read /\ Repeats' = Repeats /\ Due' = Due /\ Start' = Start
        /\ Downwards' = Downwards
    BY <2>1, PagesUnread
  <2>3. Turned(list)' = Turned(list) /\ Repeating' = Repeating
    BY <2>1, <2>2 DEF Turned, Repeating
  <2> QED
    BY <2>1, <2>2, <2>3 DEF PInv, DueFits, MissedSoFar, MissesAtMostGone, RepeatsSoFar
<1> QED BY <1>3, <1>4, <1>5, <1>6, <1>7, <1>8 DEF Next

(* Reading downwards, a client is told no more rows again than were added   *)
(* to the list since its first page.                                        *)
THEOREM RepeatsAreAdded ==
  ASSUME PagedAsks
  PROVE  Spec => []RepeatsAtMostAdded
<1>1. PInv => RepeatsAtMostAdded
  <2> SUFFICES ASSUME PInv, pages # <<>>, Downwards
               PROVE  Cardinality(Repeats) <= added - pages[1].added
    BY DEF RepeatsAtMostAdded
  <2>1. /\ IsFiniteSet(Repeats) /\ OInv
        /\ Cardinality(Repeats) + Cardinality(Repeating) <= added - pages[1].added
    BY DEF PInv, RepeatsSoFar
  <2>2. Cardinality(Repeating) \in Nat
    <3>1. CASE pc = "reading"
      <4>1. Turned(list) \in Seq(Rows) /\ Start \in Nat
        BY <2>1, <3>1, TurnedFacts, PlaceType DEF OInv
      <4>2. IsFiniteSet(Rows) /\ Repeating \subseteq Rows
        BY <3>1, <4>1, InRows DEF Repeating
      <4> QED BY <4>2, NoMore
    <3>2. CASE pc # "reading"
      BY <3>2, FS_EmptySet DEF Repeating
    <3> QED BY <3>1, <3>2
  <2>3. pages[1].added \in Int /\ added \in Int /\ Cardinality(Repeats) \in Nat
    BY <2>1, FirstAdded, FS_CardinalityType, PagingAssumption DEF OInv, TInv, TypeOK
  <2> QED BY <2>1, <2>2, <2>3
<1> QED BY PInvInit, PInvNext, <1>1, PTL DEF Spec

(* A client that read a list to its end, in either direction, misses no     *)
(* more rows that are still there than have disappeared meanwhile.          *)
THEOREM MissesAreGone ==
  ASSUME PagedAsks
  PROVE  Spec => []MissesAtMostGone
<1>1. PInv => MissesAtMostGone
  BY DEF PInv
<1> QED BY PInvInit, PInvNext, <1>1, PTL DEF Spec
=============================================================================
