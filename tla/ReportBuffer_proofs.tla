------------------------ MODULE ReportBuffer_proofs -------------------------
(***************************************************************************)
(* Proofs about the report buffer for every size of the memory block and   *)
(* every lengths of the reports.                                           *)
(***************************************************************************)
EXTENDS ReportBuffer, WellFoundedInduction, TLAPS

LEMMA Sizes ==
    /\ Size \in Nat /\ FullSize \in Nat /\ FullSize > 0 /\ MaxReports \in Nat
    /\ ChangeSizes \subseteq Nat \ {0} /\ Null = 0 /\ Begin = 1
BY MemoryAssumption DEF Null, Begin

LEMMA Fields ==
    ASSUME NEW r \in Entry
    PROVE  /\ r.addr \in Nat /\ r.addr >= 1 /\ r.addr <= Size
           /\ r.entryLength \in Nat /\ r.entryLength >= 1 /\ r.entryLength <= Size
           /\ r.id \in Nat /\ r.id >= 1 /\ r.id <= MaxReports /\ r.gi \in BOOLEAN
<1>1. /\ r.addr \in 1 .. Size /\ r.entryLength \in 1 .. Size
      /\ r.id \in 1 .. MaxReports /\ r.gi \in BOOLEAN
  BY Zenon DEF Entry, Addr, Id, Begin
<1> QED BY <1>1, Sizes

-----------------------------------------------------------------------------
\* A set of numbers has a least element, and a bounded one a greatest.
LEMMA Least ==
    ASSUME NEW S \in SUBSET Nat, S # {}
    PROVE  \E x \in S : \A y \in S : x <= y
<1> DEFINE R == OpToRel(<, Nat)
<1>1. IsWellFoundedOn(R, Nat)
  BY Zenon, NatLessThanWellFounded
<1>2. \A x, y \in Nat : x < y => <<x, y>> \in R
  BY DEF OpToRel
<1> HIDE DEF R
<1>3. PICK x \in S : \A y \in S : ~(<<y, x>> \in R)
  BY Zenon, <1>1, WFMin
<1>4. \A y \in S : ~(y < x)
  BY Zenon, <1>2, <1>3
<1>5. \A y \in S : x <= y
  BY <1>4
<1> QED BY Zenon, <1>5

LEMMA FirstIs ==
    ASSUME NEW l \in SUBSET Entry, l # {}
    PROVE  First(l) \in l /\ \A s \in l : First(l).id <= s.id
<1>1. \A r \in l : r.id \in Nat
  BY Fields
<1>2. Ids(l) \subseteq Nat /\ Ids(l) # {}
  BY <1>1 DEF Ids
<1>3. PICK i \in Ids(l) : \A j \in Ids(l) : i <= j
  BY <1>2, Least
<1>4. PICK r \in l : r.id = i
  BY <1>3 DEF Ids
<1>5. \A s \in l : r.id <= s.id
  BY <1>3, <1>4 DEF Ids
<1> QED BY Zenon, <1>4, <1>5 DEF First

LEMMA NewestIs ==
    ASSUME NEW l \in SUBSET Entry, l # {}
    PROVE  Newest(l) \in l /\ \A s \in l : s.id <= Newest(l).id
<1> DEFINE back == {MaxReports - r.id : r \in l}
<1>1. \A r \in l : r.id \in Nat /\ MaxReports - r.id \in Nat
  BY Fields, Sizes
<1>2. back \subseteq Nat /\ back # {}
  BY <1>1
<1>3. PICK i \in back : \A j \in back : i <= j
  <2> HIDE DEF back
  <2> QED BY <1>2, Least
<1>4. PICK r \in l : i = MaxReports - r.id
  BY <1>3
<1>5. \A s \in l : MaxReports - r.id <= MaxReports - s.id
  BY <1>3, <1>4
<1>6. \A s \in l : s.id <= r.id
  BY <1>1, <1>5, Sizes
<1> QED BY Zenon, <1>4, <1>6 DEF Newest

-----------------------------------------------------------------------------
\* How reports lie in the block: inside it, apart, and in cyclic order: going up
\* from any report, wrapping at the end of the block, newer ones come before
\* older ones do again.
Distinct(l) == \A r, s \in l : r.id = s.id => r = s
InBlock(l)  == \A r \in l : Fits(r.addr, r.entryLength)
AllApart(l) == \A r, s \in l : r # s => Apart(r, s)
Around(a, b, c) == (a < b /\ b < c) \/ (b < c /\ c < a) \/ (c < a /\ a < b)
Cyclic(l)   == \A q, r, s \in l :
                 q.id < r.id /\ r.id < s.id => Around(q.addr, r.addr, s.addr)
Layout(l)   == l \subseteq Entry /\ Distinct(l) /\ InBlock(l) /\ AllApart(l) /\ Cyclic(l)

LEMMA LayoutOfSubset ==
    ASSUME NEW l, NEW m \in SUBSET l, Layout(l)
    PROVE  Layout(m)
BY Zenon DEF Layout, Distinct, InBlock, AllApart, Cyclic

\* No two reports are at one address.
LEMMA OneAtAnAddress ==
    ASSUME NEW l, Layout(l), NEW r \in l, NEW s \in l, r.addr = s.addr
    PROVE  r = s
<1>1. r \in Entry /\ s \in Entry /\ (r # s => Apart(r, s))
  BY Zenon DEF Layout, AllApart
<1>2. ~Apart(r, s)
  BY <1>1, Fields DEF Apart
<1> QED BY <1>1, <1>2

\* A report is added behind the others, where nothing is in its way.
LEMMA LayoutWithOneMore ==
    ASSUME NEW l, Layout(l), NEW e \in Entry, Fits(e.addr, e.entryLength),
           \A r \in l : r.id < e.id, \A r \in l : Apart(r, e),
           \A q, r \in l : q.id < r.id => Around(q.addr, r.addr, e.addr)
    PROVE  Layout(l \cup {e})
<1> DEFINE m == l \cup {e}
<1>0. \A r \in l : r.id \in Nat /\ r.id < e.id /\ ~(e.id < r.id) /\ r.id # e.id
  BY Fields DEF Layout
<1>1. m \subseteq Entry
  BY DEF Layout
<1>2. Distinct(m)
  BY <1>0 DEF Layout, Distinct
<1>3. InBlock(m)
  BY DEF Layout, InBlock
<1>4. \A r \in l : Apart(r, e) /\ Apart(e, r)
  BY DEF Apart
<1>5. AllApart(m)
  BY <1>4 DEF Layout, AllApart
<1>6. Cyclic(m)
  <2> SUFFICES ASSUME NEW q \in m, NEW r \in m, NEW s \in m, q.id < r.id, r.id < s.id
               PROVE  Around(q.addr, r.addr, s.addr)
    BY Zenon DEF Cyclic
  <2>1. r \in l
    <3> SUFFICES ASSUME r = e PROVE FALSE
      OBVIOUS
    <3>1. s \in l \/ s = e
      OBVIOUS
    <3>2. e.id \in Nat
      BY Fields
    <3> QED BY <1>0, <3>1, <3>2
  <2>2. q \in l
    BY <1>0, <2>1
  <2>3. CASE s \in l
    BY Zenon, <2>1, <2>2, <2>3 DEF Layout, Cyclic
  <2>4. CASE s = e
    BY Zenon, <2>1, <2>2, <2>4
  <2> QED BY <2>3, <2>4
<1> QED BY Zenon, <1>1, <1>2, <1>3, <1>5, <1>6 DEF Layout

-----------------------------------------------------------------------------
\* What stays when the reports in the way are removed from the old end.
Stay(l, inTheWay) ==
    {r \in l : \E s \in l : s.id <= r.id /\ s.addr \notin inTheWay}
Unsent(gone, a) == \E r \in gone : r.addr = a

LEMMA RemoveIs ==
    ASSUME NEW l, NEW a, NEW o, NEW way
    PROVE  Remove([list |-> l, next |-> a, ovf |-> o], way) =
             [list |-> Stay(l, way),
              next |-> IF Unsent(l \ Stay(l, way), a) THEN Oldest(Stay(l, way)) ELSE a,
              ovf  |-> Overflow(o, Unsent(l \ Stay(l, way), a))]
BY DEF Remove, Stay, Unsent

\* The newest report n of a list is at or above the oldest, o: they lie in
\* increasing order.
LEMMA Increasing ==
    ASSUME NEW l, Layout(l), NEW o \in l, NEW n \in l,
           \A r \in l : o.id <= r.id /\ r.id <= n.id, o.addr < n.addr
    PROVE  \A q, r \in l : q.id < r.id => q.addr < r.addr
<1>1. \A r \in l : r.addr \in Nat /\ r.id \in Nat
  BY Fields DEF Layout
<1>2. \A r \in l : r # o => o.id < r.id
  BY <1>1 DEF Layout, Distinct
<1>3. \A r \in l : r # n => r.id < n.id
  BY <1>1 DEF Layout, Distinct
<1>4. \A r \in l : r # o => o.addr < r.addr
  <2> SUFFICES ASSUME NEW r \in l, r # o, r # n PROVE o.addr < r.addr
    OBVIOUS
  <2>1. Around(o.addr, r.addr, n.addr)
    BY <1>2, <1>3 DEF Layout, Cyclic
  <2> QED BY <1>1, <2>1 DEF Around
<1> SUFFICES ASSUME NEW q \in l, NEW r \in l, q.id < r.id PROVE q.addr < r.addr
  OBVIOUS
<1>5. CASE q = o
  BY <1>1, <1>4, <1>5
<1>6. CASE q # o
  <2>1. Around(o.addr, q.addr, r.addr)
    BY <1>2, <1>6 DEF Layout, Cyclic
  <2>2. r # o
    BY <1>1, <1>2, <1>6
  <2>3. o.addr < q.addr /\ o.addr < r.addr
    BY <1>4, <1>6, <2>2
  <2> QED BY <1>1, <2>1, <2>3 DEF Around
<1> QED BY <1>5, <1>6

\* It is below the oldest: older reports lie above that, in increasing order, newer
\* ones below the newest, in increasing order.
LEMMA Wrapped ==
    ASSUME NEW l, Layout(l), NEW o \in l, NEW n \in l,
           \A r \in l : o.id <= r.id /\ r.id <= n.id, n.addr < o.addr
    PROVE  /\ \A r \in l : r.addr <= n.addr \/ o.addr <= r.addr
           /\ \A q, r \in l : q.id < r.id =>
                \/ q.addr < r.addr /\ (r.addr <= n.addr \/ o.addr <= q.addr)
                \/ o.addr <= q.addr /\ r.addr <= n.addr
<1>1. \A r \in l : r.addr \in Nat /\ r.id \in Nat
  BY Fields DEF Layout
<1>2. \A r \in l : r # o => o.id < r.id
  BY <1>1 DEF Layout, Distinct
<1>3. \A r \in l : r # n => r.id < n.id
  BY <1>1 DEF Layout, Distinct
<1>4. \A r \in l : r # o => r.addr <= n.addr \/ o.addr < r.addr
  <2> SUFFICES ASSUME NEW r \in l, r # o, r # n
               PROVE  r.addr <= n.addr \/ o.addr < r.addr
    BY <1>1
  <2>1. Around(o.addr, r.addr, n.addr)
    BY <1>2, <1>3 DEF Layout, Cyclic
  <2> QED BY <1>1, <2>1 DEF Around
<1>5. ASSUME NEW q \in l, NEW r \in l, q.id < r.id
      PROVE  \/ q.addr < r.addr /\ (r.addr <= n.addr \/ o.addr <= q.addr)
             \/ o.addr <= q.addr /\ r.addr <= n.addr
  <2>1. r # o /\ q # n
    BY <1>1, <1>5
  <2>2. CASE q = o
    BY <1>1, <1>4, <2>1, <2>2
  <2>3. CASE r = n
    <3>1. q.addr # n.addr
      BY Zenon, <2>1, OneAtAnAddress
    <3>2. q = o \/ q.addr <= n.addr \/ o.addr < q.addr
      BY <1>4
    <3> QED BY <1>1, <2>3, <3>1, <3>2
  <2>4. CASE q # o /\ r # n
    <3>1. Around(o.addr, q.addr, r.addr) /\ Around(q.addr, r.addr, n.addr)
      BY <1>2, <1>3, <1>5, <2>4 DEF Layout, Cyclic
    <3>2. q.addr <= n.addr \/ o.addr < q.addr
      BY <1>4, <2>4
    <3>3. r.addr <= n.addr \/ o.addr < r.addr
      BY <1>4, <2>1
    <3> QED BY <1>1, <3>1, <3>2, <3>3 DEF Around
  <2> QED BY <2>2, <2>3, <2>4
<1> QED BY <1>1, <1>4, <1>5

-----------------------------------------------------------------------------
\* The place of a report of a length, with respect to the reports that stay.
Clear(l, pos, size) ==
    /\ pos \in Addr /\ Fits(pos, size)
    /\ \A r \in l : r.addr + r.entryLength <= pos \/ pos + size <= r.addr
    /\ \A q, r \in l : q.id < r.id => Around(q.addr, r.addr, pos)

LEMMA ClearWhenEmpty ==
    ASSUME NEW size \in 1 .. Size
    PROVE  Clear({}, Begin, size)
BY Sizes DEF Clear, Fits, Addr

\* Behind the newest report n, when nothing that stays is in the way.
OutOfTheWay(m, n, pos, size) ==
    /\ \A r \in m : r.addr <= n.addr \/ pos + size <= r.addr
    /\ \A q, r \in m : q.id < r.id =>
         \/ q.addr < r.addr /\ (r.addr <= n.addr \/ pos <= q.addr)
         \/ pos <= q.addr /\ r.addr <= n.addr

LEMMA ClearBehind ==
    ASSUME NEW l, Layout(l), NEW n \in l, NEW m \in SUBSET l, NEW size \in 1 .. Size,
           NEW pos, pos = n.addr + n.entryLength, Fits(pos, size),
           OutOfTheWay(m, n, pos, size)
    PROVE  Clear(m, pos, size)
<1>1. \A r \in l : r.addr \in Nat /\ r.addr >= 1 /\ r.entryLength \in Nat /\ r.entryLength >= 1
  BY Fields DEF Layout
<1>2. pos \in Addr
  BY <1>1, Sizes DEF Addr, Fits
<1>3. ASSUME NEW r \in m
      PROVE  r.addr + r.entryLength <= pos \/ pos + size <= r.addr
  <2>1. CASE r = n
    BY <1>1, <2>1
  <2>2. CASE r # n
    <3>1. Apart(r, n)
      BY <2>2 DEF Layout, AllApart
    <3>2. r.addr <= n.addr \/ pos + size <= r.addr
      BY DEF OutOfTheWay
    <3> QED BY <1>1, <3>1, <3>2 DEF Apart
  <2> QED BY <2>1, <2>2
<1>4. ASSUME NEW q \in m, NEW r \in m, q.id < r.id
      PROVE  Around(q.addr, r.addr, pos)
  <2>1. \/ q.addr < r.addr /\ (r.addr <= n.addr \/ pos <= q.addr)
        \/ pos <= q.addr /\ r.addr <= n.addr
    BY Zenon, <1>4 DEF OutOfTheWay
  <2>2. q.addr # pos
    <3> SUFFICES ASSUME q.addr = pos PROVE FALSE
      OBVIOUS
    <3>1. q.addr <= n.addr \/ pos + size <= q.addr
      BY DEF OutOfTheWay
    <3> QED BY <1>1, <3>1
  <2> QED BY <1>1, <2>1, <2>2 DEF Around
<1> QED BY <1>2, <1>3, <1>4 DEF Clear

\* At the beginning of the block, when the reports that stay lie in increasing
\* order beyond the end of the new one.
LEMMA ClearAtBegin ==
    ASSUME NEW l, Layout(l), NEW size \in 1 .. Size,
           \A q, r \in l : q.id < r.id => q.addr < r.addr
    PROVE  Clear(Stay(l, Covered(Begin, size)), Begin, size)
<1> DEFINE m == Stay(l, Covered(Begin, size))
<1>1. \A r \in l : r.addr \in Addr /\ r.addr \in Nat /\ r.addr >= 1 /\ r.id \in Nat
  BY Fields DEF Layout, Entry
<1>2. ASSUME NEW r \in m PROVE Begin + size <= r.addr
  <2>1. PICK s \in l : r \in l /\ s.id <= r.id /\ s.addr \notin Covered(Begin, size)
    BY DEF Stay
  <2>2. Begin + size <= s.addr
    BY <1>1, <2>1, Sizes DEF Covered
  <2>3. s.addr <= r.addr
    <3>1. CASE s.id = r.id
      BY <1>1, <2>1, <3>1 DEF Layout, Distinct
    <3>2. CASE s.id # r.id
      BY <1>1, <2>1, <3>2
    <3> QED BY <3>1, <3>2
  <2> QED BY <1>1, <2>1, <2>2, <2>3, Sizes
<1>3. m \subseteq l
  BY DEF Stay
<1>4. Begin \in Addr /\ Fits(Begin, size)
  BY Sizes DEF Addr, Fits
<1>5. \A q, r \in m : q.id < r.id => Around(q.addr, r.addr, Begin)
  <2> SUFFICES ASSUME NEW q \in m, NEW r \in m, q.id < r.id
               PROVE  Around(q.addr, r.addr, Begin)
    OBVIOUS
  <2>1. q.addr < r.addr /\ q.addr \in Nat /\ r.addr \in Nat
    BY <1>1, <1>3
  <2>2. Begin + size <= q.addr
    BY <1>2
  <2> QED BY <2>1, <2>2, Sizes DEF Around
<1> QED BY <1>2, <1>4, <1>5 DEF Clear

-----------------------------------------------------------------------------
\* What removing from the old end does to the list, nextToTransmit, isOverflow.
Listed(l, a) == a = Null \/ \E r \in l : r.addr = a
Dropped(l, a, o, b) ==
    /\ b.list \subseteq l /\ Listed(b.list, b.next) /\ b.ovf \in BOOLEAN
    /\ \A g \in l \ b.list, q \in b.list : g.id < q.id
    /\ From(b.list, b.next) = From(l, a) \ (l \ b.list)
    /\ b.ovf = (o \/ (l \ b.list) \cap From(l, a) # {})

LEMMA OldestIs ==
    ASSUME NEW l, Layout(l)
    PROVE  Listed(l, Oldest(l)) /\ From(l, Oldest(l)) = l
<1>1. CASE l = {}
  BY <1>1 DEF Listed, Oldest, From
<1>2. CASE l # {}
  <2>1. First(l) \in l /\ \A s \in l : First(l).id <= s.id
    BY <1>2, FirstIs DEF Layout
  <2> QED BY <1>2, <2>1 DEF Listed, Oldest, From
<1> QED BY <1>1, <1>2

LEMMA NoneFromNull ==
    ASSUME NEW l, Layout(l)
    PROVE  From(l, Null) = {}
<1>1. \A r \in l : r.addr # Null
  BY Fields DEF Layout, Null
<1> QED BY <1>1 DEF From

LEMMA RemoveDrops ==
    ASSUME NEW l, Layout(l), NEW a, Listed(l, a), NEW o \in BOOLEAN, NEW way,
           NEW b, b = Remove([list |-> l, next |-> a, ovf |-> o], way)
    PROVE  b.list = Stay(l, way) /\ Dropped(l, a, o, b)
<1> DEFINE m == Stay(l, way)
           gone == l \ m
<1>1. /\ b.list = m /\ b.ovf = (o \/ Unsent(gone, a))
      /\ b.next = IF Unsent(gone, a) THEN Oldest(m) ELSE a
  <2>1. b = [list |-> m, next |-> IF Unsent(gone, a) THEN Oldest(m) ELSE a,
             ovf |-> Overflow(o, Unsent(gone, a))]
    BY Zenon, RemoveIs
  <2> QED BY <2>1 DEF Overflow
<1>2. \A r \in l : r.id \in Nat
  BY Fields DEF Layout
<1>3. m \subseteq l
  BY DEF Stay
<1>4. \A g \in gone, q \in m : g.id < q.id
  BY <1>2 DEF Stay
<1>5. Layout(m)
  BY Zenon, <1>3, LayoutOfSubset
<1>6. Listed(m, Oldest(m)) /\ From(m, Oldest(m)) = m
  BY Zenon, <1>5, OldestIs
<1> SUFFICES Dropped(l, a, o, b)
  BY <1>1
<1> HIDE DEF m
<1>7. CASE Unsent(gone, a)
  <2>1. PICK g \in gone : g.addr = a
    BY <1>7 DEF Unsent
  <2>2. \A q \in m : g.id <= q.id
    BY <1>2, <1>3, <1>4, <2>1
  <2>3. g \in From(l, a) /\ m \subseteq From(l, a)
    BY <1>2, <1>3, <2>1, <2>2 DEF From
  <2>4. From(l, a) \ gone = m
    BY <1>3, <2>3 DEF From
  <2>5. b.list = m /\ b.next = Oldest(m) /\ b.ovf = TRUE
    BY <1>1, <1>7
  <2>6. gone \cap From(l, a) # {}
    BY <2>1, <2>3
  <2>7. l \ b.list = gone
    BY <2>5
  <2> QED BY Zenon, <1>3, <1>4, <1>6, <2>4, <2>5, <2>6, <2>7 DEF Dropped
<1>8. CASE ~Unsent(gone, a)
  <2>1. Listed(m, a)
    BY <1>3, <1>8 DEF Listed, Unsent
  <2>2. ASSUME NEW r \in gone PROVE r \notin From(l, a)
    <3> SUFFICES ASSUME NEW s \in l, s.addr = a, s.id <= r.id PROVE FALSE
      BY DEF From
    <3>1. s \in m
      BY <1>8 DEF Unsent
    <3> QED BY <1>2, <1>3, <1>4, <2>2, <3>1
  <2>3. From(m, a) = From(l, a) \ gone
    <3>1. \A s \in l : s.addr = a => s \in m
      BY <1>8 DEF Unsent
    <3> QED BY <1>3, <3>1 DEF From
  <2>4. gone \cap From(l, a) = {}
    BY <2>2
  <2>5. b.list = m /\ b.next = a /\ b.ovf = o
    BY <1>1, <1>8
  <2>6. l \ b.list = gone
    BY <2>5
  <2> QED BY Zenon, <1>3, <1>4, <2>1, <2>3, <2>4, <2>5, <2>6 DEF Dropped
<1> QED BY <1>7, <1>8

LEMMA DroppedTwice ==
    ASSUME NEW l, NEW a, NEW o \in BOOLEAN, NEW b, Dropped(l, a, o, b), NEW c,
           Dropped(b.list, b.next, b.ovf, c)
    PROVE  Dropped(l, a, o, c)
<1>1. c.list \subseteq l /\ l \ c.list = (l \ b.list) \cup (b.list \ c.list)
  BY DEF Dropped
<1>2. \A g \in l \ c.list, q \in c.list : g.id < q.id
  BY <1>1 DEF Dropped
<1>3. From(c.list, c.next) = From(l, a) \ (l \ c.list)
  BY <1>1 DEF Dropped
<1>4. c.ovf = (o \/ (l \ c.list) \cap From(l, a) # {})
  BY <1>1 DEF Dropped
<1> QED BY <1>1, <1>2, <1>3, <1>4 DEF Dropped

LEMMA NothingDropped ==
    ASSUME NEW l, NEW a, Listed(l, a), NEW o \in BOOLEAN
    PROVE  Dropped(l, a, o, [list |-> l, next |-> a, ovf |-> o])
BY DEF Dropped, From

\* What makeRoom leaves, and where it puts the new report.
LEMMA RoomIsMade ==
    ASSUME NEW l, Layout(l), NEW n \in l, \A r \in l : r.id <= n.id,
           NEW size \in 1 .. Size, NEW a, Listed(l, a), NEW o \in BOOLEAN,
           NEW behind, behind = n.addr + n.entryLength,
           NEW b, b = MakeRoom([list |-> l, next |-> a, ovf |-> o], n.addr, behind, size)
    PROVE  /\ Clear(b.list, Position0(n.addr, behind, size), size)
           /\ \/ Dropped(l, a, o, b)
              \/ l = {n} /\ b = [list |-> {}, next |-> Null, ovf |-> o]
<1> DEFINE b0 == [list |-> l, next |-> a, ovf |-> o]
           first == First(l)
           pos == Position0(n.addr, behind, size)
<1>1. first \in l /\ \A r \in l : first.id <= r.id /\ r.id <= n.id
  BY FirstIs DEF Layout
<1>2. \A r \in l : /\ r.addr \in Addr /\ r.addr \in Nat /\ r.addr >= 1 /\ r.id \in Nat
                  /\ r.entryLength \in Nat /\ r.entryLength >= 1
  BY Fields DEF Layout, Entry
<1>3. n.addr # Null /\ Oldest(l) = first.addr
  BY <1>2, Sizes DEF Oldest
<1>4. pos = IF Fits(behind, size) THEN behind ELSE Begin
  BY <1>3 DEF Position0
<1>5. Dropped(l, a, o, b0)
  BY NothingDropped
<1>9. n.addr \in Nat /\ first.addr \in Nat
  BY <1>1, <1>2
<1> HIDE DEF first, pos
<1>6. CASE n.addr = first.addr
  <2>1. n = first
    BY Zenon, <1>1, <1>6, OneAtAnAddress
  <2>2. \A r \in l : r.id = n.id
    BY <1>1, <1>2, <2>1
  <2>3. l = {n}
    BY <2>2 DEF Layout, Distinct
  <2>4. CASE Fits(behind, size)
    <3>1. b = b0
      BY <1>3, <1>6, <2>4 DEF MakeRoom
    <3>2. Clear(l, behind, size)
      <4>1. \A r \in l : r.addr <= n.addr
        BY <1>2, <2>3
      <4>2. \A q, r \in l : ~(q.id < r.id)
        BY <1>2, <2>3
      <4>3. OutOfTheWay(l, n, behind, size)
        BY <4>1, <4>2 DEF OutOfTheWay
      <4> QED BY Zenon, <2>4, <4>3, ClearBehind
    <3> QED BY <1>4, <1>5, <2>4, <3>1, <3>2 DEF pos
  <2>5. CASE ~Fits(behind, size)
    <3>1. b = [list |-> {}, next |-> Null, ovf |-> o]
      BY <1>3, <1>6, <2>5 DEF MakeRoom
    <3> QED BY <1>4, <2>3, <2>5, <3>1, ClearWhenEmpty DEF pos
  <2> QED BY <2>4, <2>5
<1>7. CASE n.addr > first.addr
  <2>1. \A q, r \in l : q.id < r.id => q.addr < r.addr
    BY <1>1, <1>2, <1>7, Increasing
  <2>2. CASE Fits(behind, size)
    <3>1. b = b0
      BY <1>2, <1>3, <1>7, <2>2 DEF MakeRoom
    <3>2. \A r \in l : r.addr <= n.addr
      <4> SUFFICES ASSUME NEW r \in l PROVE r.addr <= n.addr
        OBVIOUS
      <4>1. r.id < n.id \/ r.id = n.id
        BY <1>1, <1>2
      <4>2. r.id = n.id => r = n
        BY DEF Layout, Distinct
      <4> QED BY <1>2, <2>1, <4>1, <4>2
    <3>3. Clear(l, behind, size)
      <4>1. OutOfTheWay(l, n, behind, size)
        BY <2>1, <3>2 DEF OutOfTheWay
      <4> QED BY Zenon, <2>2, <4>1, ClearBehind
    <3> QED BY <1>4, <1>5, <2>2, <3>1, <3>3 DEF pos
  <2>3. CASE ~Fits(behind, size)
    <3>1. b = Remove(b0, Covered(Begin, size))
      BY <1>2, <1>3, <1>7, <2>3 DEF MakeRoom
    <3>2. b.list = Stay(l, Covered(Begin, size)) /\ Dropped(l, a, o, b)
      BY Zenon, <3>1, RemoveDrops
    <3>3. Clear(b.list, Begin, size)
      BY <2>1, <3>2, ClearAtBegin
    <3> QED BY <1>4, <2>3, <3>2, <3>3 DEF pos
  <2> QED BY <2>2, <2>3
<1>8. CASE n.addr < first.addr
  <2>1. /\ \A r \in l : r.addr <= n.addr \/ first.addr <= r.addr
        /\ \A q, r \in l : q.id < r.id =>
             \/ q.addr < r.addr /\ (r.addr <= n.addr \/ first.addr <= q.addr)
             \/ first.addr <= q.addr /\ r.addr <= n.addr
    BY <1>1, <1>8, Wrapped
  <2>2. CASE Fits(behind, size)
    <3> DEFINE way == Covered(behind, size) \ {Begin}
    <3>1. b = Remove(b0, way)
      BY <1>3, <1>8, <1>9, <2>2 DEF MakeRoom
    <3> HIDE DEF way
    <3>2. b.list = Stay(l, way) /\ Dropped(l, a, o, b)
      BY Zenon, <3>1, RemoveDrops
    <3>3. ASSUME NEW r \in b.list
          PROVE  r.addr <= n.addr \/ behind + size <= r.addr
      <4>1. PICK s \in l : r \in l /\ s.id <= r.id /\ s.addr \notin way
        BY <3>2 DEF Stay
      <4>2. s.id < r.id \/ s = r
        BY <1>2, <4>1 DEF Layout, Distinct
      <4>3. s.addr = Begin \/ behind + size <= s.addr
        BY <1>2, <4>1, Sizes DEF way, Covered
      <4>4. r.addr <= n.addr \/ (s.addr <= r.addr /\ first.addr <= s.addr)
        BY <1>1, <1>2, <2>1, <4>1, <4>2
      <4>5. s.addr = Begin => ~(first.addr <= s.addr)
        BY <1>1, <1>2, <1>8, Sizes
      <4> QED BY <1>2, <4>1, <4>3, <4>4, <4>5, Sizes
    <3>4. ASSUME NEW q \in b.list, NEW r \in b.list, q.id < r.id
          PROVE  \/ q.addr < r.addr /\ (r.addr <= n.addr \/ behind <= q.addr)
                 \/ behind <= q.addr /\ r.addr <= n.addr
      <4>1. q \in l /\ r \in l
        BY <3>2 DEF Stay
      <4>2. q.addr <= n.addr \/ behind + size <= q.addr
        BY <3>3
      <4>3. \/ q.addr < r.addr /\ (r.addr <= n.addr \/ first.addr <= q.addr)
            \/ first.addr <= q.addr /\ r.addr <= n.addr
        BY <2>1, <3>4, <4>1
      <4> QED BY <1>1, <1>2, <1>8, <4>1, <4>2, <4>3, Sizes
    <3>5. b.list \subseteq l
      BY <3>2 DEF Stay
    <3>6. Clear(b.list, behind, size)
      <4>1. OutOfTheWay(b.list, n, behind, size)
        BY Zenon, <3>3, <3>4 DEF OutOfTheWay
      <4> QED BY Zenon, <2>2, <3>5, <4>1, ClearBehind
    <3>7. Position0(n.addr, behind, size) = behind
      BY <1>4, <2>2 DEF pos
    <3> QED BY Zenon, <3>2, <3>6, <3>7
  <2>3. CASE ~Fits(behind, size)
    <3> DEFINE c == Remove(b0, Addr \ {Begin})
    <3>1. b = Remove(c, Covered(Begin, size))
      BY <1>3, <1>8, <1>9, <2>3 DEF MakeRoom
    <3>2. c.list = Stay(l, Addr \ {Begin}) /\ Dropped(l, a, o, c)
      BY Zenon, RemoveDrops
    <3>3. c = [list |-> c.list, next |-> c.next, ovf |-> c.ovf]
      BY DEF Remove
    <3> HIDE DEF c
    <3>4. c.list \subseteq l /\ Listed(c.list, c.next) /\ c.ovf \in BOOLEAN
      BY <3>2 DEF Dropped
    <3>5. Layout(c.list)
      BY Zenon, <3>4, LayoutOfSubset
    <3>6. b.list = Stay(c.list, Covered(Begin, size)) /\ Dropped(c.list, c.next, c.ovf, b)
      <4>1. b = Remove([list |-> c.list, next |-> c.next, ovf |-> c.ovf],
                       Covered(Begin, size))
        BY Zenon, <3>1, <3>3
      <4> QED BY <3>4, <3>5, <4>1, RemoveDrops
    <3>7. ASSUME NEW r \in c.list PROVE r.addr <= n.addr
      <4>1. PICK s \in l : r \in l /\ s.id <= r.id /\ s.addr \notin Addr \ {Begin}
        BY <3>2 DEF Stay
      <4>2. s.addr = Begin
        BY <1>2, <4>1
      <4>3. s.id < r.id \/ s = r
        BY <1>2, <4>1 DEF Layout, Distinct
      <4> QED BY <1>1, <1>2, <1>8, <2>1, <4>1, <4>2, <4>3, Sizes
    <3>8. \A q, r \in c.list : q.id < r.id => q.addr < r.addr
      <4> SUFFICES ASSUME NEW q \in c.list, NEW r \in c.list, q.id < r.id
                   PROVE  q.addr < r.addr
        OBVIOUS
      <4>1. q.addr <= n.addr /\ q \in l /\ r \in l
        BY <3>4, <3>7
      <4> QED BY <1>1, <1>2, <1>8, <2>1, <4>1
    <3>9. Clear(b.list, Begin, size)
      BY <3>5, <3>6, <3>8, ClearAtBegin
    <3>10. Dropped(l, a, o, b)
      BY Zenon, <3>2, <3>6, DroppedTwice
    <3> QED BY <1>4, <2>3, <3>9, <3>10 DEF pos
  <2> QED BY <2>2, <2>3
<1> QED BY <1>6, <1>7, <1>8, <1>9

-----------------------------------------------------------------------------
\* TypeOK is inductive by itself.
LEMMA OldestType ==
    ASSUME NEW l \in SUBSET Entry
    PROVE  Oldest(l) \in Addr \cup {Null}
<1>1. CASE l = {}
  BY <1>1 DEF Oldest
<1>2. CASE l # {}
  <2>1. First(l) \in Entry
    BY <1>2, FirstIs
  <2> QED BY <1>2, <2>1 DEF Oldest, Entry
<1> QED BY <1>1, <1>2

Room == [list : SUBSET Entry, next : Addr \cup {Null}, ovf : BOOLEAN]

LEMMA RemoveType ==
    ASSUME NEW b \in Room, NEW way
    PROVE  Remove(b, way) \in Room
<1> DEFINE stay == {r \in b.list :
                      \E s \in b.list : s.id <= r.id /\ s.addr \notin way}
           unsent == \E r \in b.list \ stay : r.addr = b.next
<1>1. Remove(b, way) = [list |-> stay, next |-> IF unsent THEN Oldest(stay) ELSE b.next,
                        ovf |-> b.ovf \/ unsent]
  BY Zenon DEF Remove, Overflow
<1>2. stay \subseteq Entry /\ unsent \in BOOLEAN
  BY DEF Room
<1> HIDE DEF stay, unsent
<1>3. Oldest(stay) \in Addr \cup {Null}
  BY <1>2, OldestType
<1> QED BY <1>1, <1>2, <1>3 DEF Room

LEMMA MakeRoomType ==
    ASSUME NEW b \in Room, NEW last, NEW behind, NEW size
    PROVE  MakeRoom(b, last, behind, size) \in Room
<1>1. [b EXCEPT !.list = {}, !.next = Null] \in Room
  BY DEF Room
<1>2. \A way : Remove(b, way) \in Room
  BY Zenon, RemoveType
<1>3. \A c, way : c \in Room => Remove(c, way) \in Room
  BY Zenon, RemoveType
<1> QED BY Zenon, <1>1, <1>2, <1>3 DEF MakeRoom

LEMMA EnqueueType ==
    ASSUME TypeOK, NEW gi \in BOOLEAN, NEW size \in Nat \ {0}, EnqueueReport(gi, size)
    PROVE  TypeOK'
<1> DEFINE last   == Last(list)
           behind == IF list = {} THEN Begin ELSE last + Newest(list).entryLength
           b0 == IF gi THEN [list |-> RemoveAllGIReports(list),
                             next |-> NextAfterGI(list, nextToTransmit),
                             ovf  |-> isOverflow]
                 ELSE [list |-> list, next |-> nextToTransmit, ovf |-> isOverflow]
           b1 == MakeRoom(b0, last, behind, size)
           e  == [addr |-> Position0(last, behind, size), entryLength |-> size,
                  id |-> lastEntryId + 1, gi |-> gi]
           alone == last = Oldest(b0.list) /\ b0.next # Null /\ b1.list = {}
<1>1. /\ size <= Size /\ lastEntryId < MaxReports /\ lastEntryId' = lastEntryId + 1
      /\ list' = b1.list \cup {e}
      /\ nextToTransmit' = IF b1.next = Null THEN e.addr ELSE b1.next
      /\ isOverflow' = b1.ovf /\ severed' = (last # Last(b0.list))
      /\ withdrawn' = withdrawn \cup (Ids(list) \ Ids(b0.list))
      /\ excused' = (excused \/ (alone /\ ~b1.ovf))
      /\ UNCHANGED <<isResync, session, seen>>
  BY Zenon DEF EnqueueReport
<1>2. RemoveAllGIReports(list) \subseteq Entry
      /\ RemoveAllGIReports(From(list, nextToTransmit)) \subseteq Entry
  BY DEF RemoveAllGIReports, From, TypeOK
<1>3. NextAfterGI(list, nextToTransmit) \in Addr \cup {Null}
  BY <1>2, OldestType DEF NextAfterGI
<1>4. b0 \in Room
  BY <1>2, <1>3 DEF Room, TypeOK
<1>5. b1 \in Room
  <2> HIDE DEF b0, behind
  <2> QED BY <1>4, MakeRoomType
<1>6. list # {} => /\ last \in Addr /\ last \in Nat /\ last >= 1
                   /\ Newest(list).entryLength \in Nat
  <2> SUFFICES ASSUME list # {}
               PROVE  /\ Newest(list).addr \in Addr /\ Newest(list).addr \in Nat
                      /\ Newest(list).addr >= 1 /\ Newest(list).entryLength \in Nat
    BY DEF Last
  <2>1. Newest(list) \in Entry
    BY NewestIs DEF TypeOK
  <2> QED BY <2>1, Fields DEF Entry
<1>7. e.addr \in Addr
  <2>1. CASE last # Null /\ Fits(behind, size)
    <3>1. list # {} /\ e.addr = last + Newest(list).entryLength
      BY <2>1 DEF Last, Position0
    <3>2. e.addr + size <= Begin + Size
      BY <2>1 DEF Fits, Position0
    <3> HIDE DEF e, last
    <3> QED BY <1>1, <1>6, <3>1, <3>2, Sizes DEF Addr
  <2>2. CASE ~(last # Null /\ Fits(behind, size))
    <3>1. e.addr = Begin
      BY <2>2 DEF Position0
    <3> QED BY <1>1, <3>1, Sizes DEF Addr
  <2> QED BY <2>1, <2>2
<1>8. lastEntryId' \in 0 .. MaxReports /\ lastEntryId' \in Id
  BY <1>1, Sizes DEF TypeOK, Id
<1>9. e \in Entry
  <2>1. size \in 1 .. Size
    BY <1>1, Sizes
  <2>2. e.addr \in Addr /\ lastEntryId + 1 \in Id
    BY <1>1, <1>7, <1>8
  <2> QED BY <2>1, <2>2 DEF Entry
<1> HIDE DEF b0, b1, e, last, alone, behind
<1>10. list' \subseteq Entry /\ nextToTransmit' \in Addr \cup {Null} /\ isOverflow' \in BOOLEAN
  BY <1>1, <1>5, <1>7, <1>9 DEF Room
<1>11. withdrawn' \subseteq Id
  <2>1. Ids(list) \subseteq Id
    BY DEF Ids, TypeOK, Entry
  <2> QED BY <1>1, <2>1 DEF TypeOK
<1>12. severed' \in BOOLEAN /\ excused' \in BOOLEAN
  BY <1>1, <1>5 DEF TypeOK
<1> QED BY <1>1, <1>8, <1>10, <1>11, <1>12 DEF TypeOK, session

LEMMA AfterType ==
    ASSUME TypeOK, NEW r \in list
    PROVE  Oldest(After(list, r.addr)) \in Addr \cup {Null} /\ r.id \in 0 .. MaxReports
<1>1. After(list, r.addr) \subseteq Entry
  BY DEF After, TypeOK
<1>2. r.id \in 0 .. MaxReports
  BY Fields, Sizes DEF TypeOK
<1> QED BY <1>1, <1>2, OldestType

\* The variables keep to their ranges (TypeOK), whatever is enqueued, transmitted
\* and written.
THEOREM TypeCorrect == Spec => []TypeOK
<1>1. Init => TypeOK
  <2>1. 0 \in 0 .. MaxReports
    BY Sizes
  <2> QED BY <2>1 DEF Init, TypeOK
<1>2. TypeOK /\ [Next]_vars => TypeOK'
  <2> SUFFICES ASSUME TypeOK, [Next]_vars PROVE TypeOK'
    OBVIOUS
  <2>1. CASE EnqueueChange
    BY <2>1, EnqueueType, Sizes DEF EnqueueChange
  <2>2. CASE EnqueueIntegrity \/ EnqueueGI
    <3>1. FullSize \in Nat \ {0} /\ TRUE \in BOOLEAN /\ FALSE \in BOOLEAN
      BY Sizes
    <3>2. EnqueueReport(FALSE, FullSize) \/ EnqueueReport(TRUE, FullSize)
      BY <2>2 DEF EnqueueIntegrity, EnqueueGI
    <3> QED BY Zenon, <3>1, <3>2, EnqueueType
  <2>3. CASE SendNextReportEntry
    BY <2>3, AfterType DEF SendNextReportEntry, TypeOK, session
  <2>4. CASE Enable
    BY <2>4, OldestType DEF Enable, TypeOK
  <2>5. CASE Disable
    BY <2>5 DEF Disable, TypeOK, history
  <2>12. CASE SendOutOfMemory
    BY <2>12 DEF SendOutOfMemory, TypeOK, session
  <2>6. CASE WriteEntryID
    BY <2>6, AfterType DEF WriteEntryID, TypeOK, session
  <2>7. CASE WriteZeroEntryID
    BY <2>7, OldestType DEF WriteZeroEntryID, TypeOK, session
  <2>8. CASE PurgeBuf
    <3>1. Ids(list) \subseteq Id
      BY DEF Ids, TypeOK, Entry
    <3> QED BY <2>8, <3>1 DEF PurgeBuf, TypeOK, session
  <2>9. CASE LinkFails
    BY <2>9 DEF LinkFails, TypeOK, buffer, history
  <2>10. CASE DeactivateReportsForConnection
    BY <2>10 DEF DeactivateReportsForConnection, TypeOK, buffer, history
  <2>11. CASE UNCHANGED vars
    BY <2>11 DEF TypeOK, vars, buffer, session, history
  <2> QED BY <2>1, <2>2, <2>3, <2>4, <2>5, <2>6, <2>7, <2>8, <2>9, <2>10, <2>11, <2>12
      DEF Next
<1> QED BY <1>1, <1>2, PTL DEF Spec

-----------------------------------------------------------------------------
\* The inductive invariant.  The list is laid out in the block, nextToTransmit is
\* on it, nothing but old reports is missing from it that was not withdrawn, and
\* what the client has not got is withdrawn or still to be transmitted, unless
\* it will be told.
Sound   == Layout(list) /\ Listed(list, nextToTransmit)
           /\ \A r \in list : r.id <= lastEntryId
NoHoles == \A r \in list : \A i \in r.id + 1 .. lastEntryId :
             i \in withdrawn \/ i \in Ids(list)
Told    == (owner = "client" \/ isResync) /\ ~isOverflow /\ ~excused
             => \A i \in seen + 1 .. lastEntryId :
                  i \in withdrawn \/ i \in Ids(From(list, nextToTransmit))
IInv    == TypeOK /\ (~severed => Sound /\ NoHoles /\ Told)

\* The list and nextToTransmit without the GI reports.
Others(l, gi)   == IF gi THEN RemoveAllGIReports(l) ELSE l
Place(l, gi, a) == IF gi THEN NextAfterGI(l, a) ELSE a

LEMMA WithoutGI ==
    ASSUME NEW l, Layout(l), NEW a, Listed(l, a), NEW gi \in BOOLEAN
    PROVE  /\ Others(l, gi) \subseteq l /\ Layout(Others(l, gi))
           /\ Listed(Others(l, gi), Place(l, gi, a))
           /\ From(Others(l, gi), Place(l, gi, a)) = From(l, a) \cap Others(l, gi)
<1> DEFINE k == RemoveAllGIReports(l)
           p == RemoveAllGIReports(From(l, a))
           f == First(p)
<1>1. k \subseteq l /\ p \subseteq From(l, a) /\ From(l, a) \subseteq l /\ p = From(l, a) \cap k
  BY DEF RemoveAllGIReports, From
<1>2. Layout(k)
  BY Zenon, <1>1, LayoutOfSubset
<1>3. Listed(k, Oldest(p)) /\ From(k, Oldest(p)) = p
  <2>1. CASE p = {}
    BY <1>2, <2>1, NoneFromNull DEF Oldest, Listed
  <2>2. CASE p # {}
    <3>1. p \in SUBSET Entry
      BY <1>1 DEF Layout
    <3>2. f \in p /\ \A s \in p : f.id <= s.id
      <4> HIDE DEF p
      <4> QED BY <2>2, <3>1, FirstIs
    <3>3. Oldest(p) = f.addr
      BY <2>2 DEF Oldest
    <3>4. \A s \in k : s.addr = f.addr => s = f
      <4> HIDE DEF k, p, f
      <4> QED BY Zenon, <1>1, <1>2, <3>2, OneAtAnAddress
    <3> HIDE DEF f, k, p
    <3>5. From(k, f.addr) = {r \in k : f.id <= r.id}
      BY <1>1, <3>2, <3>4 DEF From
    <3>6. \A r \in l : r.id \in Nat
      BY Fields DEF Layout
    <3>7. \A r \in l : f.id <= r.id => r \in From(l, a)
      <4>1. PICK s \in l : s.addr = a /\ s.id <= f.id
        BY <1>1, <3>2 DEF From
      <4>2. f \in l
        BY <1>1, <3>2
      <4>3. \A r \in l : f.id <= r.id => s.id <= r.id
        BY <3>6, <4>1, <4>2
      <4> QED BY <4>1, <4>3 DEF From
    <3>8. From(k, f.addr) = p
      BY <1>1, <3>2, <3>5, <3>7
    <3> QED BY <1>1, <3>2, <3>3, <3>8 DEF Listed
  <2> QED BY <2>1, <2>2
<1>4. CASE gi
  BY <1>1, <1>2, <1>3, <1>4 DEF Others, Place, NextAfterGI
<1>5. CASE ~gi
  BY <1>1, <1>5 DEF Others, Place
<1> QED BY <1>4, <1>5

\* enqueueReport in terms of the reports that stay.
EnqueuedTo(gi, size, b, e) ==
    /\ e \in Entry /\ e.id = lastEntryId + 1 /\ e.gi = gi /\ e.entryLength = size
    /\ list' = b.list \cup {e}
    /\ nextToTransmit' = IF b.next = Null THEN e.addr ELSE b.next
    /\ isOverflow' = b.ovf /\ lastEntryId' = lastEntryId + 1
    /\ withdrawn' = withdrawn \cup (Ids(list) \ Ids(Others(list, gi)))
    /\ (excused => excused')
    /\ UNCHANGED <<isResync, session, seen>>
    /\ Clear(b.list, e.addr, size)
    /\ \/ Dropped(Others(list, gi), Place(list, gi, nextToTransmit), isOverflow, b)
       \/ /\ b = [list |-> {}, next |-> Null, ovf |-> isOverflow]
          /\ \E n \in list : Others(list, gi) = {n}
          /\ excused' \/ isOverflow \/ Place(list, gi, nextToTransmit) = Null

LEMMA Enqueued ==
    ASSUME TypeOK, TypeOK', Sound, NEW gi \in BOOLEAN, NEW size \in Nat \ {0},
           EnqueueReport(gi, size), ~severed'
    PROVE  \E b, e : EnqueuedTo(gi, size, b, e)
<1> DEFINE last   == Last(list)
           behind == IF list = {} THEN Begin ELSE last + Newest(list).entryLength
           b0 == IF gi THEN [list |-> RemoveAllGIReports(list),
                             next |-> NextAfterGI(list, nextToTransmit),
                             ovf  |-> isOverflow]
                 ELSE [list |-> list, next |-> nextToTransmit, ovf |-> isOverflow]
           b1 == MakeRoom(b0, last, behind, size)
           e  == [addr |-> Position0(last, behind, size), entryLength |-> size,
                  id |-> lastEntryId + 1, gi |-> gi]
           alone == last = Oldest(b0.list) /\ b0.next # Null /\ b1.list = {}
           l == Others(list, gi)
           a == Place(list, gi, nextToTransmit)
<1>1. /\ size <= Size /\ lastEntryId' = lastEntryId + 1
      /\ list' = b1.list \cup {e}
      /\ nextToTransmit' = IF b1.next = Null THEN e.addr ELSE b1.next
      /\ isOverflow' = b1.ovf /\ severed' = (last # Last(b0.list))
      /\ withdrawn' = withdrawn \cup (Ids(list) \ Ids(b0.list))
      /\ excused' = (excused \/ (alone /\ ~b1.ovf))
      /\ UNCHANGED <<isResync, session, seen>>
  BY Zenon DEF EnqueueReport
<1>2. b0 = [list |-> l, next |-> a, ovf |-> isOverflow]
  BY Zenon DEF Others, Place
<1>3. /\ l \subseteq list /\ Layout(l) /\ Listed(l, a)
  BY Zenon, WithoutGI DEF Sound
<1>4. size \in 1 .. Size /\ isOverflow \in BOOLEAN
  BY <1>1, Sizes DEF TypeOK
<1>5. e \in Entry /\ e.id = lastEntryId + 1 /\ e.gi = gi /\ e.entryLength = size
      /\ e.addr = Position0(last, behind, size)
  <2>1. e \in list'
    BY <1>1
  <2> QED BY Zenon, <2>1 DEF TypeOK
<1>6. last = Last(l)
  BY <1>1, <1>2
<1>7. b0.list = l /\ b0.next = a
  BY <1>2
<1> HIDE DEF b0, e, l, a
<1>8. CASE list = {}
  <2>1. last = Null /\ l = {}
    BY <1>3, <1>8 DEF Last
  <2>2. b1 = b0 /\ e.addr = Begin
    BY <1>5, <2>1 DEF MakeRoom, Position0
  <2>3. Dropped(l, a, isOverflow, b1)
    BY <1>2, <1>3, <1>4, <2>2, NothingDropped
  <2>4. Clear(b1.list, e.addr, size)
    BY <1>4, <1>7, <2>1, <2>2, ClearWhenEmpty
  <2> HIDE DEF b1, alone
  <2> QED BY <1>1, <1>5, <1>7, <2>3, <2>4 DEF EnqueuedTo, l, a
<1>9. CASE list # {}
  <2> DEFINE n == Newest(list)
  <2>1. n \in list /\ \A s \in list : s.id <= n.id
    BY <1>9, NewestIs DEF TypeOK
  <2>2. last = n.addr /\ behind = n.addr + n.entryLength
    BY <1>9 DEF Last
  <2>3. n.addr # Null
    BY <2>1, Fields DEF Null, TypeOK
  <2>4. l # {} /\ Newest(l).addr = n.addr
    BY <1>6, <2>2, <2>3 DEF Last
  <2>5. Newest(l) \in l
    BY <1>3, <2>4, NewestIs DEF Layout
  <2>6. Newest(l) = n
    BY <1>3, <2>1, <2>4, <2>5, OneAtAnAddress DEF Sound
  <2> HIDE DEF n, last, behind
  <2>7. b1 = MakeRoom([list |-> l, next |-> a, ovf |-> isOverflow], n.addr, behind, size)
    BY Zenon, <1>2, <2>2
  <2> HIDE DEF b1
  <2>8. n \in l /\ \A r \in l : r.id <= n.id
    BY <1>3, <2>1, <2>5, <2>6
  <2>9. /\ Clear(b1.list, Position0(n.addr, behind, size), size)
        /\ \/ Dropped(l, a, isOverflow, b1)
           \/ l = {n} /\ b1 = [list |-> {}, next |-> Null, ovf |-> isOverflow]
    BY <1>3, <1>4, <2>2, <2>7, <2>8, RoomIsMade, SMTT(30)
  <2>10. Clear(b1.list, e.addr, size)
    BY Zenon, <1>5, <2>2, <2>9
  <2>11. ASSUME l = {n}, b1 = [list |-> {}, next |-> Null, ovf |-> isOverflow]
         PROVE  excused' \/ isOverflow \/ a = Null
    <3>1. Oldest(l) = n.addr
      <4>1. First(l) \in l
        BY <1>3, <2>8, FirstIs DEF Layout
      <4> QED BY <2>11, <4>1 DEF Oldest
    <3>2. b1.list = {} /\ b1.ovf = isOverflow
      BY <2>11
    <3> QED BY <1>1, <1>7, <2>2, <3>1, <3>2
  <2> HIDE DEF alone
  <2>12. excused => excused'
    BY <1>1
  <2>13. \/ Dropped(l, a, isOverflow, b1)
         \/ /\ b1 = [list |-> {}, next |-> Null, ovf |-> isOverflow]
            /\ \E m \in list : l = {m}
            /\ excused' \/ isOverflow \/ a = Null
    BY Zenon, <2>1, <2>9, <2>11
  <2>14. EnqueuedTo(gi, size, b1, e)
    BY Zenon, <1>1, <1>5, <1>7, <2>10, <2>12, <2>13 DEF EnqueuedTo, l, a
  <2> QED BY Zenon, <2>14
<1> QED BY <1>8, <1>9

-----------------------------------------------------------------------------
\* What is to be transmitted when a report has been added.
LEMMA FromWithOneMore ==
    ASSUME NEW m, NEW e, Layout(m \cup {e}), \A r \in m : r.id < e.id,
           NEW x, Listed(m, x), NEW y, x = Null => y = e.addr, x # Null => y = x
    PROVE  From(m \cup {e}, y) = From(m, x) \cup {e} /\ Listed(m \cup {e}, y)
<1> DEFINE l == m \cup {e}
<1>1. Layout(m)
  BY Zenon, LayoutOfSubset
<1>2. \A r \in l : r.id \in Nat /\ r.addr # Null
  BY Fields DEF Layout, Null
<1>3. CASE x = Null
  <2>1. From(m, x) = {}
    BY <1>1, <1>3, NoneFromNull
  <2>2. \A s \in l : s.addr = e.addr => s = e
    <3>1. e \in l
      OBVIOUS
    <3> QED BY Zenon, <3>1, OneAtAnAddress
  <2>3. From(l, e.addr) = {e}
    <3>1. \A r \in l : e.id <= r.id => r = e
      BY <1>2
    <3>2. e.id <= e.id
      BY <1>2
    <3> QED BY <2>2, <3>1, <3>2 DEF From
  <2> QED BY <1>3, <2>1, <2>3 DEF Listed
<1>4. CASE x # Null
  <2>1. PICK s \in m : s.addr = x
    BY <1>4 DEF Listed
  <2>2. s.id <= e.id
    BY <1>2, <2>1
  <2>3. From(l, x) \subseteq From(m, x) \cup {e}
    <3> SUFFICES ASSUME NEW r \in m, NEW q \in l, q.addr = x, q.id <= r.id
                 PROVE  \E t \in m : t.addr = x /\ t.id <= r.id
      BY DEF From
    <3>1. q = s
      <4>1. s \in l
        OBVIOUS
      <4> QED BY Zenon, <2>1, <4>1, OneAtAnAddress
    <3> QED BY <2>1, <3>1
  <2>4. From(m, x) \cup {e} \subseteq From(l, x)
    BY <2>1, <2>2 DEF From
  <2> QED BY <1>4, <2>1, <2>3, <2>4 DEF Listed
<1> QED BY <1>3, <1>4

LEMMA EnqueueKeepsLayout ==
    ASSUME TypeOK, Sound, NEW gi \in BOOLEAN, NEW size, NEW b, NEW e,
           EnqueuedTo(gi, size, b, e)
    PROVE  /\ b.list \subseteq Others(list, gi) /\ b.list \subseteq list
           /\ Layout(b.list) /\ Layout(list')
           /\ \A r \in b.list : r.id < e.id
           /\ From(list', nextToTransmit') = From(b.list, b.next) \cup {e}
           /\ Listed(list', nextToTransmit')
<1>1. Others(list, gi) \subseteq list
  BY Zenon, WithoutGI DEF Sound
<1>2. b.list \subseteq Others(list, gi) /\ Listed(b.list, b.next)
  BY DEF EnqueuedTo, Dropped, Listed
<1>3. Layout(b.list)
  BY Zenon, <1>1, <1>2, LayoutOfSubset DEF Sound
<1>4. \A r \in b.list : r.id < e.id
  <2>1. \A r \in list : r.id \in Nat /\ r.id <= lastEntryId
    BY Fields DEF Sound, TypeOK
  <2>2. lastEntryId \in Nat
    BY Sizes DEF TypeOK
  <2> QED BY <1>1, <1>2, <2>1, <2>2 DEF EnqueuedTo
<1>5. e \in Entry /\ Clear(b.list, e.addr, e.entryLength) /\ list' = b.list \cup {e}
  BY Zenon DEF EnqueuedTo
<1>6. Layout(b.list \cup {e})
  <2>1. Fits(e.addr, e.entryLength)
    BY <1>5 DEF Clear
  <2>2. \A r \in b.list : Apart(r, e)
    BY <1>5 DEF Clear, Apart
  <2>3. \A q, r \in b.list : q.id < r.id => Around(q.addr, r.addr, e.addr)
    BY <1>5 DEF Clear
  <2> QED BY Zenon, <1>3, <1>4, <1>5, <2>1, <2>2, <2>3, LayoutWithOneMore
<1>7. nextToTransmit' = IF b.next = Null THEN e.addr ELSE b.next
  BY DEF EnqueuedTo
<1>8. /\ From(b.list \cup {e}, nextToTransmit') = From(b.list, b.next) \cup {e}
      /\ Listed(b.list \cup {e}, nextToTransmit')
  <2>1. /\ b.next = Null => nextToTransmit' = e.addr
        /\ b.next # Null => nextToTransmit' = b.next
    BY <1>7
  <2> QED BY Zenon, <1>2, <1>4, <1>6, <2>1, FromWithOneMore
<1> QED BY <1>1, <1>2, <1>3, <1>4, <1>5, <1>6, <1>8

LEMMA EnqueueKeeps ==
    ASSUME TypeOK, TypeOK', Sound, NoHoles, Told, NEW gi \in BOOLEAN,
           NEW size \in Nat \ {0}, EnqueueReport(gi, size), ~severed'
    PROVE  Sound' /\ NoHoles' /\ Told'
<1> DEFINE l == Others(list, gi)
           a == Place(list, gi, nextToTransmit)
<1>1. PICK b, e : EnqueuedTo(gi, size, b, e)
  BY Zenon, Enqueued
<1>2. /\ b.list \subseteq l /\ b.list \subseteq list
      /\ Layout(b.list) /\ Layout(list')
      /\ \A r \in b.list : r.id < e.id
      /\ From(list', nextToTransmit') = From(b.list, b.next) \cup {e}
      /\ Listed(list', nextToTransmit')
  BY Zenon, <1>1, EnqueueKeepsLayout
<1>3. /\ e.id = lastEntryId + 1 /\ lastEntryId' = lastEntryId + 1
      /\ list' = b.list \cup {e} /\ UNCHANGED <<isResync, session, seen>>
      /\ isOverflow' = b.ovf /\ (excused => excused')
  BY Zenon, <1>1 DEF EnqueuedTo
<1>4. withdrawn' = withdrawn \cup (Ids(list) \ Ids(l))
  BY Zenon, <1>1 DEF EnqueuedTo
<1>5. \/ Dropped(l, a, isOverflow, b)
      \/ /\ b = [list |-> {}, next |-> Null, ovf |-> isOverflow]
         /\ excused' \/ isOverflow \/ a = Null
  BY Zenon, <1>1 DEF EnqueuedTo
<1>6. lastEntryId \in Nat /\ seen \in Nat /\ \A r \in list' : r.id \in Nat
  BY <1>2, Sizes, Fields DEF TypeOK, Layout
<1>7. /\ l \subseteq list /\ Layout(l) /\ Listed(l, a)
      /\ From(l, a) = From(list, nextToTransmit) \cap l
  BY Zenon, WithoutGI DEF Sound
<1>8. \A i : i \in Ids(list) => i \in withdrawn' \/ i \in Ids(l)
  BY <1>4
<1> HIDE DEF l, a
<1>9. Sound'
  <2>1. \A r \in list' : r.id <= lastEntryId'
    BY <1>2, <1>3, <1>6
  <2> QED BY Zenon, <1>2, <2>1 DEF Sound
<1>10. NoHoles'
  <2> SUFFICES ASSUME NEW r \in list', NEW i \in r.id + 1 .. lastEntryId'
               PROVE  i \in withdrawn' \/ i \in Ids(list')
    BY DEF NoHoles
  <2>1. CASE i = lastEntryId'
    BY <1>3, <2>1 DEF Ids
  <2>2. CASE i # lastEntryId'
    <3>1. i \in r.id + 1 .. lastEntryId /\ r \in b.list
      BY <1>2, <1>3, <1>6, <2>2
    <3>2. i \in withdrawn \/ i \in Ids(list)
      BY <1>2, <3>1 DEF NoHoles
    <3>3. ASSUME i \in Ids(l) PROVE i \in Ids(list')
      <4>1. PICK q \in l : q.id = i
        BY <3>3 DEF Ids
      <4>2. Dropped(l, a, isOverflow, b)
        BY <1>5, <3>1
      <4>3. q \in b.list
        <5> SUFFICES ASSUME q \notin b.list PROVE FALSE
          OBVIOUS
        <5>1. q.id < r.id
          BY <3>1, <4>1, <4>2 DEF Dropped
        <5> QED BY <1>6, <3>1, <4>1, <5>1
      <4> QED BY <1>3, <4>1, <4>3 DEF Ids
    <3> QED BY <1>4, <1>8, <3>2, <3>3
  <2> QED BY <2>1, <2>2
<1>11. Told'
  <2> SUFFICES ASSUME owner = "client" \/ isResync, ~isOverflow', ~excused',
                      NEW i \in seen + 1 .. lastEntryId'
               PROVE  i \in withdrawn' \/ i \in Ids(From(list', nextToTransmit'))
    BY <1>3 DEF Told, session
  <2>1. ~excused /\ ~isOverflow /\ ~b.ovf
    <3>1. CASE Dropped(l, a, isOverflow, b)
      BY <1>3, <3>1 DEF Dropped
    <3>2. CASE b = [list |-> {}, next |-> Null, ovf |-> isOverflow]
      BY <1>3, <3>2
    <3> QED BY <1>5, <3>1, <3>2
  <2>2. CASE i = lastEntryId'
    BY <1>2, <1>3, <2>2 DEF Ids
  <2>3. CASE i # lastEntryId'
    <3>1. i \in seen + 1 .. lastEntryId
      BY <1>3, <1>6, <2>3
    <3>2. i \in withdrawn \/ i \in Ids(From(list, nextToTransmit))
      BY <2>1, <3>1 DEF Told
    <3>3. ASSUME i \in Ids(From(list, nextToTransmit))
          PROVE  i \in withdrawn' \/ i \in Ids(From(b.list, b.next))
      <4>1. PICK q \in From(list, nextToTransmit) : q.id = i
        BY <3>3 DEF Ids
      <4>2. q \in list
        BY <4>1 DEF From
      <4>3. CASE q \notin l
        <5>1. i \notin Ids(l)
          BY <1>7, <4>1, <4>2, <4>3 DEF Ids, Sound, Layout, Distinct
        <5> QED BY <1>8, <4>1, <4>2, <5>1 DEF Ids
      <4>4. CASE q \in l
        <5>1. q \in From(l, a)
          BY <1>7, <4>1, <4>4
        <5>2. a # Null
          BY <1>7, <5>1, NoneFromNull
        <5>3. Dropped(l, a, isOverflow, b)
          BY <1>5, <2>1, <5>2
        <5>4. q \in From(b.list, b.next)
          BY <2>1, <4>4, <5>1, <5>3 DEF Dropped
        <5> QED BY <4>1, <5>4 DEF Ids
      <4> QED BY <4>3, <4>4
    <3>4. i \in Ids(From(b.list, b.next)) => i \in Ids(From(list', nextToTransmit'))
      BY <1>2 DEF Ids
    <3> QED BY <1>4, <3>2, <3>3, <3>4
  <2> QED BY <2>2, <2>3
<1> QED BY <1>9, <1>10, <1>11

-----------------------------------------------------------------------------
\* The reports from one on, and those after it, are those of greater ids.
LEMMA FromOne ==
    ASSUME NEW l, Layout(l), NEW r \in l
    PROVE  /\ From(l, r.addr) = {q \in l : r.id <= q.id}
           /\ After(l, r.addr) = {q \in l : r.id < q.id}
<1>1. \A s \in l : s.addr = r.addr => s = r
  BY Zenon, OneAtAnAddress
<1> QED BY <1>1 DEF From, After

LEMMA NextOne ==
    ASSUME NEW l, Layout(l), NEW r \in l
    PROVE  /\ Listed(l, Oldest(After(l, r.addr)))
           /\ From(l, Oldest(After(l, r.addr))) = {q \in l : r.id < q.id}
<1> DEFINE k == {q \in l : r.id < q.id}
           f == First(k)
<1>1. After(l, r.addr) = k
  BY FromOne
<1>2. \A q \in l : q.id \in Nat
  BY Fields DEF Layout
<1>3. CASE k = {}
  BY <1>1, <1>3, NoneFromNull DEF Oldest, Listed
<1>4. CASE k # {}
  <2>1. k \in SUBSET Entry
    BY DEF Layout
  <2>2. f \in k /\ \A q \in k : f.id <= q.id
    <3> HIDE DEF k
    <3> QED BY <1>4, <2>1, FirstIs
  <2>3. Oldest(k) = f.addr
    BY <1>4 DEF Oldest
  <2> HIDE DEF f
  <2>4. From(l, f.addr) = {q \in l : f.id <= q.id}
    BY <2>2, FromOne
  <2>5. {q \in l : f.id <= q.id} = k
    BY <1>2, <2>2
  <2> QED BY <1>1, <2>2, <2>3, <2>4, <2>5 DEF Listed
<1> QED BY <1>3, <1>4

LEMMA SendKeeps ==
    ASSUME TypeOK, Sound, NoHoles, SendNextReportEntry
    PROVE  Sound' /\ NoHoles' /\ Told'
<1>1. PICK r \in list :
        /\ r.addr = nextToTransmit
        /\ nextToTransmit' = Oldest(After(list, r.addr))
        /\ IF owner = "client"
           THEN seen' = r.id /\ excused' = (excused /\ ~isOverflow)
           ELSE excused' = (excused \/ isResync) /\ UNCHANGED seen
  BY Zenon DEF SendNextReportEntry
<1>2. UNCHANGED <<list, lastEntryId, severed, isResync, owner, withdrawn>>
  BY DEF SendNextReportEntry, session
<1>3. /\ Listed(list, nextToTransmit')
      /\ From(list, nextToTransmit') = {q \in list : r.id < q.id}
  BY <1>1, NextOne DEF Sound
<1>4. Sound' /\ NoHoles'
  BY <1>2, <1>3 DEF Sound, NoHoles
<1>5. Told'
  <2> SUFFICES ASSUME owner' = "client" \/ isResync', ~excused',
                      NEW i \in seen' + 1 .. lastEntryId'
               PROVE  i \in withdrawn' \/ i \in Ids(From(list', nextToTransmit'))
    BY DEF Told
  <2>1. owner = "client" /\ seen' = r.id
    BY <1>1, <1>2
  <2>2. i \in withdrawn \/ i \in Ids(list)
    BY <1>2, <2>1 DEF NoHoles
  <2>3. r.id \in Nat /\ lastEntryId \in Nat
    BY Fields, Sizes DEF TypeOK
  <2>4. i \in Ids(list) => i \in Ids({q \in list : r.id < q.id})
    BY <1>2, <2>1, <2>3 DEF Ids
  <2> QED BY <1>2, <1>3, <2>2, <2>4
<1> QED BY <1>4, <1>5

LEMMA ResyncKeeps ==
    ASSUME TypeOK, Sound, NoHoles, WriteEntryID
    PROVE  Sound' /\ NoHoles' /\ Told'
<1>1. UNCHANGED <<list, lastEntryId, seen, withdrawn>>
  BY DEF WriteEntryID
<1>2. CASE seen \in Ids(list)
  <2>1. PICK r \in list : r.id = seen /\ nextToTransmit' = Oldest(After(list, r.addr))
    BY <1>2 DEF WriteEntryID
  <2>2. /\ Listed(list, nextToTransmit')
        /\ From(list, nextToTransmit') = {q \in list : r.id < q.id}
    BY <2>1, NextOne DEF Sound
  <2>3. Sound' /\ NoHoles'
    BY <1>1, <2>2 DEF Sound, NoHoles
  <2>4. Told'
    <3> SUFFICES ASSUME NEW i \in seen + 1 .. lastEntryId
                 PROVE  i \in withdrawn \/ i \in Ids({q \in list : r.id < q.id})
      BY <1>1, <2>2 DEF Told
    <3>1. i \in withdrawn \/ i \in Ids(list)
      BY <2>1 DEF NoHoles
    <3>2. r.id \in Nat /\ lastEntryId \in Nat
      BY Fields, Sizes DEF TypeOK
    <3> QED BY <2>1, <3>1, <3>2 DEF Ids
  <2> QED BY <2>3, <2>4
<1>3. CASE seen \notin Ids(list)
  BY <1>1, <1>3 DEF WriteEntryID, Sound, NoHoles, Told
<1> QED BY <1>2, <1>3

LEMMA Invariant == Spec => []IInv
<1>1. Init => IInv
  <2> SUFFICES ASSUME Init PROVE IInv
    OBVIOUS
  <2>1. TypeOK
    <3>1. 0 \in 0 .. MaxReports
      BY Sizes
    <3> QED BY <3>1 DEF Init, TypeOK
  <2>2. Layout({})
    BY DEF Layout, Distinct, InBlock, AllApart, Cyclic
  <2> QED BY <2>1, <2>2 DEF Init, IInv, Sound, NoHoles, Told, Listed
<1>2. IInv /\ TypeOK' /\ [Next]_vars => IInv'
  <2> SUFFICES ASSUME TypeOK, TypeOK', ~severed', [Next]_vars, ~severed => Sound /\ NoHoles /\ Told
               PROVE  Sound' /\ NoHoles' /\ Told'
    BY Zenon DEF IInv
  <2>1. ~severed /\ Sound /\ NoHoles /\ Told
    <3>1. ~severed
      BY DEF Next, EnqueueChange, EnqueueIntegrity, EnqueueGI, EnqueueReport,
             SendNextReportEntry, SendOutOfMemory, Enable, Disable, WriteEntryID,
             WriteZeroEntryID, PurgeBuf, LinkFails, DeactivateReportsForConnection,
             vars, buffer
    <3> QED BY <3>1
  <2>2. CASE EnqueueChange
    BY <2>1, <2>2, EnqueueKeeps, Sizes DEF EnqueueChange
  <2>3. CASE EnqueueIntegrity \/ EnqueueGI
    <3>1. FullSize \in Nat \ {0} /\ TRUE \in BOOLEAN /\ FALSE \in BOOLEAN
      BY Sizes
    <3>2. EnqueueReport(FALSE, FullSize) \/ EnqueueReport(TRUE, FullSize)
      BY <2>3 DEF EnqueueIntegrity, EnqueueGI
    <3> QED BY Zenon, <2>1, <3>1, <3>2, EnqueueKeeps
  <2>4. CASE SendNextReportEntry
    BY <2>1, <2>4, SendKeeps
  <2>13. CASE SendOutOfMemory
    BY <2>1, <2>13 DEF SendOutOfMemory, session, Sound, NoHoles, Told
  <2>5. CASE Enable
    <3>1. Listed(list, Oldest(list))
      BY <2>1, OldestIs DEF Sound
    <3> QED BY <2>1, <2>5, <3>1 DEF Enable, Sound, NoHoles, Told
  <2>6. CASE Disable
    BY <2>1, <2>6 DEF Disable, history, Sound, NoHoles, Told
  <2>7. CASE WriteEntryID
    BY <2>1, <2>7, ResyncKeeps
  <2>8. CASE WriteZeroEntryID
    <3>1. Listed(list, Oldest(list))
      BY <2>1, OldestIs DEF Sound
    <3> QED BY <2>1, <2>8, <3>1 DEF WriteZeroEntryID, Sound, NoHoles, Told
  <2>9. CASE PurgeBuf
    <3>1. Layout({})
      BY DEF Layout, Distinct, InBlock, AllApart, Cyclic
    <3>2. Ids(From(list, nextToTransmit)) \subseteq Ids(list)
      BY DEF Ids, From
    <3>3. list' = {} /\ nextToTransmit' = Null /\ withdrawn' = withdrawn \cup Ids(list)
          /\ UNCHANGED <<isOverflow, lastEntryId, isResync, session, seen, excused>>
      BY <2>9 DEF PurgeBuf
    <3>4. Told'
      BY <2>1, <3>2, <3>3 DEF Told, session
    <3> QED BY <3>1, <3>3, <3>4 DEF Sound, NoHoles, Listed
  <2>10. CASE LinkFails
    BY <2>1, <2>10 DEF LinkFails, buffer, history, Sound, NoHoles, Told
  <2>11. CASE DeactivateReportsForConnection
    BY <2>1, <2>11 DEF DeactivateReportsForConnection, buffer, history, Sound, NoHoles, Told
  <2>12. CASE UNCHANGED vars
    BY <2>1, <2>12 DEF vars, buffer, session, history, Sound, NoHoles, Told
  <2> QED BY <2>2, <2>3, <2>4, <2>5, <2>6, <2>7, <2>8, <2>9, <2>10, <2>11, <2>12, <2>13
      DEF Next
<1> QED BY <1>1, <1>2, TypeCorrect, PTL DEF Spec

\* The reports on the list lie in the block and apart (EntriesApart), wherever room
\* was made: nothing is written over a report that may still be sent.
THEOREM ReportsStayApart == Spec => []EntriesApart
<1>1. IInv => EntriesApart
  BY DEF IInv, Sound, Layout, InBlock, AllApart, EntriesApart
<1> QED BY <1>1, Invariant, PTL

\* What is transmitted next is on the list (NextIsListed): removing, replacing and
\* purging reports leaves no pointer to one that is gone.
THEOREM NextStaysListed == Spec => []NextIsListed
<1>1. IInv => NextIsListed
  BY DEF IInv, Sound, Listed, NextIsListed
<1> QED BY <1>1, Invariant, PTL

\* A report that reaches the client without the overflow flag leaves nothing out
\* but what was purged or replaced (NoSilentGap).
THEOREM NoGapIsSilent == Spec => NoSilentGap
<1> DEFINE Gap == (seen' # seen /\ ~isOverflow /\ ~excused)
                    => \A i \in seen + 1 .. seen' - 1 : i \in withdrawn
<1>1. IInv /\ [Next]_vars => [Gap]_vars
  <2> SUFFICES ASSUME IInv, Next, seen' # seen, ~isOverflow, ~excused,
                      NEW i \in seen + 1 .. seen' - 1
               PROVE  i \in withdrawn
    BY Zenon
  <2>1. SendNextReportEntry
    BY DEF Next, EnqueueChange, EnqueueIntegrity, EnqueueGI, EnqueueReport,
           SendOutOfMemory, Enable, Disable, WriteEntryID, WriteZeroEntryID, PurgeBuf,
           LinkFails, DeactivateReportsForConnection, history
  <2>2. TypeOK /\ Sound /\ Told
    BY <2>1 DEF IInv, SendNextReportEntry
  <2>3. PICK r \in list : r.addr = nextToTransmit /\ owner = "client" /\ seen' = r.id
    BY <2>1 DEF SendNextReportEntry
  <2>4. From(list, nextToTransmit) = {q \in list : r.id <= q.id}
    BY <2>2, <2>3, FromOne DEF Sound
  <2>5. seen \in Nat /\ r.id \in Nat /\ r.id <= lastEntryId /\ lastEntryId \in Nat
    BY <2>2, Fields, Sizes DEF TypeOK, Sound
  <2>6. i \in seen + 1 .. lastEntryId /\ i < r.id /\ i \in Nat
    BY <2>3, <2>5
  <2>7. i \in withdrawn \/ i \in Ids({q \in list : r.id <= q.id})
    BY <2>2, <2>3, <2>4, <2>6 DEF Told
  <2> QED BY <2>5, <2>6, <2>7 DEF Ids
<1> QED BY <1>1, Invariant, PTL DEF Spec, NoSilentGap

-----------------------------------------------------------------------------
\* The refinement.  A report stands for one entry of the list.
Rep(r) == [id |-> r.id, gi |-> r.gi]

LEMMA ReportsAre ==
    ASSUME NEW l, Layout(l), NEW A \in SUBSET l, NEW B \in SUBSET l
    PROVE  /\ Reports(A \ B) = Reports(A) \ Reports(B)
           /\ Reports(A \cap B) = Reports(A) \cap Reports(B)
<1>1. \A r, s \in l : Rep(r) = Rep(s) => r = s
  <2> SUFFICES ASSUME NEW r \in l, NEW s \in l, Rep(r) = Rep(s) PROVE r = s
    OBVIOUS
  <2>1. Rep(r).id = Rep(s).id
    OBVIOUS
  <2>2. r.id = s.id
    BY <2>1 DEF Rep
  <2> QED BY <2>2 DEF Layout, Distinct
<1>2. \A C : Reports(C) = {Rep(r) : r \in C}
  BY Zenon DEF Reports, Rep
<1> QED BY <1>1, <1>2

LEMMA ReportsMore ==
    ASSUME NEW m, NEW e
    PROVE  Reports(m \cup {e}) = Reports(m) \cup {Rep(e)}
BY DEF Reports, Rep

LEMMA ReportsIds ==
    ASSUME NEW l \in SUBSET Entry
    PROVE  /\ Reports(l) \subseteq [id : Id, gi : BOOLEAN]
           /\ \A q \in Reports(l) : \E r \in l : q = Rep(r) /\ q.id = r.id /\ q.gi = r.gi
           /\ \A r \in l : Rep(r) \in Reports(l) /\ Rep(r).id = r.id /\ Rep(r).gi = r.gi
BY DEF Reports, Rep, Entry

LEMMA EnqueueIsQueued ==
    ASSUME TypeOK, TypeOK', Sound, NEW gi \in BOOLEAN, NEW size \in Nat \ {0},
           EnqueueReport(gi, size), ~severed'
    PROVE  Queue!Enqueue \/ Queue!DropAlone
<1> DEFINE l == Others(list, gi)
           a == Place(list, gi, nextToTransmit)
           pending == From(list, nextToTransmit)
<1>0. \A A, B \in SUBSET list : /\ Reports(A \ B) = Reports(A) \ Reports(B)
                               /\ Reports(A \cap B) = Reports(A) \cap Reports(B)
  BY Zenon, ReportsAre DEF Sound
<1>1. PICK b, e : EnqueuedTo(gi, size, b, e)
  BY Zenon, Enqueued
<1>2. /\ b.list \subseteq l /\ b.list \subseteq list
      /\ \A r \in b.list : r.id < e.id
      /\ From(list', nextToTransmit') = From(b.list, b.next) \cup {e}
  BY Zenon, <1>1, EnqueueKeepsLayout
<1>3. /\ e \in Entry /\ e.id = lastEntryId + 1 /\ e.gi = gi /\ list' = b.list \cup {e}
      /\ isOverflow' = b.ovf
  BY Zenon, <1>1 DEF EnqueuedTo
<1>4. /\ l \subseteq list /\ Layout(l) /\ From(l, a) = pending \cap l
  BY Zenon, WithoutGI DEF Sound
<1>5. \/ Dropped(l, a, isOverflow, b)
      \/ /\ b = [list |-> {}, next |-> Null, ovf |-> isOverflow]
         /\ \E n \in list : l = {n}
  BY Zenon, <1>1 DEF EnqueuedTo
<1>6. l = {r \in list : ~(gi /\ r.gi)}
  BY DEF Others, RemoveAllGIReports
<1>7. pending \subseteq list
  BY DEF From
<1>8. Layout(list) /\ list \subseteq Entry /\ l \subseteq Entry
  BY <1>4 DEF Sound, Layout
<1> HIDE DEF l, a, pending
<1> DEFINE r0 == Rep(e)
           Q == Reports(list)
           P == Reports(pending)
<1>9. /\ r0 \in [id : Id, gi : BOOLEAN] /\ r0.id = e.id /\ r0.gi = gi
      /\ r0 = [id |-> e.id, gi |-> gi]
  BY <1>3 DEF Rep, Entry
<1>10. {q \in Q : ~(r0.gi /\ q.gi)} = Reports(l)
  BY <1>6, <1>8, <1>9, ReportsIds
<1>11. {q \in P : ~(r0.gi /\ q.gi)} = Reports(pending \cap l)
  <2>1. pending \in SUBSET Entry /\ pending \cap l = {r \in pending : ~(gi /\ r.gi)}
    BY <1>6, <1>7, <1>8
  <2> QED BY <1>9, <2>1, ReportsIds
<1>12. \A q \in Q : q.id < r0.id
  <2>1. \A r \in list : r.id <= lastEntryId /\ r.id \in Nat
    BY Fields DEF Sound, TypeOK
  <2>2. lastEntryId \in Nat
    BY Sizes DEF TypeOK
  <2>3. \A r \in list : r.id < r0.id
    BY <1>3, <1>9, <2>1, <2>2
  <2> QED BY <1>8, <2>3, ReportsIds
<1>13. /\ Reports(list') = Reports(b.list) \cup {r0}
       /\ Reports(From(list', nextToTransmit')) = Reports(From(b.list, b.next)) \cup {r0}
  BY <1>2, <1>3, ReportsMore
<1> HIDE DEF r0, Q, P
<1>14. CASE Dropped(l, a, isOverflow, b)
  <2> DEFINE gone == l \ b.list
             G == Reports(gone)
  <2>1. gone \in SUBSET list
    BY <1>4
  <2>2. G \subseteq Q
    BY <2>1 DEF Reports, Q
  <2>3. Reports(b.list) = Reports(l) \ G
    <3>1. b.list = l \ gone
      BY <1>2
    <3> HIDE DEF gone
    <3>2. l \in SUBSET list
      BY <1>4
    <3>3. Reports(l \ gone) = Reports(l) \ Reports(gone)
      BY Zenon, <1>0, <2>1, <3>2
    <3> QED BY Zenon, <3>1, <3>3
  <2>4. Reports(From(b.list, b.next)) = Reports(pending \cap l) \ G
    <3>1. From(b.list, b.next) = (pending \cap l) \ gone
      BY <1>4, <1>14 DEF Dropped
    <3>2. pending \cap l \in SUBSET list
      BY <1>4
    <3> HIDE DEF gone
    <3>3. Reports((pending \cap l) \ gone) = Reports(pending \cap l) \ Reports(gone)
      BY Zenon, <1>0, <2>1, <3>2
    <3> QED BY Zenon, <3>1, <3>3
  <2>5. b.ovf = (isOverflow \/ G \cap Reports(pending \cap l) # {})
    <3>1. b.ovf = (isOverflow \/ gone \cap (pending \cap l) # {})
      BY <1>4, <1>14 DEF Dropped
    <3>2. pending \cap l \in SUBSET list
      BY <1>4
    <3> HIDE DEF gone
    <3>3. Reports(gone \cap (pending \cap l)) = G \cap Reports(pending \cap l)
      BY Zenon, <1>0, <2>1, <3>2
    <3>4. gone \cap (pending \cap l) = {} <=> Reports(gone \cap (pending \cap l)) = {}
      BY DEF Reports
    <3> HIDE DEF G
    <3> QED BY Zenon, <3>1, <3>3, <3>4
  <2>6. G \subseteq Reports(l) /\ \A g \in G, q \in Reports(l) \ G : g.id < q.id
    <3>1. \A g \in gone, q \in b.list : g.id < q.id
      BY <1>14 DEF Dropped
    <3>2. gone \in SUBSET Entry /\ b.list \in SUBSET Entry /\ gone \subseteq l
      BY <1>2, <1>8
    <3>3. G \subseteq Reports(l)
      BY <3>2 DEF Reports
    <3> HIDE DEF gone
    <3>4. \A g \in G, q \in Reports(b.list) : g.id < q.id
      BY <3>1, <3>2, ReportsIds
    <3> HIDE DEF G
    <3> QED BY Zenon, <2>3, <3>3, <3>4
  <2> HIDE DEF gone, G
  <2>7. /\ \A q \in Q : q.id < r0.id
        /\ G \subseteq {q \in Q : ~(r0.gi /\ q.gi)}
        /\ \A g \in G, q \in {q \in Q : ~(r0.gi /\ q.gi)} \ G : g.id < q.id
        /\ Reports(list') = ({q \in Q : ~(r0.gi /\ q.gi)} \ G) \cup {r0}
        /\ Reports(From(list', nextToTransmit')) = ({q \in P : ~(r0.gi /\ q.gi)} \ G) \cup {r0}
        /\ isOverflow' = (isOverflow \/ G \cap {q \in P : ~(r0.gi /\ q.gi)} # {})
    BY Zenon, <1>3, <1>10, <1>11, <1>12, <1>13, <2>3, <2>4, <2>5, <2>6
  <2>8. r0 \in [id : Id, gi : BOOLEAN] /\ G \in SUBSET Q
    BY Zenon, <1>9, <2>2
  <2>9. Queue!Enqueue
    BY Zenon, <2>7, <2>8
       DEF Queue!Enqueue, Queue!Newest, Queue!OldEnd, Queue!Kept, Q, P, pending
  <2> QED BY Zenon, <2>9
<1>15. CASE b = [list |-> {}, next |-> Null, ovf |-> isOverflow] /\ \E n \in list : l = {n}
  <2>1. PICK n \in list : l = {n}
    BY <1>15
  <2>2. Reports(l) = {Rep(n)} /\ Rep(n) \in Q
    BY <2>1 DEF Reports, Rep, Q
  <2>3. b.list = {} /\ b.next = Null /\ b.ovf = isOverflow
    BY <1>15
  <2>4. From(b.list, b.next) = {} /\ Reports({}) = {}
    BY <2>3 DEF From, Reports
  <2>5. Reports(list') = {r0} /\ Reports(From(list', nextToTransmit')) = {r0}
    BY <1>13, <2>3, <2>4
  <2>6. isOverflow' = isOverflow
    BY <1>3, <2>3
  <2>7. r0 \in [id : Id, gi : BOOLEAN]
    BY Zenon, <1>9
  <2>8. {q \in Q : ~(r0.gi /\ q.gi)} = {Rep(n)}
    BY Zenon, <1>10, <2>2
  <2>9. Queue!DropAlone
    BY Zenon, <1>12, <2>2, <2>5, <2>6, <2>7, <2>8
       DEF Queue!DropAlone, Queue!Newest, Queue!Kept, Q
  <2> QED BY Zenon, <2>9
<1> QED BY Zenon, <1>5, <1>14, <1>15

LEMMA SendIsTransmitted ==
    ASSUME TypeOK, Sound, SendNextReportEntry
    PROVE  Queue!Transmit
<1>0. \A A, B \in SUBSET list : /\ Reports(A \ B) = Reports(A) \ Reports(B)
                               /\ Reports(A \cap B) = Reports(A) \cap Reports(B)
  BY Zenon, ReportsAre DEF Sound
<1>1. PICK r \in list : /\ r.addr = nextToTransmit
                       /\ nextToTransmit' = Oldest(After(list, r.addr))
  BY Zenon DEF SendNextReportEntry
<1>2. list' = list /\ isOverflow' = FALSE
  BY DEF SendNextReportEntry
<1> DEFINE P == {q \in list : r.id <= q.id}
<1>3. From(list, nextToTransmit) = P
  BY <1>1, FromOne DEF Sound
<1>4. From(list, nextToTransmit') = {q \in list : r.id < q.id}
  BY <1>1, NextOne DEF Sound
<1>5. \A q \in list : q.id \in Nat
  BY Fields DEF TypeOK
<1>6. {q \in list : r.id < q.id} = P \ {r}
  BY <1>5 DEF Sound, Layout, Distinct
<1>7. P \in SUBSET list /\ {r} \in SUBSET list /\ r \in P
  BY <1>5
<1> HIDE DEF P
<1>8. Reports({r}) = {Rep(r)}
  BY DEF Reports, Rep
<1>9. Reports(P \ {r}) = Reports(P) \ {Rep(r)}
  <2>1. Reports(P \ {r}) = Reports(P) \ Reports({r})
    BY Zenon, <1>0, <1>7
  <2> QED BY Zenon, <1>8, <2>1
<1>10. P \in SUBSET Entry /\ \A q \in P : r.id <= q.id
  BY <1>7 DEF TypeOK, P
<1>11. Rep(r) \in Reports(P) /\ \A q \in Reports(P) : Rep(r).id <= q.id
  BY <1>7, <1>10, ReportsIds
<1> QED BY Zenon, <1>2, <1>3, <1>4, <1>6, <1>9, <1>11 DEF Queue!Transmit

LEMMA WriteIsResync ==
    ASSUME TypeOK, Sound, WriteEntryID
    PROVE  Queue!Resync \/ Queue!Warn
<1>1. list' = list
  BY DEF WriteEntryID
<1>2. CASE seen \in Ids(list)
  <2>1. PICK r \in list : r.id = seen /\ nextToTransmit' = Oldest(After(list, r.addr))
                         /\ isOverflow' = FALSE
    BY <1>2 DEF WriteEntryID
  <2>2. From(list, nextToTransmit') = {q \in list : r.id < q.id}
    BY <2>1, NextOne DEF Sound
  <2>3. Reports({q \in list : r.id < q.id}) = {q \in Reports(list) : q.id > Rep(r).id}
    <3>1. \A q \in list : q.id \in Nat
      BY Fields DEF TypeOK
    <3>2. Reports({q \in list : r.id < q.id}) \subseteq {q \in Reports(list) : q.id > Rep(r).id}
      BY <3>1 DEF Reports, Rep
    <3>3. {q \in Reports(list) : q.id > Rep(r).id} \subseteq Reports({q \in list : r.id < q.id})
      BY <3>1 DEF Reports, Rep
    <3> QED BY <3>2, <3>3
  <2>4. Rep(r) \in Reports(list)
    BY DEF Reports, Rep
  <2> QED BY Zenon, <1>1, <2>1, <2>2, <2>3, <2>4 DEF Queue!Resync
<1>3. CASE seen \notin Ids(list)
  BY <1>1, <1>3 DEF WriteEntryID, Queue!Warn
<1> QED BY <1>2, <1>3

\* The buffer keeps what ReportQueue promises (KeepsQueue): each step of enqueueReport,
\* sendNextReportEntry and the handler of the control block is one of the queue, up
\* to the one that leaves lastEnqueuedReport behind.
THEOREM BufferKeepsQueue == Spec => KeepsQueue
<1>1. Init => Queue!QInit
  BY DEF Init, Queue!QInit, Reports, From
<1>2. IInv /\ TypeOK' /\ [Next]_vars => [Queue!QNext \/ severed']_<<Queue!qvars, severed>>
  <2> SUFFICES ASSUME IInv, TypeOK', [Next]_vars, ~severed'
               PROVE  Queue!QNext \/ UNCHANGED <<Queue!qvars, severed>>
    BY Zenon
  <2>1. CASE UNCHANGED vars
    BY <2>1 DEF vars, buffer, Queue!qvars
  <2>2. CASE Next
    <3>1. TypeOK /\ Sound /\ ~severed
      BY <2>2 DEF IInv, Next, EnqueueChange, EnqueueIntegrity, EnqueueGI, EnqueueReport,
                  SendNextReportEntry, SendOutOfMemory, Enable, Disable, WriteEntryID,
                  WriteZeroEntryID, PurgeBuf, LinkFails,
                  DeactivateReportsForConnection
    <3>2. CASE EnqueueChange
      <4>1. PICK size \in Nat \ {0} : EnqueueReport(FALSE, size)
        BY <3>2, Sizes DEF EnqueueChange
      <4>2. FALSE \in BOOLEAN
        OBVIOUS
      <4> QED BY Zenon, <3>1, <4>1, <4>2, EnqueueIsQueued DEF Queue!QNext
    <3>3. CASE EnqueueIntegrity \/ EnqueueGI
      <4>1. FullSize \in Nat \ {0} /\ TRUE \in BOOLEAN /\ FALSE \in BOOLEAN
        BY Sizes
      <4>2. EnqueueReport(FALSE, FullSize) \/ EnqueueReport(TRUE, FullSize)
        BY <3>3 DEF EnqueueIntegrity, EnqueueGI
      <4> QED BY Zenon, <3>1, <4>1, <4>2, EnqueueIsQueued DEF Queue!QNext
    <3>4. CASE SendNextReportEntry
      BY Zenon, <3>1, <3>4, SendIsTransmitted DEF Queue!QNext
    <3>13. CASE SendOutOfMemory
      <4>1. Queue!Forget
        BY <3>13 DEF SendOutOfMemory, Queue!Forget
      <4> QED BY Zenon, <4>1 DEF Queue!QNext
    <3>5. From(list, Oldest(list)) = list
      BY <3>1, OldestIs DEF Sound
    <3>6. CASE Enable
      <4>1. CASE isResync
        BY <3>6, <4>1 DEF Enable, Queue!qvars
      <4>2. CASE ~isResync
        <5>1. Queue!Restart
          BY <3>5, <3>6, <4>2 DEF Enable, Queue!Restart
        <5> QED BY Zenon, <5>1 DEF Queue!QNext
      <4> QED BY <4>1, <4>2
    <3>7. CASE Disable
      <4>1. Queue!Warn
        BY <3>7 DEF Disable, Queue!Warn
      <4> QED BY Zenon, <4>1 DEF Queue!QNext
    <3>8. CASE WriteEntryID
      BY Zenon, <3>1, <3>8, WriteIsResync DEF Queue!QNext
    <3>9. CASE WriteZeroEntryID
      <4>1. Queue!Restart
        BY <3>5, <3>9 DEF WriteZeroEntryID, Queue!Restart
      <4> QED BY Zenon, <4>1 DEF Queue!QNext
    <3>10. CASE PurgeBuf
      <4>1. Queue!Purge
        BY <3>10 DEF PurgeBuf, Queue!Purge, Reports, From
      <4> QED BY Zenon, <4>1 DEF Queue!QNext
    <3>11. CASE LinkFails
      BY <3>11 DEF LinkFails, buffer, Queue!qvars
    <3>12. CASE DeactivateReportsForConnection
      BY <3>12 DEF DeactivateReportsForConnection, buffer, Queue!qvars
    <3> QED BY <2>2, <3>2, <3>3, <3>4, <3>6, <3>7, <3>8, <3>9, <3>10, <3>11, <3>12, <3>13
         DEF Next
  <2> QED BY <2>1, <2>2
<1> QED BY <1>1, <1>2, TypeCorrect, Invariant, PTL DEF Spec, KeepsQueue

=============================================================================
