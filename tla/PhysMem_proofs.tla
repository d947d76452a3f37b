--------------------------- MODULE PhysMem_proofs ---------------------------
(***************************************************************************)
(* What alloc_page, free_page and a store into a page do to the free list, *)
(* for every RAM.  The modules that call them cite these lemmas and never  *)
(* look inside the list again.                                             *)
(***************************************************************************)
EXTENDS PhysMem, SequenceTheorems, TLAPS

FreeListWF(r) == LinksSpellHistory(r) /\ NoRepeat(r)

(* The model's NULL is the address 0, which no managed page has. *)
LEMMA NullIsNoPage == NULL \notin Pages
  BY FrameAssumption DEF NULL, Pages

(* An empty free list is one whose head is NULL. *)
LEMMA EmptyList ==
  ASSUME NEW r \in Ram, FreeListWF(r)
  PROVE  /\ r.free_pages_list = NULL <=> r.free = <<>>
         /\ r.free = <<>> <=> FreeSet(r) = {}
  <1>1. r.free \in Seq(Pages)
    BY DEF Ram
  <1>2. CASE r.free = <<>>
    BY <1>1, <1>2 DEF FreeListWF, LinksSpellHistory, FreeHead, FreeSet
  <1>3. CASE r.free # <<>>
    <2>1. 1 \in 1 .. Len(r.free) /\ r.free[1] \in Pages
      BY <1>1, <1>3, EmptySeq, ElementOfSeq, LenProperties
    <2>2. r.free_pages_list = r.free[1]
      BY <1>3 DEF FreeListWF, LinksSpellHistory, FreeHead
    <2>3. QED
      BY <1>3, <2>1, <2>2, NullIsNoPage DEF FreeSet
  <1>4. QED
    BY <1>2, <1>3

(* alloc_page takes the head of the list and nothing else; it returns NULL *)
(* exactly when no page is free.                                           *)
LEMMA AllocPageCorrect ==
  ASSUME NEW r \in Ram, FreeListWF(r)
  PROVE  LET a == alloc_page(r)
         IN  /\ a.ram \in Ram
             /\ a.ram.mem = r.mem
             /\ FreeListWF(a.ram)
             /\ a.page = NULL => FreeSet(r) = {} /\ a.ram = r
             /\ a.page # NULL => /\ a.page \in Pages
                                 /\ a.page \in FreeSet(r)
                                 /\ FreeSet(a.ram) = FreeSet(r) \ {a.page}
  <1> DEFINE a == alloc_page(r)
  <1>1. r.free \in Seq(Pages)
    BY DEF Ram
  <1>2. CASE r.free_pages_list = NULL
    <2>1. a = [page |-> NULL, ram |-> r]
      BY <1>2 DEF alloc_page
    <2>2. QED
      BY <1>2, <2>1, EmptyList
  <1>3. CASE r.free_pages_list # NULL
    <2> DEFINE p == r.free_pages_list
               s == a.ram
    <2>1. r.free # <<>>
      BY <1>3, EmptyList
    <2>2. /\ Len(r.free) \in Nat
          /\ Len(r.free) >= 1
          /\ p = r.free[1]
          /\ p \in Pages
      BY <1>1, <2>1, EmptySeq, ElementOfSeq DEF FreeListWF, LinksSpellHistory, FreeHead
    <2>3. /\ r.mem[p][0] = Link(FreeAfter(r, 1))
          /\ r.mem[p][0].pa = FreeAfter(r, 1)
      BY <2>2 DEF FreeListWF, LinksSpellHistory, Link
    <2>4. /\ a.page = p
          /\ s.mem = r.mem
          /\ s.free = Tail(r.free)
          /\ s.free_pages_list = FreeAfter(r, 1)
          /\ s = [free_pages_list |-> FreeAfter(r, 1), mem |-> r.mem, free |-> Tail(r.free)]
      BY <1>3, <2>3 DEF alloc_page, Ram
    <2>5. /\ s.free \in Seq(Pages)
          /\ Len(s.free) = Len(r.free) - 1
          /\ \A i \in 1 .. Len(s.free) : s.free[i] = r.free[i + 1]
      BY <1>1, <2>1, <2>4, HeadTailProperties
    <2>6. FreeAfter(r, 1) \in Pages \cup {NULL}
      BY <1>1, <2>2, ElementOfSeq DEF FreeAfter
    <2>7. s \in Ram
      BY <2>4, <2>5, <2>6 DEF Ram
    <2>8. LinksSpellHistory(s)
      <3>1. s.free_pages_list = FreeHead(s)
        <4>1. CASE Len(r.free) = 1
          BY <2>4, <2>5, <4>1, EmptySeq DEF FreeAfter, FreeHead
        <4>2. CASE Len(r.free) # 1
          <5>a. \A n \in Nat : n >= 1 /\ n # 1 => 1 < n /\ 1 \in 1 .. n - 1
            OBVIOUS
          <5>1. 1 \in 1 .. Len(s.free) /\ 1 < Len(r.free)
            BY <2>2, <2>5, <4>2, <5>a
          <5>2. s.free # <<>>
            BY <5>1, EmptySeq
          <5>3. s.free[1] = r.free[1 + 1]
            BY <2>5, <5>1
          <5>4. QED
            BY <2>4, <5>1, <5>2, <5>3 DEF FreeAfter, FreeHead
        <4>3. QED
          BY <4>1, <4>2
      <3>2. ASSUME NEW i \in 1 .. Len(s.free)
            PROVE  s.mem[s.free[i]][0] = Link(FreeAfter(s, i))
        <4>1. i + 1 \in 1 .. Len(r.free) /\ s.free[i] = r.free[i + 1]
          BY <2>2, <2>5
        <4>2. r.mem[r.free[i + 1]][0] = Link(FreeAfter(r, i + 1))
          BY <4>1 DEF FreeListWF, LinksSpellHistory
        <4>3. FreeAfter(s, i) = FreeAfter(r, i + 1)
          BY <2>2, <2>5 DEF FreeAfter
        <4>4. QED
          BY <2>4, <4>1, <4>2, <4>3
      <3>3. QED
        BY <3>1, <3>2 DEF LinksSpellHistory
    <2>9. NoRepeat(s)
      BY <2>2, <2>5 DEF FreeListWF, NoRepeat
    <2>10. FreeSet(s) = FreeSet(r) \ {p}
      <3>1. ASSUME NEW q \in FreeSet(s) PROVE q \in FreeSet(r) \ {p}
        <4>1. PICK i \in 1 .. Len(s.free) : q = s.free[i]
          BY DEF FreeSet
        <4>2. /\ i + 1 \in 1 .. Len(r.free)
              /\ i + 1 # 1
              /\ q = r.free[i + 1]
          BY <2>2, <2>5, <4>1
        <4>3. r.free[i + 1] # r.free[1]
          BY <2>2, <4>2 DEF FreeListWF, NoRepeat
        <4>4. QED
          BY <2>2, <4>2, <4>3 DEF FreeSet
      <3>2. ASSUME NEW q \in FreeSet(r), q # p PROVE q \in FreeSet(s)
        <4>1. PICK i \in 1 .. Len(r.free) : q = r.free[i]
          BY DEF FreeSet
        <4>2. i - 1 \in 1 .. Len(s.free) /\ s.free[i - 1] = q
          <5>1. i # 1
            BY <2>2, <3>2, <4>1
          <5>2. i - 1 \in 1 .. Len(s.free)
            BY <2>2, <2>5, <4>1, <5>1
          <5>3. s.free[i - 1] = r.free[(i - 1) + 1]
            BY <2>5, <5>2
          <5>4. (i - 1) + 1 = i
            BY <2>2
          <5>. QED
            BY <4>1, <5>2, <5>3, <5>4
        <4>3. QED
          BY <4>2 DEF FreeSet
      <3>3. QED
        BY <3>1, <3>2
    <2>11. p \in FreeSet(r)
      BY <2>2 DEF FreeSet
    <2>12. QED
      BY <1>3, <2>2, <2>4, <2>7, <2>8, <2>9, <2>10, <2>11 DEF FreeListWF
  <1>4. QED
    BY <1>2, <1>3

(* free_page puts a page that was not free in front of the list and writes *)
(* only the first word of that page.                                       *)
LEMMA FreePageCorrect ==
  ASSUME NEW r \in Ram, FreeListWF(r), NEW page \in Pages, page \notin FreeSet(r)
  PROVE  LET s == free_page(r, page)
         IN  /\ s \in Ram
             /\ s.mem = [r.mem EXCEPT ![page][0] = Link(r.free_pages_list)]
             /\ FreeListWF(s)
             /\ FreeSet(s) = FreeSet(r) \cup {page}
  <1> DEFINE s == free_page(r, page)
             m == [r.mem EXCEPT ![page][0] = Link(r.free_pages_list)]
  <1>1. /\ r.free \in Seq(Pages)
        /\ r.mem \in [Pages -> Content]
        /\ r.free_pages_list \in Pages \cup {NULL}
    BY DEF Ram
  <1>2. 0 \in Slots
    BY SlotAssumption DEF Slots
  <1>3. s = [free_pages_list |-> page, mem |-> m, free |-> <<page>> \o r.free]
    <2> DEFINE f == <<page>> \o r.free
    <2> HIDE DEF m, f
    <2>1. s = [r EXCEPT !.mem = m, !.free_pages_list = page, !.free = f]
      BY DEF free_page, m, f
    <2>2. QED
      BY <2>1 DEF Ram, f
  <1>4. m \in [Pages -> Content]
    <2>1. Link(r.free_pages_list) \in Word
      BY <1>1 DEF Link, Word
    <2>2. [r.mem[page] EXCEPT ![0] = Link(r.free_pages_list)] \in Content
      BY <1>1, <2>1 DEF Content
    <2>3. QED
      BY <1>1, <2>2
  <1>5. /\ s.free \in Seq(Pages)
        /\ Len(r.free) \in Nat
        /\ Len(s.free) = Len(r.free) + 1
        /\ s.free[1] = page
        /\ \A i \in 1 .. Len(r.free) : s.free[i + 1] = r.free[i]
    <2>1. <<page>> \in Seq(Pages) /\ Len(<<page>>) = 1 /\ <<page>>[1] = page
      OBVIOUS
    <2>2. /\ <<page>> \o r.free \in Seq(Pages)
          /\ Len(<<page>> \o r.free) = 1 + Len(r.free)
          /\ \A i \in 1 .. 1 + Len(r.free) :
               (<<page>> \o r.free)[i] = IF i <= 1 THEN <<page>>[i] ELSE r.free[i - 1]
      BY <1>1, <2>1, ConcatProperties
    <2>3. Len(r.free) \in Nat
      BY <1>1, LenProperties
    <2>4. s.free = <<page>> \o r.free
      BY <1>3
    <2>5. s.free[1] = page
      BY <2>1, <2>2, <2>3, <2>4
    <2>6. ASSUME NEW i \in 1 .. Len(r.free) PROVE s.free[i + 1] = r.free[i]
      <3>1. i + 1 \in 1 .. 1 + Len(r.free) /\ ~(i + 1 <= 1) /\ (i + 1) - 1 = i
        BY <2>3
      <3>2. QED
        BY <2>2, <2>4, <3>1
    <2>7. QED
      BY <2>2, <2>3, <2>4, <2>5, <2>6
  <1>6. s \in Ram
    BY <1>3, <1>4, <1>5 DEF Ram
  <1>7. /\ s.mem = m
        /\ s.free_pages_list = page
        /\ s.mem[page][0] = Link(r.free_pages_list)
        /\ \A q \in Pages : q # page => s.mem[q] = r.mem[q]
    BY <1>1, <1>2, <1>3 DEF Content
  <1>8. LinksSpellHistory(s)
    <2>1. s.free_pages_list = FreeHead(s)
      <3>1. s.free # <<>>
        BY <1>5, EmptySeq
      <3>2. QED
        BY <1>5, <1>7, <3>1 DEF FreeHead
    <2>2. s.mem[s.free[1]][0] = Link(FreeAfter(s, 1))
      <3>1. CASE r.free = <<>>
        BY <1>5, <1>7, <3>1, EmptySeq DEF FreeAfter, FreeListWF, LinksSpellHistory, FreeHead
      <3>2. CASE r.free # <<>>
        <4>1. Len(r.free) >= 1
          BY <1>1, <3>2, EmptySeq
        <4>2. 1 \in 1 .. Len(r.free) /\ 1 < Len(s.free)
          BY <1>5, <4>1
        <4>3. s.free[1 + 1] = r.free[1]
          BY <1>5, <4>2
        <4>4. r.free_pages_list = r.free[1]
          BY <3>2 DEF FreeListWF, LinksSpellHistory, FreeHead
        <4>5. QED
          BY <1>5, <1>7, <4>2, <4>3, <4>4 DEF FreeAfter
      <3>3. QED
        BY <3>1, <3>2
    <2>3. ASSUME NEW i \in 1 .. Len(r.free)
          PROVE  s.mem[s.free[i + 1]][0] = Link(FreeAfter(s, i + 1))
      <3>1. r.free[i] \in Pages /\ r.free[i] # page
        BY <1>1, ElementOfSeq DEF FreeSet
      <3>2. s.mem[s.free[i + 1]][0] = Link(FreeAfter(r, i))
        BY <1>5, <1>7, <3>1 DEF FreeListWF, LinksSpellHistory
      <3>3. FreeAfter(s, i + 1) = FreeAfter(r, i)
        <4>1. CASE i < Len(r.free)
          <5>1. i + 1 \in 1 .. Len(r.free) /\ i + 1 < Len(s.free)
            BY <1>5, <4>1
          <5>2. s.free[(i + 1) + 1] = r.free[i + 1]
            BY <1>5, <5>1
          <5>3. QED
            BY <4>1, <5>1, <5>2 DEF FreeAfter
        <4>2. CASE ~(i < Len(r.free))
          BY <1>5, <4>2 DEF FreeAfter
        <4>3. QED
          BY <4>1, <4>2
      <3>4. QED
        BY <3>2, <3>3
    <2>4. ASSUME NEW i \in 1 .. Len(s.free), i # 1
          PROVE  s.mem[s.free[i]][0] = Link(FreeAfter(s, i))
      <3>1. i - 1 \in 1 .. Len(r.free) /\ (i - 1) + 1 = i
        BY <1>5, <2>4
      <3>2. QED
        BY <2>3, <3>1
    <2>5. QED
      BY <2>1, <2>2, <2>4 DEF LinksSpellHistory
  <1>9. ASSUME NEW i \in 1 .. Len(s.free), i # 1
        PROVE  i - 1 \in 1 .. Len(r.free) /\ s.free[i] = r.free[i - 1]
    <2>1. i - 1 \in 1 .. Len(r.free) /\ (i - 1) + 1 = i
      BY <1>5, <1>9
    <2>2. QED
      BY <1>5, <2>1
  <1>10. ASSUME NEW i \in 1 .. Len(s.free), i # 1
         PROVE  s.free[i] # page
    BY <1>9, <1>10 DEF FreeSet
  <1>11. NoRepeat(s)
    <2>1. SUFFICES ASSUME NEW i \in 1 .. Len(s.free), NEW j \in 1 .. Len(s.free),
                          s.free[i] = s.free[j]
                   PROVE  i = j
      BY DEF NoRepeat
    <2>2. CASE i = 1 \/ j = 1
      BY <1>5, <1>10, <2>1, <2>2
    <2>3. CASE i # 1 /\ j # 1
      <3>1. i - 1 = j - 1
        BY <1>9, <2>1, <2>3 DEF FreeListWF, NoRepeat
      <3>2. QED
        BY <1>5, <3>1
    <2>4. QED
      BY <2>2, <2>3
  <1>12. FreeSet(s) = FreeSet(r) \cup {page}
    <2>1. ASSUME NEW q \in FreeSet(s) PROVE q \in FreeSet(r) \cup {page}
      <3>1. PICK i \in 1 .. Len(s.free) : q = s.free[i]
        BY DEF FreeSet
      <3>2. QED
        BY <1>5, <1>9, <3>1 DEF FreeSet
    <2>2. ASSUME NEW q \in FreeSet(r) PROVE q \in FreeSet(s)
      <3>1. PICK i \in 1 .. Len(r.free) : q = r.free[i]
        BY DEF FreeSet
      <3>2. i + 1 \in 1 .. Len(s.free) /\ s.free[i + 1] = q
        BY <1>5, <3>1
      <3>3. QED
        BY <3>2 DEF FreeSet
    <2>3. page \in FreeSet(s)
      <3>1. 1 \in 1 .. Len(s.free)
        BY <1>5
      <3>2. QED
        BY <1>5, <3>1 DEF FreeSet
    <2>4. QED
      BY <2>1, <2>2, <2>3
  <1>13. QED
    BY <1>6, <1>7, <1>8, <1>11, <1>12 DEF FreeListWF

(* Overwriting a page that is not free leaves the free list alone.         *)
LEMMA FillCorrect ==
  ASSUME NEW r \in Ram, FreeListWF(r),
         NEW page \in Pages, page \notin FreeSet(r), NEW c \in Content
  PROVE  LET s == [r EXCEPT !.mem[page] = c]
         IN  /\ s \in Ram
             /\ s.mem = [r.mem EXCEPT ![page] = c]
             /\ FreeListWF(s)
             /\ FreeSet(s) = FreeSet(r)
  <1> DEFINE s == [r EXCEPT !.mem[page] = c]
             m == [r.mem EXCEPT ![page] = c]
  <1>1. /\ r.free \in Seq(Pages)
        /\ r.mem \in [Pages -> Content]
        /\ r.free_pages_list \in Pages \cup {NULL}
    BY DEF Ram
  <1>2. s = [free_pages_list |-> r.free_pages_list, mem |-> m, free |-> r.free]
    BY DEF Ram
  <1>3. m \in [Pages -> Content]
    BY <1>1
  <1>4. s \in Ram
    BY <1>1, <1>2, <1>3 DEF Ram
  <1>5. \A q \in Pages : q # page => s.mem[q] = r.mem[q]
    BY <1>1, <1>2
  <1>6. /\ s.mem = m
        /\ s.free = r.free
        /\ s.free_pages_list = r.free_pages_list
    BY <1>2
  <1>7. FreeSet(s) = FreeSet(r)
    BY <1>6 DEF FreeSet
  <1>8. LinksSpellHistory(s)
    <2>1. s.free_pages_list = FreeHead(s)
      BY <1>6 DEF FreeListWF, LinksSpellHistory, FreeHead
    <2>2. ASSUME NEW k \in 1 .. Len(s.free)
          PROVE  s.mem[s.free[k]][0] = Link(FreeAfter(s, k))
      <3>1. r.free[k] \in Pages /\ r.free[k] # page
        BY <1>1, <1>6, ElementOfSeq DEF FreeSet
      <3>2. r.mem[r.free[k]][0] = Link(FreeAfter(r, k))
        BY <1>6 DEF FreeListWF, LinksSpellHistory
      <3>3. FreeAfter(s, k) = FreeAfter(r, k)
        BY <1>6 DEF FreeAfter
      <3>4. QED
        BY <1>5, <1>6, <3>1, <3>2, <3>3
    <2>3. QED
      BY <2>1, <2>2 DEF LinksSpellHistory
  <1>9. NoRepeat(s)
    BY <1>6 DEF FreeListWF, NoRepeat
  <1>10. QED
    BY <1>4, <1>6, <1>7, <1>8, <1>9 DEF FreeListWF

(* So does a store of one word: it is the page with that word changed.     *)
LEMMA StoreCorrect ==
  ASSUME NEW r \in Ram, FreeListWF(r),
         NEW page \in Pages, page \notin FreeSet(r), NEW i \in Slots, NEW w \in Word
  PROVE  LET s == [r EXCEPT !.mem[page][i] = w]
         IN  /\ s \in Ram
             /\ s.mem = [r.mem EXCEPT ![page][i] = w]
             /\ FreeListWF(s)
             /\ FreeSet(s) = FreeSet(r)
  <1> DEFINE c == [r.mem[page] EXCEPT ![i] = w]
  <1>1. r.mem \in [Pages -> Content]
    BY DEF Ram
  <1>2. c \in Content
    BY <1>1 DEF Content
  <1>3. /\ [r EXCEPT !.mem[page][i] = w] = [r EXCEPT !.mem[page] = c]
        /\ [r.mem EXCEPT ![page][i] = w] = [r.mem EXCEPT ![page] = c]
    BY <1>1 DEF Ram
  <1> HIDE DEF c
  <1>4. QED
    BY <1>2, <1>3, FillCorrect
=============================================================================
