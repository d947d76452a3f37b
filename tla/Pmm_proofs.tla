----------------------------- MODULE Pmm_proofs -----------------------------
(***************************************************************************)
(* For every RAM size, page size and set of client words: the state stays  *)
(* well typed, the free list stays intact, no page is lost or shared, and  *)
(* the allocator implements PageAllocator.  The three invariants hold only *)
(* together (FreeListIntact keeps a popped link a page, PagesAccounted     *)
(* keeps clients off the links), so their conjunction is what is shown     *)
(* inductive.                                                              *)
(***************************************************************************)
EXTENDS Pmm, PhysMem_proofs

IInv == TypeOK /\ FreeListIntact /\ PagesAccounted

LEMMA InvFacts ==
  ASSUME IInv
  PROVE  /\ ram \in Ram
         /\ FreeListWF(ram)
         /\ FreeSet(ram) \cap held = {}
  BY DEF IInv, TypeOK, FreeListIntact, FreeListWF, PagesAccounted

LEMMA InitInv == Init => IInv
  <1> SUFFICES ASSUME Init PROVE IInv
    OBVIOUS
  <1>1. PICK m \in [Pages -> [Slots -> Stores]] :
          ram = [free_pages_list |-> NULL, mem |-> m, free |-> <<>>]
    BY DEF Init
  <1>2. m \in [Pages -> Content]
    BY StoresAssumption DEF Content
  <1>3. ram \in Ram
    BY <1>1, <1>2, EmptySeq DEF Ram
  <1>4. TypeOK
    BY <1>3, FrameAssumption DEF Init, TypeOK, NULL
  <1>5. ram.free = <<>> /\ Len(ram.free) = 0 /\ ram.free_pages_list = NULL
    BY <1>1
  <1>6. FreeListIntact
    BY <1>5 DEF FreeListIntact, LinksSpellHistory, FreeHead, NoRepeat
  <1>7. PagesAccounted
    BY <1>5, FrameAssumption DEF PagesAccounted, FreeSet, Init
  <1>8. QED
    BY <1>4, <1>6, <1>7 DEF IInv

(* What each action does, in the vocabulary of the abstract allocator.     *)
LEMMA PmmInitStep ==
  ASSUME IInv, pmm_init
  PROVE  /\ IInv'
         /\ cursor \in Pages
         /\ cursor \notin FreeSet(ram) \cup held
         /\ FreeSet(ram)' = FreeSet(ram) \cup {cursor}
  <1>1. cursor \in Pages /\ cursor \notin FreeSet(ram) \cup held
    BY FrameAssumption DEF pmm_init, IInv, TypeOK, PagesAccounted, Pages
  <1>2. /\ ram' \in Ram
        /\ FreeListWF(ram')
        /\ FreeSet(ram') = FreeSet(ram) \cup {cursor}
    BY <1>1, InvFacts, FreePageCorrect DEF pmm_init
  <1>3. cursor' \in KERNEL_END .. RAM_END /\ cursor' - 1 = cursor
    BY FrameAssumption DEF pmm_init, IInv, TypeOK
  <1>4. TypeOK'
    BY <1>2, <1>3 DEF pmm_init, IInv, TypeOK
  <1>5. PagesAccounted'
    <2>1. KERNEL_END .. cursor = (KERNEL_END .. cursor - 1) \cup {cursor}
      BY <1>1, FrameAssumption DEF Pages
    <2>2. QED
      BY <1>1, <1>2, <1>3, <2>1 DEF pmm_init, IInv, PagesAccounted, FreeSet
  <1>6. QED
    BY <1>1, <1>2, <1>4, <1>5 DEF IInv, FreeListIntact, FreeListWF, FreeSet,
       LinksSpellHistory, NoRepeat, FreeHead, FreeAfter

LEMMA AllocPageStep ==
  ASSUME IInv, AllocPage
  PROVE  /\ IInv'
         /\ \/ ret' = NULL /\ FreeSet(ram) = {} /\ UNCHANGED <<ram, held>>
            \/ /\ ret' \in Pages
               /\ ret' \in FreeSet(ram)
               /\ FreeSet(ram)' = FreeSet(ram) \ {ret'}
               /\ held' = held \cup {ret'}
  <1> DEFINE a == alloc_page(ram)
  <1>1. /\ ram' = a.ram
        /\ ret' = a.page
        /\ held' = held \cup ({a.page} \ {NULL})
        /\ cursor' = cursor
    BY DEF AllocPage
  <1>2. /\ a.ram \in Ram
        /\ FreeListWF(a.ram)
        /\ a.page = NULL => FreeSet(ram) = {} /\ a.ram = ram
        /\ a.page # NULL => /\ a.page \in Pages
                            /\ a.page \in FreeSet(ram)
                            /\ FreeSet(a.ram) = FreeSet(ram) \ {a.page}
    BY InvFacts, AllocPageCorrect
  <1> HIDE DEF a
  <1>3. CASE a.page = NULL
    <2>1. ret' = NULL /\ FreeSet(ram) = {} /\ UNCHANGED <<ram, held, cursor>>
      BY <1>1, <1>2, <1>3
    <2>2. IInv'
      BY <2>1 DEF IInv, TypeOK, FreeListIntact, PagesAccounted, LinksSpellHistory,
         NoRepeat, FreeHead, FreeAfter, FreeSet
    <2>3. QED
      BY <2>1, <2>2
  <1>4. CASE a.page # NULL
    <2>1. /\ ret' \in Pages
          /\ ret' \in FreeSet(ram)
          /\ FreeSet(ram') = FreeSet(ram) \ {ret'}
          /\ held' = held \cup {ret'}
      BY <1>1, <1>2, <1>4
    <2>2. FreeListIntact'
      BY <1>1, <1>2 DEF FreeListIntact, FreeListWF, LinksSpellHistory, NoRepeat, FreeHead, FreeAfter
    <2>3. TypeOK'
      BY <1>1, <1>2, <2>1 DEF IInv, TypeOK
    <2>4. FreeSet(ram)' = FreeSet(ram) \ {ret'}
      BY <2>1 DEF FreeSet
    <2>5. PagesAccounted'
      BY <1>1, <2>1, <2>4 DEF IInv, PagesAccounted
    <2>6. QED
      BY <2>1, <2>2, <2>3, <2>4, <2>5 DEF IInv
  <1>5. QED
    BY <1>3, <1>4

LEMMA FreePageStep ==
  ASSUME IInv, NEW page \in Pages, FreePage(page)
  PROVE  /\ IInv'
         /\ FreeSet(ram)' = FreeSet(ram) \cup {page}
  <1>1. page \notin FreeSet(ram)
    BY InvFacts DEF FreePage
  <1>2. /\ ram' \in Ram
        /\ FreeListWF(ram')
        /\ FreeSet(ram') = FreeSet(ram) \cup {page}
    BY <1>1, InvFacts, FreePageCorrect DEF FreePage
  <1>3. FreeSet(ram)' = FreeSet(ram) \cup {page}
    BY <1>2 DEF FreeSet
  <1>4. FreeListIntact'
    BY <1>2 DEF FreeListIntact, FreeListWF, LinksSpellHistory, NoRepeat, FreeHead, FreeAfter
  <1>5. TypeOK'
    BY <1>2 DEF FreePage, IInv, TypeOK
  <1>6. PagesAccounted'
    BY <1>3 DEF FreePage, IInv, PagesAccounted
  <1>7. QED
    BY <1>3, <1>4, <1>5, <1>6 DEF IInv

LEMMA ClientStoreStep ==
  ASSUME IInv, NEW page \in Pages, NEW i \in Slots, NEW w \in Stores,
         ClientStore(page, i, w)
  PROVE  /\ IInv'
         /\ FreeSet(ram)' = FreeSet(ram)
  <1>1. page \notin FreeSet(ram) /\ w \in Word
    BY InvFacts, StoresAssumption DEF ClientStore
  <1>2. /\ ram' \in Ram
        /\ FreeListWF(ram')
        /\ FreeSet(ram') = FreeSet(ram)
    BY <1>1, InvFacts, StoreCorrect DEF ClientStore
  <1>3. FreeSet(ram)' = FreeSet(ram)
    BY <1>2 DEF FreeSet
  <1>4. FreeListIntact'
    BY <1>2 DEF FreeListIntact, FreeListWF, LinksSpellHistory, NoRepeat, FreeHead, FreeAfter
  <1>5. TypeOK' /\ PagesAccounted'
    BY <1>2, <1>3 DEF ClientStore, IInv, TypeOK, PagesAccounted
  <1>6. QED
    BY <1>3, <1>4, <1>5 DEF IInv

LEMMA StutterStep == IInv /\ UNCHANGED vars => IInv'
  BY DEF IInv, TypeOK, FreeListIntact, PagesAccounted, LinksSpellHistory,
     NoRepeat, FreeHead, FreeAfter, FreeSet, vars

(* The conjunction of the three invariants holds in every reachable state. *)
THEOREM Invariance == Spec => []IInv
  <1>1. IInv /\ [Next]_vars => IInv'
    BY PmmInitStep, AllocPageStep, FreePageStep, ClientStoreStep, StutterStep DEF Next
  <1>2. QED
    BY InitInv, <1>1, PTL DEF Spec

(* Type correctness of the allocator's state: a popped link is always the  *)
(* address of a managed page or NULL.                                      *)
THEOREM TypeCorrect == Spec => []TypeOK
  <1>1. IInv => TypeOK
    BY DEF IInv
  <1>2. QED
    BY Invariance, <1>1, PTL

(* The list threaded through the free pages stays acyclic and complete.    *)
THEOREM FreeListSafe == Spec => []FreeListIntact
  <1>1. IInv => FreeListIntact
    BY DEF IInv
  <1>2. QED
    BY Invariance, <1>1, PTL

(* No page is lost and none is both free and held.                         *)
THEOREM NoPageLostOrShared == Spec => []PagesAccounted
  <1>1. IInv => PagesAccounted
    BY DEF IInv
  <1>2. QED
    BY Invariance, <1>1, PTL

(* pmm_init, alloc_page and free_page implement the abstract allocator.    *)
THEOREM Refinement == Spec => ImplementsPageAllocator
  <1>1. Init => Allocator!Init
    <2>1. ASSUME Init PROVE FreeSet(ram) = {}
      BY <2>1 DEF Init, FreeSet
    <2>2. QED
      BY <2>1 DEF Init, Allocator!Init
  <1>2. IInv /\ [Next]_vars => [Allocator!Next]_(Allocator!vars)
    <2> SUFFICES ASSUME IInv, [Next]_vars
                 PROVE  Allocator!Next \/ UNCHANGED Allocator!vars
      OBVIOUS
    <2>1. CASE pmm_init
      <3>1. Allocator!Donate(cursor)
        BY <2>1, PmmInitStep DEF Allocator!Donate, pmm_init
      <3>2. QED
        BY <2>1, <3>1, PmmInitStep DEF Allocator!Next
    <2>2. CASE AllocPage
      <3>1. CASE ret' = NULL /\ FreeSet(ram) = {} /\ UNCHANGED <<ram, held>>
        <4>1. FreeSet(ram)' = FreeSet(ram)
          BY <3>1 DEF FreeSet
        <4>2. QED
          BY <3>1, <4>1 DEF Allocator!Next, Allocator!Exhausted
      <3>2. CASE /\ ret' \in Pages
                 /\ ret' \in FreeSet(ram)
                 /\ FreeSet(ram)' = FreeSet(ram) \ {ret'}
                 /\ held' = held \cup {ret'}
        BY <3>2 DEF Allocator!Next, Allocator!Alloc
      <3>3. QED
        BY <2>2, <3>1, <3>2, AllocPageStep
    <2>3. ASSUME NEW page \in Pages, FreePage(page)
          PROVE  Allocator!Next
      BY <2>3, FreePageStep DEF FreePage, Allocator!Next, Allocator!Free
    <2>4. ASSUME NEW page \in Pages, NEW i \in Slots, NEW w \in Stores,
                 ClientStore(page, i, w)
          PROVE  UNCHANGED Allocator!vars
      BY <2>4, ClientStoreStep DEF ClientStore, Allocator!vars
    <2>5. CASE UNCHANGED vars
      BY <2>5 DEF vars, Allocator!vars, FreeSet
    <2>6. QED
      BY <2>1, <2>2, <2>3, <2>4, <2>5 DEF Next
  <1>3. QED
    BY Invariance, <1>1, <1>2, PTL DEF Spec, ImplementsPageAllocator, Allocator!Spec
=============================================================================
