------------------------- MODULE VirtioQueue_proofs -------------------------
(***************************************************************************)
(* For every number of descriptors a uint16 can count and every set of     *)
(* requests: indices stay indices, no descriptor is in two chains or in a  *)
(* chain and free, and the device takes the requests as they were          *)
(* submitted, however late and in whatever order stores reach RAM.         *)
(*                                                                         *)
(* None of these is inductive.  The first two hold because the free list   *)
(* is the interval of the descriptors not used yet; the last one because   *)
(* of what is on its way to RAM: every store there is one of a request's   *)
(* description or of an index, no description follows the index that       *)
(* announces it, and what is not on its way any more is in RAM.            *)
(***************************************************************************)
EXTENDS VirtioQueue, WellFoundedInduction, TLAPS

-----------------------------------------------------------------------------
(* Induction on natural numbers, for a set in the place of a predicate. *)
LEMMA SetInduction ==
  ASSUME NEW S \in SUBSET Nat, 0 \in S, \A n \in S : n + 1 \in S
  PROVE  \A n \in Nat : n \in S
  <1> DEFINE T == Nat \ S
             R == OpToRel(<, Nat)
  <1> SUFFICES ASSUME T # {} PROVE FALSE
    OBVIOUS
  <1>1. IsWellFoundedOn(R, Nat)
    BY NatLessThanWellFounded
  <1>2. \A a, b \in Nat : a < b => <<a, b>> \in R
    BY DEF OpToRel
  <1> HIDE DEF R
  <1>3. PICK x \in T : \A y \in T : ~(<<y, x>> \in R)
    BY <1>1, WFMin
  <1>4. x \in Nat /\ x # 0 /\ x - 1 \in Nat /\ x - 1 < x /\ x - 1 + 1 = x
    BY <1>3
  <1>5. x - 1 \in S
    BY <1>2, <1>3, <1>4
  <1>6. QED
    BY <1>3, <1>4, <1>5

-----------------------------------------------------------------------------
(* What the driver's own variables say after n submissions.                *)
Taken3(n) == 3 * n

ListInOrder ==
  /\ Taken3(Len(log)) <= VIRTIO_QUEUE_SIZE
  /\ \A j \in 1 .. Len(log) : log[j].head = Taken3(j - 1)
  /\ avail_idx = Len(log)
  /\ \/ free_desc_head = NIL
     \/ free_desc_head = Taken3(Len(log)) /\ Taken3(Len(log)) < VIRTIO_QUEUE_SIZE
  /\ pc # "panic" /\ Taken3(Len(log)) < VIRTIO_QUEUE_SIZE => free_desc_head = Taken3(Len(log))
  /\ \A i \in Indices : i >= Taken3(Len(log)) => next[i] = FreeList[i]

(* The stores a request leads to: one of its description, which puts the   *)
(* right word in its place, one of the index, one of the header's slot.    *)
HeadDesc(d, r, i) == d \in DescType /\ d.req = r /\ d.flags = {"NEXT"} /\ d.next = i + 1
DataDesc(d, r)    == d \in DescType /\ d.req = r /\ "NEXT" \notin d.flags
LastDesc(d, r)    == d \in DescType /\ d.req = r

Describes(s, lg, j) ==
  \/ s.at = "ring" /\ s.i = j - 1 /\ s.val = Taken3(j - 1)
  \/ s.at = "desc" /\ s.i = Taken3(j - 1) /\ HeadDesc(s.val, lg[j].req, Taken3(j - 1))
  \/ s.at = "desc" /\ s.i = Taken3(j - 1) + 1 /\ DataDesc(s.val, lg[j].req)
  \/ s.at = "desc" /\ s.i = Taken3(j - 1) + 2 /\ LastDesc(s.val, lg[j].req)

Indexes(s, v) == s.at = "idx" /\ s.i = 0 /\ s.val = v
Header(s)     == s.at = "hdr" /\ s.i = 0 /\ s.val \in Requests \cup {Junk}

RightStores(p, lg) ==
  \A k \in 1 .. Len(p) : \A s \in p[k] :
    \/ Header(s)
    \/ \E j \in 1 .. Len(lg) : Describes(s, lg, j)
    \/ \E v \in 1 .. Len(lg) : Indexes(s, v)

(* What is not on its way to RAM any more is in RAM. *)
Late(p, at, i) == \E k \in 1 .. Len(p) : \E s \in p[k] : s.at = at /\ s.i = i

Written(p, m, lg) ==
  \A j \in 1 .. Len(lg) :
    /\ Late(p, "ring", j - 1) \/ m.ring[j - 1] = Taken3(j - 1)
    /\ Late(p, "desc", Taken3(j - 1)) \/ HeadDesc(m.desc[Taken3(j - 1)], lg[j].req, Taken3(j - 1))
    /\ Late(p, "desc", Taken3(j - 1) + 1) \/ DataDesc(m.desc[Taken3(j - 1) + 1], lg[j].req)

(* The fences: RAM's index and every index on its way announce only        *)
(* requests whose description is ahead of it, and indices grow.            *)
Announced(p, x, lg) ==
  /\ \A k \in 1 .. Len(p) : \A s \in p[k] : \A j \in 1 .. Len(lg) : Describes(s, lg, j) => j > x
  /\ \A k \in 1 .. Len(p) : \A s \in p[k] : \A v \in 1 .. Len(lg) : Indexes(s, v) => v >= x

Fenced(p, lg) ==
  \A k, l \in 1 .. Len(p) : \A s \in p[k] : \A x \in p[l] : \A v \in 1 .. Len(lg) :
    k <= l /\ Indexes(s, v) =>
      /\ \A j \in 1 .. Len(lg) : Describes(x, lg, j) => j > v
      /\ \A w \in 1 .. Len(lg) : Indexes(x, w) => w >= v

Devices ==
  [ordered : BOOLEAN, awake : BOOLEAN, last : Nat,
   taken : Seq([head : Indices, chain : Seq(DescType)]),
   served : SUBSET [i : Nat, hdr : Requests \cup {Junk}], irq : BOOLEAN]

TakenRight(e, r) ==
  /\ e.head = r.head
  /\ Len(e.chain) = 2
  /\ e.chain[1].req = r.req /\ e.chain[2].req = r.req

DeviceBehind ==
  /\ device \in Devices
  /\ device.last = Len(device.taken)
  /\ device.last <= ram.idx[0] /\ ram.idx[0] <= Len(log)
  /\ \A i \in 1 .. Len(device.taken) : TakenRight(device.taken[i], log[i])

AnyStore == [at : {"hdr", "idx", "ring", "desc"}, i : Nat,
             val : Requests \cup {None} \cup Nat \cup DescType]

IInv ==
  /\ TypeOK
  /\ pending \in Seq(SUBSET AnyStore)
  /\ ListInOrder
  /\ RightStores(pending, log)
  /\ Written(pending, ram, log)
  /\ Announced(pending, ram.idx[0], log)
  /\ Fenced(pending, log)
  /\ DeviceBehind

-----------------------------------------------------------------------------
LEMMA QueueFacts ==
  /\ VIRTIO_QUEUE_SIZE \in Nat /\ VIRTIO_QUEUE_SIZE >= 1 /\ VIRTIO_QUEUE_SIZE <= 65535
  /\ NIL = 65535 /\ IdxMod = 65536
  /\ 0 \in Indices
  /\ NIL \notin Indices
  BY QueueAssumption, SMTT(30) DEF NIL, IdxMod, Indices

LEMMA SizeFits == \A x \in 0 .. VIRTIO_QUEUE_SIZE : x \in 0 .. IdxMod - 1
  <1>1. VIRTIO_QUEUE_SIZE \in Nat /\ IdxMod \in Nat /\ VIRTIO_QUEUE_SIZE <= IdxMod - 1
    BY QueueFacts, SMTT(30)
  <1>2. QED
    BY <1>1

LEMMA InitInv == Init => IInv
  <1> SUFFICES ASSUME Init PROVE IInv
    OBVIOUS
  <1>1. NoDesc \in DescType
    BY QueueFacts, SMTT(30) DEF NoDesc, Desc, DescType
  <1>2. TypeOK
    BY <1>1, QueueFacts, SMTT(30) DEF Init, TypeOK, FreeList, Indices, Junk
  <1>3. Len(log) = 0 /\ Len(pending) = 0 /\ pending \in Seq(SUBSET AnyStore)
    BY DEF Init
  <1>4. ListInOrder
    BY <1>3, QueueFacts, SMTT(30) DEF Init, ListInOrder, Taken3
  <1>5. /\ RightStores(pending, log) /\ Written(pending, ram, log)
        /\ Announced(pending, ram.idx[0], log) /\ Fenced(pending, log)
    BY <1>3 DEF RightStores, Written, Announced, Fenced
  <1>6. DeviceBehind
    BY <1>3 DEF Init, DeviceBehind, Devices
  <1>7. QED
    BY <1>2, <1>3, <1>4, <1>5, <1>6 DEF IInv

-----------------------------------------------------------------------------
(* What the list gives: the three descriptors from its head on.            *)
LEMMA ThreeTaken ==
  ASSUME IInv, pc = "idle"
  PROVE  LET a == alloc_desc_chain(free_desc_head)
             n == Len(log)
         IN  /\ a.ret = NIL => a.rest = NIL
             /\ a.ret # NIL => /\ a.ret = Taken3(n)
                               /\ a.ret \in Indices /\ a.ret + 1 \in Indices /\ a.ret + 2 \in Indices
                               /\ Taken3(n + 1) <= VIRTIO_QUEUE_SIZE
                               /\ \/ a.rest = NIL /\ Taken3(n + 1) = VIRTIO_QUEUE_SIZE
                                  \/ a.rest = Taken3(n + 1) /\ Taken3(n + 1) < VIRTIO_QUEUE_SIZE
  <1> DEFINE n  == Len(log)
             h  == free_desc_head
             h1 == IF h = NIL THEN NIL ELSE next[h]
             h2 == IF h1 = NIL THEN NIL ELSE next[h1]
             rt == IF NIL \in {h, h1, h2} THEN NIL ELSE h
             rs == IF h2 = NIL THEN NIL ELSE next[h2]
  <1>1. alloc_desc_chain(h).ret = rt /\ alloc_desc_chain(h).rest = rs
    BY DEF alloc_desc_chain
  <1>2. n \in Nat
    BY DEF IInv, TypeOK
  <1>3. \A i \in Indices : i >= Taken3(n) =>
          next[i] = IF i = VIRTIO_QUEUE_SIZE - 1 THEN NIL ELSE i + 1
    BY DEF IInv, ListInOrder, FreeList
  <1>4. /\ Taken3(n) <= VIRTIO_QUEUE_SIZE
        /\ h = NIL \/ (h = Taken3(n) /\ Taken3(n) < VIRTIO_QUEUE_SIZE)
    BY DEF IInv, ListInOrder
  <1>5. Taken3(n) = 3 * n /\ Taken3(n + 1) = 3 * n + 3
    BY <1>2 DEF Taken3
  <1> HIDE DEF n
  <1>6. h # NIL => /\ h = 3 * n /\ h \in Indices
                   /\ h1 = IF h + 1 = VIRTIO_QUEUE_SIZE THEN NIL ELSE h + 1
    BY <1>2, <1>3, <1>4, <1>5, QueueFacts, SMTT(30) DEF Indices
  <1> HIDE DEF h1
  <1>7. h1 # NIL => h # NIL
    BY DEF h1
  <1>8. h1 # NIL => /\ h1 = h + 1 /\ h1 \in Indices
                    /\ h2 = IF h + 2 = VIRTIO_QUEUE_SIZE THEN NIL ELSE h + 2
    BY <1>2, <1>3, <1>5, <1>6, <1>7, QueueFacts, SMTT(30) DEF Indices
  <1>9. h1 = NIL => h2 = NIL
    OBVIOUS
  <1> HIDE DEF h2
  <1>10. h2 # NIL => /\ h2 = h + 2 /\ h2 \in Indices
                     /\ rs = IF h + 3 = VIRTIO_QUEUE_SIZE THEN NIL ELSE h + 3
    BY <1>2, <1>3, <1>5, <1>6, <1>7, <1>8, <1>9, QueueFacts, SMTT(30) DEF Indices
  <1>11. rt = NIL => rs = NIL
    BY <1>7, <1>9 DEF h1
  <1>12. rt # NIL => rt = h /\ h # NIL /\ h1 # NIL /\ h2 # NIL
    OBVIOUS
  <1> HIDE DEF rt, rs
  <1>13. rt # NIL => /\ rt = Taken3(n)
                     /\ rt \in Indices /\ rt + 1 \in Indices /\ rt + 2 \in Indices
                     /\ Taken3(n + 1) <= VIRTIO_QUEUE_SIZE
                     /\ \/ rs = NIL /\ Taken3(n + 1) = VIRTIO_QUEUE_SIZE
                        \/ rs = Taken3(n + 1) /\ Taken3(n + 1) < VIRTIO_QUEUE_SIZE
    BY <1>2, <1>5, <1>6, <1>8, <1>10, <1>12, QueueFacts, SMTT(30) DEF Indices
  <1>14. QED
    BY <1>1, <1>11, <1>13 DEF n

(* The invariant from its parts, for the steps of the driver. *)
LEMMA LogGrown ==
  ASSUME NEW lg, NEW e, NEW X, lg \in Seq(X), e \in X
  PROVE  /\ Len(Append(lg, e)) = Len(lg) + 1
         /\ Append(lg, e) \in Seq(X)
         /\ Append(lg, e)[Len(lg) + 1] = e
         /\ \A j \in 1 .. Len(lg) : Append(lg, e)[j] = lg[j]
  OBVIOUS

LogType == [req : Requests, head : Indices]

RamType ==
  [idx : [{0} -> 0 .. IdxMod - 1], hdr : [{0} -> Requests \cup {Junk}],
   ring : [Indices -> Indices], desc : [Indices -> DescType]]

(* A store describes one request at most, and is of one kind. *)
LEMMA DescribesOne ==
  ASSUME NEW s, NEW f, NEW g, NEW j \in Nat, NEW k \in Nat, Describes(s, f, j), Describes(s, g, k)
  PROVE  j = k
  BY DEF Describes, Taken3

LEMMA OneKind ==
  ASSUME NEW s
  PROVE  /\ \A f, j : Describes(s, f, j) => s.at \in {"ring", "desc"}
         /\ \A v : Indexes(s, v) => s.at = "idx" /\ s.val = v
         /\ Header(s) => s.at = "hdr"
  BY DEF Describes, Indexes, Header

LEMMA DescribesSame ==
  ASSUME NEW lg, NEW l2, NEW j, l2[j] = lg[j], NEW s
  PROVE  Describes(s, l2, j) <=> Describes(s, lg, j)
  BY DEF Describes

-----------------------------------------------------------------------------
(* A submission: a segment that describes request n + 1, and a segment     *)
(* with its index, behind everything that is on its way.                   *)
LEMMA PublishedStores ==
  ASSUME NEW p \in Seq(SUBSET AnyStore), NEW m, NEW x \in Nat,
         NEW lg \in Seq(LogType), NEW e \in LogType, x <= Len(lg),
         RightStores(p, lg), Written(p, m, lg), Announced(p, x, lg), Fenced(p, lg),
         NEW D \in SUBSET AnyStore, NEW I \in SUBSET AnyStore,
         \A s \in D : Header(s) \/ Describes(s, Append(lg, e), Len(lg) + 1),
         \A s \in I : Indexes(s, Len(lg) + 1),
         \E s \in D : s.at = "ring" /\ s.i = Len(lg),
         \E s \in D : s.at = "desc" /\ s.i = Taken3(Len(lg)),
         \E s \in D : s.at = "desc" /\ s.i = Taken3(Len(lg)) + 1
  PROVE  LET q  == p \o <<D, I>>
             l2 == Append(lg, e)
         IN  /\ q \in Seq(SUBSET AnyStore)
             /\ RightStores(q, l2) /\ Written(q, m, l2) /\ Announced(q, x, l2) /\ Fenced(q, l2)
  <1> DEFINE q  == p \o <<D, I>>
             l2 == Append(lg, e)
             n  == Len(lg)
             L  == Len(p)
  <1>1. /\ n \in Nat /\ L \in Nat
        /\ Len(l2) = n + 1
        /\ \A j \in 1 .. n : l2[j] = lg[j]
    OBVIOUS
  <1>2. /\ q \in Seq(SUBSET AnyStore)
        /\ Len(q) = L + 2
        /\ \A k \in 1 .. L : q[k] = p[k]
        /\ q[L + 1] = D /\ q[L + 2] = I
    OBVIOUS
  <1>3. \A k \in 1 .. L + 2 : k \in 1 .. L \/ k = L + 1 \/ k = L + 2
    BY <1>1
  <1>4. \A s, j : j \in 1 .. n => (Describes(s, l2, j) <=> Describes(s, lg, j))
    BY <1>1, DescribesSame
  <1>5. \A s \in D : Header(s) \/ Describes(s, l2, n + 1)
    OBVIOUS
  <1>6. \A s \in I : Indexes(s, n + 1)
    OBVIOUS
  <1>7. x <= n /\ n + 1 \in 1 .. n + 1
    BY <1>1
  <1>8. /\ \E s \in D : s.at = "ring" /\ s.i = n
        /\ \E s \in D : s.at = "desc" /\ s.i = Taken3(n)
        /\ \E s \in D : s.at = "desc" /\ s.i = Taken3(n) + 1
    OBVIOUS
  <1> HIDE DEF q, l2, n, L
  <1>9. RightStores(p, lg) /\ Len(lg) = n /\ Len(p) = L
    BY DEF n, L
  <1>10. RightStores(q, l2)
    <2> SUFFICES ASSUME NEW k \in 1 .. L + 2, NEW s \in q[k]
                 PROVE  \/ Header(s)
                        \/ \E j \in 1 .. n + 1 : Describes(s, l2, j)
                        \/ \E v \in 1 .. n + 1 : Indexes(s, v)
      BY <1>1, <1>2 DEF RightStores
    <2>1. CASE k \in 1 .. L
      <3>1. s \in p[k]
        BY <1>2, <2>1
      <3>2. \/ Header(s)
            \/ \E j \in 1 .. n : Describes(s, lg, j)
            \/ \E v \in 1 .. n : Indexes(s, v)
        BY <1>9, <2>1, <3>1 DEF RightStores
      <3>3. 1 .. n \subseteq 1 .. n + 1
        BY <1>1
      <3>4. QED
        BY <1>4, <3>2, <3>3
    <2>2. CASE k = L + 1
      BY <1>2, <1>5, <1>7, <2>2
    <2>3. CASE k = L + 2
      BY <1>2, <1>6, <1>7, <2>3
    <2>4. QED
      BY <1>3, <2>1, <2>2, <2>3
  (* Where an index, and a description, can be. *)
  <1>11. ASSUME NEW k \in 1 .. L + 2, NEW s \in q[k], NEW v \in 1 .. n + 1, Indexes(s, v)
         PROVE  \/ k \in 1 .. L /\ s \in p[k] /\ v \in 1 .. n
                \/ k = L + 2 /\ v = n + 1
    <2>1. CASE k \in 1 .. L
      <3>1. s \in p[k]
        BY <1>2, <2>1
      <3>2. \E w \in 1 .. n : Indexes(s, w)
        BY <1>9, <1>11, <2>1, <3>1, OneKind DEF RightStores
      <3>3. \A w : Indexes(s, w) => w = v
        BY <1>11 DEF Indexes
      <3>4. v \in 1 .. n
        BY <3>2, <3>3
      <3>5. QED
        BY <2>1, <3>1, <3>4
    <2>2. CASE k = L + 1
      BY <1>2, <1>5, <1>11, <2>2, OneKind
    <2>3. CASE k = L + 2
      <3>1. Indexes(s, n + 1)
        BY <1>2, <1>6, <2>3
      <3>2. v = n + 1
        BY <1>11, <3>1 DEF Indexes
      <3>3. QED
        BY <2>3, <3>2
    <2>4. QED
      BY <1>3, <2>1, <2>2, <2>3
  <1>12. ASSUME NEW k \in 1 .. L + 2, NEW s \in q[k], NEW j \in 1 .. n + 1, Describes(s, l2, j)
         PROVE  \/ k \in 1 .. L /\ s \in p[k] /\ j \in 1 .. n /\ Describes(s, lg, j)
                \/ k \in 1 .. L + 1 /\ j = n + 1
    <2>1. CASE k \in 1 .. L
      <3>1. s \in p[k] /\ k \in 1 .. L + 1
        BY <1>1, <1>2, <2>1
      <3>2. CASE j \in 1 .. n
        BY <1>4, <1>12, <2>1, <3>1, <3>2
      <3>3. CASE j = n + 1
        BY <3>1, <3>3
      <3>4. QED
        BY <1>1, <3>2, <3>3
    <2>2. CASE k = L + 1
      <3>1. Describes(s, l2, n + 1)
        BY <1>2, <1>5, <1>12, <2>2, OneKind
      <3>2. j = n + 1
        BY <1>1, <1>12, <3>1, DescribesOne
      <3>3. QED
        BY <1>1, <2>2, <3>2
    <2>3. CASE k = L + 2
      BY <1>2, <1>6, <1>12, <2>3, OneKind
    <2>4. QED
      BY <1>3, <2>1, <2>2, <2>3
  <1>13. Announced(q, x, l2)
    <2>1. ASSUME NEW k \in 1 .. L + 2, NEW s \in q[k], NEW j \in 1 .. n + 1, Describes(s, l2, j)
          PROVE  j > x
      <3>1. CASE k \in 1 .. L /\ s \in p[k] /\ j \in 1 .. n /\ Describes(s, lg, j)
        BY <1>9, <3>1 DEF Announced
      <3>2. CASE j = n + 1
        BY <1>1, <1>7, <3>2
      <3>3. QED
        BY <1>12, <2>1, <3>1, <3>2
    <2>2. ASSUME NEW k \in 1 .. L + 2, NEW s \in q[k], NEW v \in 1 .. n + 1, Indexes(s, v)
          PROVE  v >= x
      <3>1. CASE k \in 1 .. L /\ s \in p[k] /\ v \in 1 .. n
        BY <1>9, <2>2, <3>1 DEF Announced
      <3>2. CASE v = n + 1
        BY <1>1, <1>7, <3>2
      <3>3. QED
        BY <1>11, <2>2, <3>1, <3>2
    <2>3. QED
      BY <1>1, <1>2, <2>1, <2>2 DEF Announced
  <1>14. Fenced(q, l2)
    <2> SUFFICES ASSUME NEW k \in 1 .. L + 2, NEW l \in 1 .. L + 2, NEW s \in q[k], NEW t \in q[l],
                        NEW v \in 1 .. n + 1, k <= l, Indexes(s, v)
                 PROVE  /\ \A j \in 1 .. n + 1 : Describes(t, l2, j) => j > v
                        /\ \A w \in 1 .. n + 1 : Indexes(t, w) => w >= v
      BY <1>1, <1>2 DEF Fenced
    <2>1. \/ k \in 1 .. L /\ s \in p[k] /\ v \in 1 .. n
          \/ k = L + 2 /\ v = n + 1
      BY <1>11
    <2>2. ASSUME NEW j \in 1 .. n + 1, Describes(t, l2, j)
          PROVE  j > v
      <3>1. \/ l \in 1 .. L /\ t \in p[l] /\ j \in 1 .. n /\ Describes(t, lg, j)
            \/ l \in 1 .. L + 1 /\ j = n + 1
        BY <1>12, <2>2
      <3>2. k \in 1 .. L /\ s \in p[k] /\ v \in 1 .. n
        BY <1>1, <2>1, <3>1
      <3>3. QED
        BY <1>1, <1>9, <3>1, <3>2 DEF Fenced
    <2>3. ASSUME NEW w \in 1 .. n + 1, Indexes(t, w)
          PROVE  w >= v
      <3>1. \/ l \in 1 .. L /\ t \in p[l] /\ w \in 1 .. n
            \/ l = L + 2 /\ w = n + 1
        BY <1>11, <2>3
      <3>2. CASE w = n + 1
        BY <1>1, <3>2
      <3>3. CASE l \in 1 .. L /\ t \in p[l] /\ w \in 1 .. n
        <4>1. k \in 1 .. L /\ s \in p[k] /\ v \in 1 .. n
          BY <1>1, <2>1, <3>3
        <4>2. QED
          BY <1>9, <2>3, <3>3, <4>1 DEF Fenced
      <3>4. QED
        BY <3>1, <3>2, <3>3
    <2>4. QED
      BY <2>2, <2>3
  <1>15. Written(q, m, l2)
    <2>1. \A at, i : Late(p, at, i) => Late(q, at, i)
      <3>1. 1 .. L \subseteq 1 .. L + 2
        BY <1>1
      <3>2. QED
        BY <1>2, <1>9, <3>1 DEF Late
    <2>2. L + 1 \in 1 .. L + 2
      BY <1>1
    <2>3. Late(q, "ring", n) /\ Late(q, "desc", Taken3(n)) /\ Late(q, "desc", Taken3(n) + 1)
      BY <1>2, <1>8, <2>2 DEF Late
    <2>4. ASSUME NEW j \in 1 .. n
          PROVE  /\ Late(q, "ring", j - 1) \/ m.ring[j - 1] = Taken3(j - 1)
                 /\ Late(q, "desc", Taken3(j - 1)) \/ HeadDesc(m.desc[Taken3(j - 1)], l2[j].req, Taken3(j - 1))
                 /\ Late(q, "desc", Taken3(j - 1) + 1) \/ DataDesc(m.desc[Taken3(j - 1) + 1], l2[j].req)
      <3>1. l2[j] = lg[j]
        BY <1>1, SMTT(30)
      <3>2. QED
        BY <1>9, <2>1, <3>1 DEF Written
    <2>5. (n + 1) - 1 = n
      BY <1>1
    <2>6. \A j \in 1 .. n + 1 : j \in 1 .. n \/ j = n + 1
      BY <1>1
    <2>7. QED
      BY <1>1, <2>3, <2>4, <2>5, <2>6 DEF Written
  <1>16. QED
    BY <1>2, <1>10, <1>13, <1>14, <1>15 DEF q, l2

-----------------------------------------------------------------------------
(* A store leaves the first segment, and with it the segment if it is the  *)
(* last one: what remains keeps its order.                                 *)
Drained(p, s) == IF Head(p) = {s} THEN Tail(p) ELSE [p EXCEPT ![1] = @ \ {s}]

LEMMA SegmentDrained ==
  ASSUME NEW p \in Seq(SUBSET AnyStore), p # <<>>, NEW s \in Head(p)
  PROVE  LET q == Drained(p, s)
         IN  /\ q \in Seq(SUBSET AnyStore)
             /\ 1 \in 1 .. Len(p) /\ s \in p[1]
             /\ \E d \in {0, 1} : /\ Len(q) = Len(p) - d
                                  /\ \A k \in 1 .. Len(q) : k + d \in 1 .. Len(p) /\ q[k] \subseteq p[k + d]
             /\ \A k \in 1 .. Len(p) : \A x \in p[k] : x = s \/ \E l \in 1 .. Len(q) : x \in q[l]
  <1> DEFINE q == Drained(p, s)
  <1>1. /\ Len(p) \in Nat /\ Len(p) >= 1 /\ Head(p) = p[1] /\ 1 \in 1 .. Len(p)
        /\ \A k \in 1 .. Len(p) : p[k] \in SUBSET AnyStore
    OBVIOUS
  <1>2. CASE Head(p) = {s}
    <2>1. /\ q = Tail(p) /\ q \in Seq(SUBSET AnyStore) /\ Len(q) = Len(p) - 1
          /\ \A k \in 1 .. Len(q) : q[k] = p[k + 1] /\ k + 1 \in 1 .. Len(p)
      BY <1>1, <1>2 DEF Drained
    <2> HIDE DEF q
    <2>2. ASSUME NEW k \in 1 .. Len(p), NEW x \in p[k]
          PROVE  x = s \/ \E l \in 1 .. Len(q) : x \in q[l]
      <3>1. CASE k = 1
        BY <1>1, <1>2, <3>1
      <3>2. CASE k # 1
        <4>1. k - 1 \in 1 .. Len(q) /\ (k - 1) + 1 = k
          BY <1>1, <2>1, <3>2
        <4>2. x \in q[k - 1]
          BY <2>1, <4>1
        <4>3. QED
          BY <4>1, <4>2
      <3>3. QED
        BY <3>1, <3>2
    <2>3. QED
      BY <1>1, <2>1, <2>2 DEF q
  <1>3. CASE Head(p) # {s}
    <2>1. q = [p EXCEPT ![1] = p[1] \ {s}]
      BY <1>1, <1>3 DEF Drained
    <2>2. p[1] \ {s} \in SUBSET AnyStore
      BY <1>1
    <2>3. /\ q \in Seq(SUBSET AnyStore) /\ Len(q) = Len(p)
          /\ q[1] = p[1] \ {s}
          /\ \A k \in 1 .. Len(p) : k # 1 => q[k] = p[k]
      BY <1>1, <2>1, <2>2
    <2> HIDE DEF q
    <2>4. Len(q) = Len(p) - 0 /\ \A k \in 1 .. Len(q) : k + 0 \in 1 .. Len(p) /\ q[k] \subseteq p[k + 0]
      <3>1. \A k \in 1 .. Len(q) : k + 0 = k /\ k \in 1 .. Len(p)
        BY <1>1, <2>3
      <3>2. \A k \in 1 .. Len(q) : q[k] \subseteq p[k]
        BY <1>1, <2>3
      <3>3. QED
        BY <1>1, <2>3, <3>1, <3>2
    <2>5. ASSUME NEW k \in 1 .. Len(p), NEW x \in p[k]
          PROVE  x = s \/ \E l \in 1 .. Len(q) : x \in q[l]
      BY <2>3
    <2>6. QED
      BY <1>1, <2>3, <2>4, <2>5 DEF q
  <1>4. QED
    BY <1>2, <1>3, Zenon

(* What is left behind a store that has reached RAM is as right, as fenced *)
(* and as complete as before.                                              *)
LEMMA DrainedStores ==
  ASSUME NEW p \in Seq(SUBSET AnyStore), p # <<>>, NEW s \in Head(p),
         NEW m \in RamType, NEW lg \in Seq(LogType), Taken3(Len(lg)) <= VIRTIO_QUEUE_SIZE,
         RightStores(p, lg), Written(p, m, lg), Announced(p, m.idx[0], lg), Fenced(p, lg),
         m.idx[0] <= Len(lg), \A j \in 1 .. Len(lg) : lg[j].head = Taken3(j - 1)
  PROVE  LET q == Drained(p, s)
             n == [m EXCEPT ![s.at][s.i] = s.val]
         IN  /\ q \in Seq(SUBSET AnyStore) /\ n \in RamType
             /\ RightStores(q, lg) /\ Written(q, n, lg) /\ Announced(q, n.idx[0], lg) /\ Fenced(q, lg)
             /\ m.idx[0] <= n.idx[0] /\ n.idx[0] <= Len(lg)
  <1> DEFINE q == Drained(p, s)
             n == [m EXCEPT ![s.at][s.i] = s.val]
             N == Len(lg)
             Q == q \in Seq(SUBSET AnyStore)
  <1>1. /\ q \in Seq(SUBSET AnyStore)
        /\ 1 \in 1 .. Len(p) /\ s \in p[1]
        /\ \E d \in {0, 1} : /\ Len(q) = Len(p) - d
                             /\ \A k \in 1 .. Len(q) : k + d \in 1 .. Len(p) /\ q[k] \subseteq p[k + d]
        /\ \A k \in 1 .. Len(p) : \A x \in p[k] : x = s \/ \E l \in 1 .. Len(q) : x \in q[l]
    BY SegmentDrained
  <1> HIDE DEF q
  <1>2. PICK d \in {0, 1} : /\ Len(q) = Len(p) - d
                            /\ \A k \in 1 .. Len(q) : k + d \in 1 .. Len(p) /\ q[k] \subseteq p[k + d]
    BY <1>1
  <1>3. N \in Nat /\ Len(p) \in Nat /\ Len(q) \in Nat
    BY <1>1
  <1>4. \/ Header(s)
        \/ \E j \in 1 .. N : Describes(s, lg, j)
        \/ \E v \in 1 .. N : Indexes(s, v)
    BY <1>1 DEF RightStores
  <1>5. /\ \A j \in 1 .. N : /\ j - 1 \in Indices
                             /\ Taken3(j - 1) \in Indices
                             /\ Taken3(j - 1) + 1 \in Indices
                             /\ Taken3(j - 1) + 2 \in Indices
        /\ \A v \in 1 .. N : v \in 0 .. IdxMod - 1
    <2>1. 3 * N <= VIRTIO_QUEUE_SIZE
      BY DEF Taken3
    <2> HIDE DEF N
    <2>2. ASSUME NEW j \in 1 .. N
          PROVE  /\ j - 1 \in Indices
                 /\ 3 * (j - 1) \in Indices
                 /\ 3 * (j - 1) + 1 \in Indices
                 /\ 3 * (j - 1) + 2 \in Indices
                 /\ j \in 0 .. IdxMod - 1
      <3>1. VIRTIO_QUEUE_SIZE \in Nat
        BY QueueFacts, SMTT(30)
      <3>2. /\ j - 1 \in 0 .. VIRTIO_QUEUE_SIZE - 1
            /\ 3 * (j - 1) \in 0 .. VIRTIO_QUEUE_SIZE - 1
            /\ 3 * (j - 1) + 1 \in 0 .. VIRTIO_QUEUE_SIZE - 1
            /\ 3 * (j - 1) + 2 \in 0 .. VIRTIO_QUEUE_SIZE - 1
            /\ j \in 0 .. VIRTIO_QUEUE_SIZE
        <4>1. /\ N \in Nat /\ VIRTIO_QUEUE_SIZE \in Nat /\ 3 * N <= VIRTIO_QUEUE_SIZE
              /\ j \in Nat /\ 1 <= j /\ j <= N
          BY <1>3, <2>1, <3>1
        <4>2. 3 * (j - 1) + 2 <= VIRTIO_QUEUE_SIZE - 1 /\ j <= VIRTIO_QUEUE_SIZE
          BY <4>1
        <4>3. QED
          BY <4>1, <4>2
      <3>3. QED
        BY <3>2, SizeFits DEF Indices
    <2>3. QED
      BY <2>2 DEF Taken3
  <1>6. RightStores(q, lg)
    BY <1>2 DEF RightStores
  <1>7. Fenced(q, lg)
    <2> SUFFICES ASSUME NEW k \in 1 .. Len(q), NEW l \in 1 .. Len(q), NEW t \in q[k], NEW x \in q[l],
                        NEW v \in 1 .. N, k <= l, Indexes(t, v)
                 PROVE  /\ \A j \in 1 .. N : Describes(x, lg, j) => j > v
                        /\ \A w \in 1 .. N : Indexes(x, w) => w >= v
      BY DEF Fenced
    <2>1. k + d \in 1 .. Len(p) /\ l + d \in 1 .. Len(p) /\ t \in p[k + d] /\ x \in p[l + d]
      BY <1>2
    <2>2. k + d <= l + d
      BY <1>2, <1>3
    <2>3. QED
      BY <2>1, <2>2 DEF Fenced
  (* The cells of RAM that change, and the one that may announce more. *)
  <1>8. /\ n \in RamType
        /\ \A i \in Indices : n.ring[i] = IF s.at = "ring" /\ s.i = i THEN s.val ELSE m.ring[i]
        /\ \A i \in Indices : n.desc[i] = IF s.at = "desc" /\ s.i = i THEN s.val ELSE m.desc[i]
        /\ n.idx[0] = IF s.at = "idx" THEN s.val ELSE m.idx[0]
    <2>1. /\ m = [idx |-> m.idx, hdr |-> m.hdr, ring |-> m.ring, desc |-> m.desc]
          /\ m.idx \in [{0} -> 0 .. IdxMod - 1] /\ m.hdr \in [{0} -> Requests \cup {Junk}]
          /\ m.ring \in [Indices -> Indices] /\ m.desc \in [Indices -> DescType]
      BY DEF RamType
    <2>2. CASE Header(s)
      BY <2>1, <2>2 DEF Header, RamType
    <2>3. CASE \E v \in 1 .. N : Indexes(s, v)
      <3>1. s.at = "idx" /\ s.i = 0 /\ s.val \in 0 .. IdxMod - 1
        BY <1>5, <2>3 DEF Indexes
      <3>2. QED
        BY <2>1, <3>1 DEF RamType
    <2>4. CASE \E j \in 1 .. N : Describes(s, lg, j)
      <3>1. \/ s.at = "ring" /\ s.i \in Indices /\ s.val \in Indices
            \/ s.at = "desc" /\ s.i \in Indices /\ s.val \in DescType
        BY <1>5, <2>4 DEF Describes, HeadDesc, DataDesc, LastDesc
      <3>2. QED
        BY <2>1, <3>1 DEF RamType
    <2>5. QED
      BY <1>4, <2>2, <2>3, <2>4
  <1> HIDE DEF n
  <1>9. m.idx[0] \in Nat
    BY DEF RamType
  <1>10. Announced(q, n.idx[0], lg) /\ m.idx[0] <= n.idx[0] /\ n.idx[0] <= N
    <2>1. CASE s.at # "idx"
      <3>1. n.idx[0] = m.idx[0]
        BY <1>8, <2>1
      <3>2. Announced(q, m.idx[0], lg)
        BY <1>2 DEF Announced
      <3>3. QED
        BY <1>9, <3>1, <3>2
    <2>2. CASE s.at = "idx"
      <3>1. PICK v \in 1 .. N : Indexes(s, v)
        BY <1>4, <2>2 DEF Header, Describes
      <3>2. n.idx[0] = v
        BY <1>8, <2>2, <3>1 DEF Indexes
      <3>3. v >= m.idx[0]
        BY <1>1, <3>1 DEF Announced
      <3>4. ASSUME NEW k \in 1 .. Len(q), NEW x \in q[k]
            PROVE  /\ \A j \in 1 .. N : Describes(x, lg, j) => j > v
                   /\ \A w \in 1 .. N : Indexes(x, w) => w >= v
        <4>1. k + d \in 1 .. Len(p) /\ x \in p[k + d] /\ 1 <= k + d
          BY <1>2, <1>3
        <4>2. QED
          BY <1>1, <3>1, <4>1 DEF Fenced
      <3>5. Announced(q, v, lg)
        BY <3>4 DEF Announced
      <3>6. QED
        BY <1>3, <1>9, <3>2, <3>3, <3>5
    <2>3. QED
      BY <2>1, <2>2
  <1>11. Written(q, n, lg)
    <2> SUFFICES ASSUME NEW j \in 1 .. N
                 PROVE  /\ Late(q, "ring", j - 1) \/ n.ring[j - 1] = Taken3(j - 1)
                        /\ Late(q, "desc", Taken3(j - 1))
                             \/ HeadDesc(n.desc[Taken3(j - 1)], lg[j].req, Taken3(j - 1))
                        /\ Late(q, "desc", Taken3(j - 1) + 1)
                             \/ DataDesc(n.desc[Taken3(j - 1) + 1], lg[j].req)
      BY DEF Written
    <2>1. ASSUME NEW at, NEW i, Late(p, at, i)
          PROVE  Late(q, at, i) \/ (s.at = at /\ s.i = i)
      <3>1. PICK k \in 1 .. Len(p) : \E x \in p[k] : x.at = at /\ x.i = i
        BY <2>1 DEF Late
      <3>2. PICK x \in p[k] : x.at = at /\ x.i = i
        BY <3>1
      <3>3. x = s \/ \E l \in 1 .. Len(q) : x \in q[l]
        BY <1>1
      <3>4. QED
        BY <3>2, <3>3 DEF Late
    <2>2. /\ Late(p, "ring", j - 1) \/ m.ring[j - 1] = Taken3(j - 1)
          /\ Late(p, "desc", Taken3(j - 1)) \/ HeadDesc(m.desc[Taken3(j - 1)], lg[j].req, Taken3(j - 1))
          /\ Late(p, "desc", Taken3(j - 1) + 1) \/ DataDesc(m.desc[Taken3(j - 1) + 1], lg[j].req)
      BY DEF Written
    <2>3. ASSUME s.at = "ring", s.i = j - 1
          PROVE  s.val = Taken3(j - 1)
      <3>1. PICK k \in 1 .. N : Describes(s, lg, k)
        BY <1>4, <2>3 DEF Header, Indexes
      <3>2. k = j
        BY <1>3, <2>3, <3>1 DEF Describes
      <3>3. QED
        BY <2>3, <3>1, <3>2 DEF Describes
    <2>4. ASSUME s.at = "desc", s.i = Taken3(j - 1)
          PROVE  HeadDesc(s.val, lg[j].req, Taken3(j - 1))
      <3>1. PICK k \in 1 .. N : Describes(s, lg, k)
        BY <1>4, <2>4 DEF Header, Indexes
      <3>2. k = j
        BY <1>3, <2>4, <3>1 DEF Describes, Taken3
      <3>3. Taken3(j - 1) # Taken3(j - 1) + 1 /\ Taken3(j - 1) # Taken3(j - 1) + 2
        BY <1>3 DEF Taken3
      <3>4. QED
        BY <2>4, <3>1, <3>2, <3>3 DEF Describes
    <2>5. ASSUME s.at = "desc", s.i = Taken3(j - 1) + 1
          PROVE  DataDesc(s.val, lg[j].req)
      <3>1. PICK k \in 1 .. N : Describes(s, lg, k)
        BY <1>4, <2>5 DEF Header, Indexes
      <3>2. k = j
        BY <1>3, <2>5, <3>1 DEF Describes, Taken3
      <3>3. Taken3(j - 1) + 1 # Taken3(j - 1) /\ Taken3(j - 1) + 1 # Taken3(j - 1) + 2
        BY <1>3 DEF Taken3
      <3>4. QED
        BY <2>5, <3>1, <3>2, <3>3 DEF Describes
    <2>6. Late(q, "ring", j - 1) \/ n.ring[j - 1] = Taken3(j - 1)
      <3>1. n.ring[j - 1] = IF s.at = "ring" /\ s.i = j - 1 THEN s.val ELSE m.ring[j - 1]
        BY <1>5, <1>8
      <3>2. QED
        BY <2>1, <2>2, <2>3, <3>1
    <2>7. Late(q, "desc", Taken3(j - 1)) \/ HeadDesc(n.desc[Taken3(j - 1)], lg[j].req, Taken3(j - 1))
      <3>1. n.desc[Taken3(j - 1)]
              = IF s.at = "desc" /\ s.i = Taken3(j - 1) THEN s.val ELSE m.desc[Taken3(j - 1)]
        BY <1>5, <1>8
      <3>2. QED
        BY <2>1, <2>2, <2>4, <3>1
    <2>8. Late(q, "desc", Taken3(j - 1) + 1) \/ DataDesc(n.desc[Taken3(j - 1) + 1], lg[j].req)
      <3>1. n.desc[Taken3(j - 1) + 1]
              = IF s.at = "desc" /\ s.i = Taken3(j - 1) + 1 THEN s.val ELSE m.desc[Taken3(j - 1) + 1]
        BY <1>5, <1>8
      <3>2. QED
        BY <2>1, <2>2, <2>5, <3>1
    <2>9. QED
      BY <2>6, <2>7, <2>8
  <1>12. QED
    BY <1>1, <1>6, <1>7, <1>8, <1>10, <1>11 DEF q, n

(* A store to the header's slot goes behind everything else. *)
LEMMA HeaderStored ==
  ASSUME NEW p \in Seq(SUBSET AnyStore), NEW m, NEW x, NEW lg, NEW s \in AnyStore, Header(s),
         RightStores(p, lg), Written(p, m, lg), Announced(p, x, lg), Fenced(p, lg)
  PROVE  LET q == Append(p, {s})
         IN  /\ q \in Seq(SUBSET AnyStore)
             /\ RightStores(q, lg) /\ Written(q, m, lg) /\ Announced(q, x, lg) /\ Fenced(q, lg)
  <1> DEFINE q == Append(p, {s})
             L == Len(p)
  <1>1. /\ q \in Seq(SUBSET AnyStore) /\ Len(q) = L + 1 /\ L \in Nat
        /\ \A k \in 1 .. L : q[k] = p[k]
        /\ q[L + 1] = {s}
    OBVIOUS
  <1> HIDE DEF q
  <1>2. ASSUME NEW k \in 1 .. L + 1, NEW t \in q[k], t # s
        PROVE  k \in 1 .. L /\ t \in p[k]
    BY <1>1, <1>2
  <1>3. /\ \A j : ~Describes(s, lg, j)
        /\ \A v : ~Indexes(s, v)
    BY DEF Header, Describes, Indexes
  <1>4. RightStores(q, lg)
    BY <1>1, <1>2 DEF RightStores
  <1>5. Announced(q, x, lg)
    BY <1>1, <1>2, <1>3 DEF Announced
  <1>6. Fenced(q, lg)
    <2> SUFFICES ASSUME NEW k \in 1 .. L + 1, NEW l \in 1 .. L + 1, NEW t \in q[k], NEW y \in q[l],
                        NEW v \in 1 .. Len(lg), k <= l, Indexes(t, v)
                 PROVE  /\ \A j \in 1 .. Len(lg) : Describes(y, lg, j) => j > v
                        /\ \A w \in 1 .. Len(lg) : Indexes(y, w) => w >= v
      BY <1>1 DEF Fenced
    <2>1. k \in 1 .. L /\ t \in p[k]
      BY <1>2, <1>3
    <2>2. CASE y = s
      BY <1>3, <2>2
    <2>3. CASE y # s
      <3>1. l \in 1 .. L /\ y \in p[l]
        BY <1>2, <2>3
      <3>2. QED
        BY <2>1, <3>1 DEF Fenced
    <2>4. QED
      BY <2>2, <2>3
  <1>7. Written(q, m, lg)
    <2>1. ASSUME NEW at, NEW i, Late(p, at, i)
          PROVE  Late(q, at, i)
      <3>1. PICK k \in 1 .. L : \E t \in p[k] : t.at = at /\ t.i = i
        BY <2>1 DEF Late
      <3>2. k \in 1 .. Len(q) /\ q[k] = p[k]
        BY <1>1
      <3>3. QED
        BY <3>1, <3>2 DEF Late
    <2>2. QED
      BY <2>1 DEF Written
  <1>8. QED
    BY <1>1, <1>4, <1>5, <1>6, <1>7 DEF q

-----------------------------------------------------------------------------
(* What every step starts from, and what is enough to end it.              *)
LEMMA InvFacts ==
  ASSUME IInv
  PROVE  /\ pending \in Seq(SUBSET AnyStore)
         /\ ram \in RamType
         /\ log \in Seq(LogType)
         /\ Len(log) \in Nat
         /\ next \in [Indices -> Indices \cup {NIL}]
         /\ free_desc_head \in Indices \cup {NIL}
         /\ ListInOrder
         /\ RightStores(pending, log) /\ Written(pending, ram, log)
         /\ Announced(pending, ram.idx[0], log) /\ Fenced(pending, log)
         /\ DeviceBehind
         /\ ram.idx[0] \in Nat /\ ram.idx[0] <= Len(log)
  <1>1. ram.idx[0] \in Nat
    BY DEF IInv, TypeOK, RamType
  <1>2. QED
    BY <1>1 DEF IInv, TypeOK, RamType, LogType, DeviceBehind

LEMMA KeepsInv ==
  ASSUME free_desc_head' \in Indices \cup {NIL},
         next' \in [Indices -> Indices \cup {NIL}],
         avail_idx' \in 0 .. IdxMod - 1,
         pc' \in {"idle", "notify", "return", "panic"},
         ram' \in RamType, log' \in Seq(LogType), pending' \in Seq(SUBSET AnyStore),
         ListInOrder', DeviceBehind',
         RightStores(pending', log'), Written(pending', ram', log'),
         Announced(pending', ram'.idx[0], log'), Fenced(pending', log')
  PROVE  IInv'
  <1>1. TypeOK'
    BY DEF TypeOK, RamType, LogType
  <1>2. /\ RightStores(pending, log)' /\ Written(pending, ram, log)'
        /\ Announced(pending, ram.idx[0], log)' /\ Fenced(pending, log)'
    BY DEF RightStores, Written, Announced, Fenced, Describes, Indexes, Header, Late,
           HeadDesc, DataDesc, LastDesc
  <1>3. QED
    BY <1>1, <1>2 DEF IInv

(* The log does not fill the indices: avail.idx does not wrap.             *)
LEMMA FewRequests ==
  ASSUME ListInOrder, Len(log) \in Nat
  PROVE  /\ 3 * Len(log) <= VIRTIO_QUEUE_SIZE
         /\ Len(log) < IdxMod /\ Len(log) + 1 < IdxMod
         /\ avail_idx = Len(log)
  BY QueueFacts, SMTT(30) DEF ListInOrder, Taken3

(* Steps that leave the driver's lists and the log alone. *)
LEMMA DriverIdle ==
  ASSUME IInv, UNCHANGED <<free_desc_head, next, avail_idx, log>>,
         pc' # "panic" => pc # "panic"
  PROVE  ListInOrder'
  BY DEF IInv, ListInOrder

LEMMA SmallIndex ==
  ASSUME NEW x \in Nat, x < IdxMod
  PROVE  x \in 0 .. IdxMod - 1
  <1>1. IdxMod - 1 = 65535
    BY DEF IdxMod
  <1>2. x <= 65535
    BY DEF IdxMod
  <1>3. QED
    BY <1>1, <1>2

LEMMA SmallMod ==
  ASSUME NEW x \in Nat, NEW m \in Nat, x < m
  PROVE  x % m = x
  OBVIOUS

(* The place of a request in the available ring, and its descriptors, are  *)
(* numbers below the queue's size.                                         *)
LEMMA HeadPlace ==
  ASSUME NEW n \in Nat, NEW h \in Indices, h = 3 * n
  PROVE  n < VIRTIO_QUEUE_SIZE /\ h \in Nat
  <1>1. VIRTIO_QUEUE_SIZE \in Nat
    BY QueueFacts
  <1>2. h \in Nat /\ h < VIRTIO_QUEUE_SIZE
    BY <1>1 DEF Indices
  <1>3. n <= 3 * n
    OBVIOUS
  <1>4. QED
    BY <1>1, <1>2, <1>3

LEMMA SubmitStep ==
  ASSUME IInv, NEW r \in Requests, NEW write \in BOOLEAN, virtio_submit_request(r, write)
  PROVE  IInv'
  <1> DEFINE a == alloc_desc_chain(free_desc_head)
             n == Len(log)
             h == a.ret
             e == [req |-> r, head |-> h]
             D == Describe(r, h, write)
             I == {Store("idx", 0, (avail_idx + 1) % IdxMod)}
  <1>1. /\ pc = "idle" /\ free_desc_head' = a.rest
        /\ ram' = ram /\ device' = device
        /\ \/ /\ h = NIL /\ pc' = "panic"
              /\ next' = next /\ avail_idx' = avail_idx /\ pending' = pending /\ log' = log
           \/ /\ h # NIL /\ pc' = "notify"
              /\ next' = [next EXCEPT ![h] = h + 1, ![h + 2] = 0]
              /\ avail_idx' = (avail_idx + 1) % IdxMod
              /\ pending' = pending \o <<D, I>>
              /\ log' = Append(log, e)
    BY DEF virtio_submit_request, Publish
  <1>2. /\ h = NIL => a.rest = NIL
        /\ h # NIL => /\ h = Taken3(n)
                      /\ h \in Indices /\ h + 1 \in Indices /\ h + 2 \in Indices
                      /\ Taken3(n + 1) <= VIRTIO_QUEUE_SIZE
                      /\ \/ a.rest = NIL /\ Taken3(n + 1) = VIRTIO_QUEUE_SIZE
                         \/ a.rest = Taken3(n + 1) /\ Taken3(n + 1) < VIRTIO_QUEUE_SIZE
    BY <1>1, ThreeTaken
  <1>3. /\ n \in Nat /\ 3 * n <= VIRTIO_QUEUE_SIZE /\ n + 1 < IdxMod /\ avail_idx = n
        /\ avail_idx \in 0 .. IdxMod - 1
    BY InvFacts, FewRequests DEF IInv, TypeOK
  <1>4. CASE h = NIL
    <2>1. free_desc_head' = NIL
      BY <1>1, <1>2, <1>4
    <2>2. ListInOrder'
      BY <1>1, <1>4, <2>1, InvFacts DEF ListInOrder
    <2>3. DeviceBehind'
      BY <1>1, <1>4, InvFacts DEF DeviceBehind
    <2>4. QED
      BY <1>1, <1>3, <1>4, <2>1, <2>2, <2>3, InvFacts, KeepsInv
  <1>5. CASE h # NIL
    <2>1. /\ h = Taken3(n) /\ h = 3 * n
          /\ h \in Indices /\ h + 1 \in Indices /\ h + 2 \in Indices
      BY <1>2, <1>5 DEF Taken3
    <2>2. /\ Taken3(n + 1) <= VIRTIO_QUEUE_SIZE
          /\ \/ free_desc_head' = NIL /\ Taken3(n + 1) = VIRTIO_QUEUE_SIZE
             \/ free_desc_head' = Taken3(n + 1) /\ Taken3(n + 1) < VIRTIO_QUEUE_SIZE
      BY <1>1, <1>2, <1>5
    <2>3. (avail_idx + 1) % IdxMod = n + 1 /\ avail_idx % VIRTIO_QUEUE_SIZE = n
      <3> HIDE DEF n, h
      <3>1. /\ n \in Nat /\ n + 1 \in Nat /\ IdxMod \in Nat /\ VIRTIO_QUEUE_SIZE \in Nat
            /\ n < VIRTIO_QUEUE_SIZE /\ n + 1 < IdxMod
        <4>1. IdxMod \in Nat /\ VIRTIO_QUEUE_SIZE \in Nat
          BY QueueFacts
        <4>2. n < VIRTIO_QUEUE_SIZE
          BY <1>3, <2>1, HeadPlace, Zenon
        <4>3. n + 1 \in Nat
          BY <1>3
        <4>4. QED
          BY <1>3, <4>1, <4>2, <4>3, Zenon
      <3>2. (n + 1) % IdxMod = n + 1 /\ n % VIRTIO_QUEUE_SIZE = n
        BY <3>1, SmallMod
      <3>3. QED
        BY <1>3, <3>2
    <2>4. D \in SUBSET AnyStore /\ I \in SUBSET AnyStore
      <3>1. /\ Desc("hdr", r, {"NEXT"}, h + 1) \in DescType
            /\ Desc("status", r, {"WRITE"}, 0) \in DescType
            /\ Desc("data", r, IF write THEN {} ELSE {"WRITE"}, next[h + 1]) \in DescType
        BY <2>1, InvFacts, QueueFacts, SMTT(30) DEF Desc, DescType
      <3>2. /\ avail_idx % VIRTIO_QUEUE_SIZE \in Nat /\ h \in Nat /\ h + 1 \in Nat /\ h + 2 \in Nat
            /\ n + 1 \in Nat
        <4> HIDE DEF n, h
        <4>1. h \in Nat
          BY <1>3, <2>1, HeadPlace, Zenon
        <4>2. h + 1 \in Nat /\ h + 2 \in Nat
          BY <4>1
        <4>3. n + 1 \in Nat
          BY <1>3
        <4>4. QED
          BY <1>3, <2>3, <4>1, <4>2, <4>3, Zenon
      <3>3. /\ Store("hdr", 0, r) \in AnyStore
            /\ Store("desc", h, Desc("hdr", r, {"NEXT"}, h + 1)) \in AnyStore
            /\ Store("desc", h + 1, Desc("data", r, IF write THEN {} ELSE {"WRITE"}, next[h + 1])) \in AnyStore
            /\ Store("desc", h + 2, Desc("status", r, {"WRITE"}, 0)) \in AnyStore
            /\ Store("ring", avail_idx % VIRTIO_QUEUE_SIZE, h) \in AnyStore
            /\ Store("idx", 0, n + 1) \in AnyStore
        BY <3>1, <3>2 DEF Store, AnyStore
      <3>4. QED
        BY <2>3, <3>3 DEF Describe
    <2>5. e \in LogType
      BY <2>1 DEF LogType
    <2>6. avail_idx % VIRTIO_QUEUE_SIZE = n
      BY <2>3
    <2>7. (n + 1) - 1 = n
      BY <1>3
    <2>8. Append(log, e)[n + 1].req = r
      BY InvFacts, <2>5
    <2> DEFINE l2 == Append(log, e)
    <2>9. ASSUME NEW s \in D
          PROVE  Header(s) \/ Describes(s, l2, n + 1)
      <3>1. \/ s = Store("hdr", 0, r)
            \/ s = Store("desc", h, Desc("hdr", r, {"NEXT"}, h + 1))
            \/ s = Store("desc", h + 1, Desc("data", r, IF write THEN {} ELSE {"WRITE"}, next[h + 1]))
            \/ s = Store("desc", h + 2, Desc("status", r, {"WRITE"}, 0))
            \/ s = Store("ring", n, h)
        BY <2>6 DEF Describe
      <3>2. l2[n + 1].req = r
        BY <2>8
      <3> HIDE DEF l2, h, n
      <3>3. CASE s = Store("hdr", 0, r)
        BY <3>3 DEF Header, Store
      <3>4. CASE s = Store("desc", h, Desc("hdr", r, {"NEXT"}, h + 1))
        <4>1. HeadDesc(Desc("hdr", r, {"NEXT"}, h + 1), r, h)
          BY <2>1 DEF HeadDesc, Desc, DescType
        <4>2. QED
          BY <2>1, <2>7, <3>2, <3>4, <4>1 DEF Describes, Store
      <3>5. CASE s = Store("desc", h + 1, Desc("data", r, IF write THEN {} ELSE {"WRITE"}, next[h + 1]))
        <4>1. DataDesc(Desc("data", r, IF write THEN {} ELSE {"WRITE"}, next[h + 1]), r)
          BY <2>1, InvFacts DEF DataDesc, Desc, DescType
        <4>2. QED
          BY <2>1, <2>7, <3>2, <3>5, <4>1 DEF Describes, Store
      <3>6. CASE s = Store("desc", h + 2, Desc("status", r, {"WRITE"}, 0))
        <4>1. LastDesc(Desc("status", r, {"WRITE"}, 0), r)
          BY QueueFacts, SMTT(30) DEF LastDesc, Desc, DescType
        <4>2. QED
          BY <2>1, <2>7, <3>2, <3>6, <4>1 DEF Describes, Store
      <3>7. CASE s = Store("ring", n, h)
        BY <2>1, <2>7, <3>7 DEF Describes, Store
      <3>8. QED
        BY <3>1, <3>3, <3>4, <3>5, <3>6, <3>7
    <2>10. \A s \in I : Indexes(s, n + 1)
      BY <2>3 DEF Indexes, Store
    <2>11. /\ \E s \in D : s.at = "ring" /\ s.i = n
           /\ \E s \in D : s.at = "desc" /\ s.i = Taken3(n)
           /\ \E s \in D : s.at = "desc" /\ s.i = Taken3(n) + 1
      <3>1. /\ Store("ring", n, h) \in D
            /\ Store("desc", h, Desc("hdr", r, {"NEXT"}, h + 1)) \in D
            /\ Store("desc", h + 1, Desc("data", r, IF write THEN {} ELSE {"WRITE"}, next[h + 1])) \in D
        BY <2>6 DEF Describe
      <3>2. \A at, i, val : Store(at, i, val).at = at /\ Store(at, i, val).i = i
        BY DEF Store
      <3> HIDE DEF D, h, n
      <3>3. QED
        BY <2>1, <3>1, <3>2
    <2> DEFINE q == pending \o <<D, I>>
    <2>12. /\ q \in Seq(SUBSET AnyStore)
           /\ RightStores(q, l2) /\ Written(q, ram, l2)
           /\ Announced(q, ram.idx[0], l2) /\ Fenced(q, l2)
      <3> HIDE DEF D, I, e
      <3>1. /\ pending \in Seq(SUBSET AnyStore) /\ log \in Seq(LogType) /\ ram.idx[0] \in Nat
            /\ ram.idx[0] <= Len(log)
            /\ RightStores(pending, log) /\ Written(pending, ram, log)
            /\ Announced(pending, ram.idx[0], log) /\ Fenced(pending, log)
        BY InvFacts
      <3>2. QED
        BY <2>4, <2>5, <2>9, <2>10, <2>11, <3>1, PublishedStores
    <2>13. /\ l2 \in Seq(LogType) /\ Len(l2) = n + 1
           /\ l2[n + 1].head = Taken3(n)
           /\ \A j \in 1 .. n : l2[j] = log[j]
      <3>1. log \in Seq(LogType) /\ e \in LogType /\ e.head = Taken3(n)
        BY <2>1, <2>5, InvFacts
      <3> HIDE DEF e
      <3>2. QED
        BY <3>1, LogGrown
    <2> HIDE DEF l2, q, e, D, I
    <2>14. /\ log' = l2 /\ pending' = q /\ pc' = "notify" /\ ram' = ram /\ device' = device
           /\ avail_idx' = n + 1
           /\ next' = [next EXCEPT ![h] = h + 1, ![h + 2] = 0]
      BY <1>1, <1>5, <2>3 DEF l2, q
    <2> HIDE DEF h, a, n
    <2>15. next' \in [Indices -> Indices \cup {NIL}]
      BY <2>1, <2>14, InvFacts, QueueFacts, SMTT(30)
    <2>16. ListInOrder'
      <3>1. \A j \in 1 .. n + 1 : l2[j].head = Taken3(j - 1)
        <4>1. \A j \in 1 .. n + 1 : j \in 1 .. n \/ j = n + 1
          BY <1>3
        <4>2. \A j \in 1 .. n : l2[j].head = Taken3(j - 1)
          BY <2>13, InvFacts DEF ListInOrder, n
        <4>3. QED
          BY <2>7, <2>13, <4>1, <4>2
      <3>2. \A i \in Indices : i >= Taken3(n + 1) => next'[i] = FreeList[i]
        <4>1. ASSUME NEW i \in Indices, i >= Taken3(n + 1)
              PROVE  next'[i] = FreeList[i]
          <5>1. i # h /\ i # h + 2 /\ i >= Taken3(n)
            BY <1>3, <2>1, <4>1 DEF Taken3, Indices
          <5>2. next'[i] = next[i]
            BY <2>14, <5>1, InvFacts
          <5>3. QED
            BY <5>1, <5>2, InvFacts DEF ListInOrder, n
        <4>2. QED
          BY <4>1
      <3>3. /\ Len(log') = n + 1
            /\ \/ free_desc_head' = NIL
               \/ free_desc_head' = Taken3(n + 1) /\ Taken3(n + 1) < VIRTIO_QUEUE_SIZE
            /\ Taken3(n + 1) < VIRTIO_QUEUE_SIZE => free_desc_head' = Taken3(n + 1)
        <4>1. Taken3(n + 1) = VIRTIO_QUEUE_SIZE => ~(Taken3(n + 1) < VIRTIO_QUEUE_SIZE)
          BY QueueFacts, SMTT(30)
        <4>2. QED
          BY <2>2, <2>13, <2>14, <4>1
      <3>4. QED
        BY <2>2, <2>14, <3>1, <3>2, <3>3 DEF ListInOrder
    <2>17. DeviceBehind'
      <3>1. /\ device \in Devices /\ device.last = Len(device.taken)
            /\ device.last <= ram.idx[0] /\ ram.idx[0] <= n
            /\ \A i \in 1 .. Len(device.taken) : TakenRight(device.taken[i], log[i])
        BY InvFacts DEF DeviceBehind, n
      <3>2. Len(device.taken) \in Nat /\ ram.idx[0] \in Nat
        BY <3>1, InvFacts DEF Devices
      <3>3. \A i \in 1 .. Len(device.taken) : i \in 1 .. n
        BY <1>3, <3>1, <3>2, SMTT(30)
      <3>4. \A i \in 1 .. Len(device.taken) : TakenRight(device.taken[i], l2[i])
        BY <2>13, <3>1, <3>3
      <3>5. ram.idx[0] <= n + 1
        BY <1>3, <3>1, <3>2
      <3>6. QED
        BY <2>13, <2>14, <3>1, <3>4, <3>5 DEF DeviceBehind, TakenRight
    <2>18. free_desc_head' \in Indices \cup {NIL}
      BY <1>3, <2>2, QueueFacts, SMTT(30) DEF Indices, Taken3
    <2>19. avail_idx' \in 0 .. IdxMod - 1
      <3>1. n + 1 \in Nat
        BY <1>3
      <3>2. QED
        BY <1>3, <2>14, <3>1, SmallIndex
    <2>20. QED
      BY <2>12, <2>13, <2>14, <2>15, <2>16, <2>17, <2>18, <2>19, InvFacts, KeepsInv
  <1>6. QED
    BY <1>4, <1>5

LEMMA NotifyStep ==
  ASSUME IInv, Notify
  PROVE  IInv'
  <1>1. /\ UNCHANGED <<free_desc_head, next, avail_idx, log>> /\ pending' = pending /\ ram' = ram
        /\ pc = "notify" /\ pc' = "return"
        /\ device' = [device EXCEPT !.awake = TRUE]
    BY DEF Notify
  <1>2. ListInOrder'
    BY <1>1, DriverIdle
  <1>3. DeviceBehind'
    <2>1. device' \in Devices /\ device'.taken = device.taken /\ device'.last = device.last
      BY <1>1, InvFacts DEF DeviceBehind, Devices
    <2>2. QED
      BY <1>1, <2>1, InvFacts DEF DeviceBehind
  <1>4. avail_idx' \in 0 .. IdxMod - 1
    BY <1>1 DEF IInv, TypeOK
  <1>5. QED
    BY <1>1, <1>2, <1>3, <1>4, InvFacts, KeepsInv

LEMMA ReturnStep ==
  ASSUME IInv, Return
  PROVE  IInv'
  <1> DEFINE s == Store("hdr", 0, Junk)
  <1>1. /\ UNCHANGED <<free_desc_head, next, avail_idx, log>> /\ ram' = ram /\ device' = device
        /\ pc = "return" /\ pc' = "idle"
        /\ pending' = pending \/ pending' = Append(pending, {s})
    BY DEF Return
  <1>2. ListInOrder'
    BY <1>1, DriverIdle
  <1>3. DeviceBehind'
    BY <1>1, InvFacts DEF DeviceBehind
  <1>4. avail_idx' \in 0 .. IdxMod - 1
    BY <1>1 DEF IInv, TypeOK
  <1>5. s \in AnyStore /\ Header(s)
    BY DEF Store, AnyStore, Header, Junk
  <1> HIDE DEF s
  <1>6. /\ pending' \in Seq(SUBSET AnyStore)
        /\ RightStores(pending', log) /\ Written(pending', ram, log)
        /\ Announced(pending', ram.idx[0], log) /\ Fenced(pending', log)
    <2>1. /\ pending \in Seq(SUBSET AnyStore)
          /\ RightStores(pending, log) /\ Written(pending, ram, log)
          /\ Announced(pending, ram.idx[0], log) /\ Fenced(pending, log)
      BY InvFacts
    <2>2. QED
      BY <1>1, <1>5, <2>1, HeaderStored
  <1>7. QED
    BY <1>1, <1>2, <1>3, <1>4, <1>6, InvFacts, KeepsInv

LEMMA TrapStep ==
  ASSUME IInv, smode_trap_handler
  PROVE  IInv'
  <1>1. /\ UNCHANGED <<free_desc_head, next, avail_idx, log>> /\ pending' = pending /\ ram' = ram
        /\ device' = device /\ pc' = "panic"
    BY DEF smode_trap_handler
  <1>2. ListInOrder'
    BY <1>1, DriverIdle
  <1>3. DeviceBehind'
    BY <1>1, InvFacts DEF DeviceBehind
  <1>4. avail_idx' \in 0 .. IdxMod - 1
    BY <1>1 DEF IInv, TypeOK
  <1>5. QED
    BY <1>1, <1>2, <1>3, <1>4, InvFacts, KeepsInv

LEMMA DrainStep ==
  ASSUME IInv, Drain
  PROVE  IInv'
  <1>1. /\ UNCHANGED <<free_desc_head, next, avail_idx, log>> /\ device' = device /\ pc' = pc
        /\ pending # <<>>
    BY DEF Drain, kernel
  <1>2. PICK s \in Head(pending) : /\ ram' = [ram EXCEPT ![s.at][s.i] = s.val]
                                   /\ pending' = Drained(pending, s)
    BY DEF Drain, Drained
  <1>3. /\ pending' \in Seq(SUBSET AnyStore) /\ ram' \in RamType
        /\ RightStores(pending', log) /\ Written(pending', ram', log)
        /\ Announced(pending', ram'.idx[0], log) /\ Fenced(pending', log)
        /\ ram.idx[0] <= ram'.idx[0] /\ ram'.idx[0] <= Len(log)
    <2>1. /\ pending \in Seq(SUBSET AnyStore) /\ ram \in RamType /\ log \in Seq(LogType)
          /\ Taken3(Len(log)) <= VIRTIO_QUEUE_SIZE
          /\ RightStores(pending, log) /\ Written(pending, ram, log)
          /\ Announced(pending, ram.idx[0], log) /\ Fenced(pending, log)
          /\ ram.idx[0] <= Len(log)
          /\ \A j \in 1 .. Len(log) : log[j].head = Taken3(j - 1)
      BY InvFacts DEF ListInOrder
    <2>2. QED
      BY <1>1, <1>2, <2>1, DrainedStores
  <1>4. ListInOrder'
    BY <1>1, DriverIdle
  <1>5. DeviceBehind'
    <2>1. /\ device \in Devices /\ device.last = Len(device.taken) /\ device.last <= ram.idx[0]
          /\ \A i \in 1 .. Len(device.taken) : TakenRight(device.taken[i], log[i])
      BY InvFacts DEF DeviceBehind
    <2>2. device.last \in Nat /\ ram.idx[0] \in Nat /\ ram'.idx[0] \in Nat
      BY <1>3, <2>1, InvFacts DEF Devices, RamType
    <2>3. device.last <= ram'.idx[0]
      BY <1>3, <2>1, <2>2
    <2>4. QED
      BY <1>1, <1>3, <2>1, <2>3 DEF DeviceBehind
  <1>6. avail_idx' \in 0 .. IdxMod - 1 /\ pc' \in {"idle", "notify", "return", "panic"}
    BY <1>1 DEF IInv, TypeOK
  <1>7. QED
    BY <1>1, <1>3, <1>4, <1>5, <1>6, InvFacts, KeepsInv

LEMMA Pair ==
  ASSUME NEW T, NEW a \in T, NEW b \in T
  PROVE  <<a>> \o <<b>> \o <<>> = <<a, b>> /\ <<a, b>> \in Seq(T)
  <1> DEFINE s == <<a>> \o <<b>> \o <<>>
             u == <<a, b>>
  <1>1. s \in Seq(T) /\ Len(s) = 2 /\ s[1] = a /\ s[2] = b
    OBVIOUS
  <1>2. u \in Seq(T) /\ Len(u) = 2 /\ u[1] = a /\ u[2] = b
    OBVIOUS
  <1> HIDE DEF s, u
  <1>3. \A i \in 1 .. 2 : i = 1 \/ i = 2
    OBVIOUS
  <1>4. s = [i \in 1 .. 2 |-> s[i]] /\ u = [i \in 1 .. 2 |-> u[i]]
    BY <1>1, <1>2
  <1>5. \A i \in 1 .. 2 : s[i] = u[i]
    BY <1>1, <1>2, <1>3
  <1>6. s = u
    BY <1>4, <1>5
  <1>7. QED
    BY <1>2, <1>6 DEF s, u

(* What the device finds at a place of the ring that the index announces.  *)
LEMMA FoundRight ==
  ASSUME IInv, NEW j \in 1 .. Len(log), j <= ram.idx[0]
  PROVE  /\ ram.ring[j - 1] = log[j].head
         /\ Chain(log[j].head) \in Seq(DescType)
         /\ Len(Chain(log[j].head)) = 2
         /\ Chain(log[j].head)[1].req = log[j].req
         /\ Chain(log[j].head)[2].req = log[j].req
  <1> DEFINE h == Taken3(j - 1)
             r == log[j].req
  <1>1. /\ RightStores(pending, log) /\ Written(pending, ram, log)
        /\ Announced(pending, ram.idx[0], log)
        /\ ram \in RamType /\ ram.idx[0] \in Nat
        /\ log[j].head = h /\ 3 * Len(log) <= VIRTIO_QUEUE_SIZE
    BY InvFacts, FewRequests DEF ListInOrder
  <1>2. h = 3 * (j - 1) /\ h \in Indices /\ h + 1 \in Indices /\ j - 1 \in Indices
    BY <1>1, InvFacts, QueueFacts, SMTT(30) DEF Taken3, Indices
  <1> HIDE DEF h
  <1>3. ASSUME NEW at, NEW i, Late(pending, at, i),
               \/ at = "ring" /\ i = j - 1
               \/ at = "desc" /\ i \in {h, h + 1}
        PROVE  FALSE
    <2>1. PICK k \in 1 .. Len(pending) : \E x \in pending[k] : x.at = at /\ x.i = i
      BY <1>3 DEF Late
    <2>2. PICK s \in pending[k] : s.at = at /\ s.i = i
      BY <2>1
    <2>3. PICK g \in 1 .. Len(log) : Describes(s, log, g)
      BY <1>1, <1>3, <2>2 DEF RightStores, Header, Indexes
    <2>4. g = j
      BY <1>2, <1>3, <2>2, <2>3, InvFacts DEF Describes, Taken3
    <2>5. j > ram.idx[0]
      BY <1>1, <2>3, <2>4 DEF Announced
    <2>6. QED
      BY <1>1, <2>5
  <1>4. /\ ram.ring[j - 1] = h
        /\ HeadDesc(ram.desc[h], r, h)
        /\ DataDesc(ram.desc[h + 1], r)
    <2>1. ~Late(pending, "ring", j - 1) /\ ~Late(pending, "desc", h) /\ ~Late(pending, "desc", h + 1)
      BY <1>3
    <2>2. QED
      BY <1>1, <2>1 DEF Written, h
  <1>5. Chain(h) = <<ram.desc[h], ram.desc[h + 1]>>
    <2>1. Follow(ram.desc[h]) = <<ram.desc[h + 1]>>
      BY <1>4 DEF HeadDesc, Follow
    <2>2. Follow(<<ram.desc[h + 1]>>[1]) = <<>>
      BY <1>4 DEF DataDesc, Follow
    <2> DEFINE a == ram.desc[h]
               b == ram.desc[h + 1]
    <2>3. <<b>> # <<>>
      OBVIOUS
    <2>4. Chain(h) = <<a>> \o <<b>> \o <<>>
      BY <2>1, <2>2, <2>3 DEF Chain
    <2>5. a \in DescType /\ b \in DescType
      BY <1>4 DEF HeadDesc, DataDesc
    <2> HIDE DEF a, b
    <2>6. <<a>> \o <<b>> \o <<>> = <<a, b>>
      BY <2>5, Pair
    <2>7. QED
      BY <2>4, <2>6 DEF a, b
  <1>6. /\ ram.desc[h] \in DescType /\ ram.desc[h].req = r
        /\ ram.desc[h + 1] \in DescType /\ ram.desc[h + 1].req = r
    BY <1>4 DEF HeadDesc, DataDesc
  <1>7. QED
    BY <1>1, <1>4, <1>5, <1>6

LEMMA DeviceTakesStep ==
  ASSUME IInv, DeviceTakes
  PROVE  IInv'
  <1> DEFINE l == device.last
             h == ram.ring[l % VIRTIO_QUEUE_SIZE]
             e == [head |-> h, chain |-> Chain(h)]
  <1>1. /\ free_desc_head' = free_desc_head /\ next' = next /\ avail_idx' = avail_idx
        /\ pc' = pc /\ log' = log /\ pending' = pending /\ ram' = ram
        /\ l # ram.idx[0]
        /\ device' = [device EXCEPT !.last = (l + 1) % IdxMod, !.taken = Append(device.taken, e)]
    BY DEF DeviceTakes, kernel
  <1>2. /\ device \in Devices /\ l = Len(device.taken)
        /\ l <= ram.idx[0] /\ ram.idx[0] <= Len(log)
        /\ \A i \in 1 .. Len(device.taken) : TakenRight(device.taken[i], log[i])
        /\ ram.idx[0] \in Nat /\ Len(log) \in Nat
        /\ 3 * Len(log) <= VIRTIO_QUEUE_SIZE /\ Len(log) < IdxMod
        /\ l \in Nat
    BY InvFacts, FewRequests DEF DeviceBehind, Devices
  <1> HIDE DEF l
  <1>3. /\ l + 1 \in 1 .. Len(log) /\ l + 1 <= ram.idx[0] /\ (l + 1) - 1 = l
        /\ l + 1 \in Nat /\ l + 1 < IdxMod /\ l < VIRTIO_QUEUE_SIZE
    BY <1>1, <1>2, QueueFacts, SMTT(30)
  <1>4. l % VIRTIO_QUEUE_SIZE = l /\ (l + 1) % IdxMod = l + 1
    <2>1. VIRTIO_QUEUE_SIZE \in Nat /\ IdxMod \in Nat
      BY QueueFacts, SMTT(30)
    <2>2. QED
      BY <1>2, <1>3, <2>1, SmallMod
  <1>5. /\ h = log[l + 1].head
        /\ Chain(h) \in Seq(DescType) /\ TakenRight(e, log[l + 1])
        /\ h \in Indices
    <2>1. h = log[l + 1].head
      BY <1>3, <1>4, FoundRight
    <2> HIDE DEF h
    <2>2. h \in Indices
      <3>1. log[l + 1] \in LogType
        BY <1>3, InvFacts
      <3>2. QED
        BY <2>1, <3>1 DEF LogType
    <2>3. QED
      BY <1>3, <2>1, <2>2, FoundRight DEF TakenRight
  <1> HIDE DEF h
  <1>6. e \in [head : Indices, chain : Seq(DescType)]
    BY <1>5
  <1> HIDE DEF e
  <1>7. /\ device' \in Devices /\ device'.last = l + 1
        /\ device'.taken = Append(device.taken, e)
    <2>1. Append(device.taken, e) \in Seq([head : Indices, chain : Seq(DescType)])
      BY <1>2, <1>6 DEF Devices
    <2>2. QED
      BY <1>1, <1>2, <1>3, <1>4, <2>1 DEF Devices
  <1>8. /\ Len(device'.taken) = l + 1
        /\ \A i \in 1 .. l + 1 : TakenRight(device'.taken[i], log[i])
    <2>1. /\ Len(Append(device.taken, e)) = l + 1
          /\ Append(device.taken, e)[l + 1] = e
          /\ \A i \in 1 .. l : Append(device.taken, e)[i] = device.taken[i]
      BY <1>2, <1>6, LogGrown DEF Devices
    <2>2. \A i \in 1 .. l + 1 : i \in 1 .. l \/ i = l + 1
      BY <1>2
    <2>3. QED
      BY <1>2, <1>5, <1>7, <2>1, <2>2
  <1>9. DeviceBehind'
    BY <1>1, <1>2, <1>3, <1>7, <1>8 DEF DeviceBehind, TakenRight
  <1>10. ListInOrder'
    BY <1>1, DriverIdle
  <1>11. avail_idx' \in 0 .. IdxMod - 1 /\ pc' \in {"idle", "notify", "return", "panic"}
    BY <1>1 DEF IInv, TypeOK
  <1>12. QED
    BY <1>1, <1>9, <1>10, <1>11, InvFacts, KeepsInv

(* The device falls asleep or serves: the rings and what it took stay.     *)
LEMMA DeviceElseStep ==
  ASSUME IInv, UNCHANGED <<kernel, pending, ram>>, device' \in Devices,
         device'.taken = device.taken, device'.last = device.last
  PROVE  IInv'
  <1>1. /\ free_desc_head' = free_desc_head /\ next' = next /\ avail_idx' = avail_idx
        /\ pc' = pc /\ log' = log /\ pending' = pending /\ ram' = ram
    BY DEF kernel
  <1>2. DeviceBehind'
    BY <1>1, InvFacts DEF DeviceBehind
  <1>3. ListInOrder'
    BY <1>1, DriverIdle
  <1>4. avail_idx' \in 0 .. IdxMod - 1 /\ pc' \in {"idle", "notify", "return", "panic"}
    BY <1>1 DEF IInv, TypeOK
  <1>5. QED
    BY <1>1, <1>2, <1>3, <1>4, InvFacts, KeepsInv

LEMMA DeviceSleepsStep ==
  ASSUME IInv, DeviceSleeps
  PROVE  IInv'
  <1>1. device' = [device EXCEPT !.awake = FALSE] /\ UNCHANGED <<kernel, pending, ram>>
    BY DEF DeviceSleeps
  <1>2. device \in Devices
    BY InvFacts DEF DeviceBehind
  <1>3. device' \in Devices /\ device'.taken = device.taken /\ device'.last = device.last
    BY <1>1, <1>2 DEF Devices
  <1>4. QED
    BY <1>1, <1>3, DeviceElseStep

LEMMA DeviceServesStep ==
  ASSUME IInv, NEW i \in 1 .. Len(device.taken), DeviceServes(i)
  PROVE  IInv'
  <1> DEFINE S == device.served \cup {[i |-> i, hdr |-> ram.hdr[0]]}
  <1>1. /\ device' = [device EXCEPT !.served = S, !.irq = TRUE]
        /\ UNCHANGED <<kernel, pending, ram>>
    BY DEF DeviceServes
  <1>2. device \in Devices /\ ram.hdr[0] \in Requests \cup {Junk} /\ i \in Nat
    BY InvFacts DEF DeviceBehind, RamType
  <1>3. S \in SUBSET [i : Nat, hdr : Requests \cup {Junk}]
    BY <1>2 DEF Devices
  <1> HIDE DEF S
  <1>4. device' \in Devices /\ device'.taken = device.taken /\ device'.last = device.last
    BY <1>1, <1>2, <1>3 DEF Devices
  <1>5. QED
    BY <1>1, <1>4, DeviceElseStep

-----------------------------------------------------------------------------
LEMMA StepInv ==
  ASSUME IInv, [Next]_vars
  PROVE  IInv'
  <1>1. ASSUME NEW r \in Requests, NEW write \in BOOLEAN, virtio_submit_request(r, write)
        PROVE  IInv'
    BY <1>1, SubmitStep
  <1>2. ASSUME NEW i \in 1 .. Len(device.taken), DeviceServes(i) PROVE IInv'
    BY <1>2, DeviceServesStep
  <1>3. ASSUME UNCHANGED vars PROVE IInv'
    <2>1. /\ device' = device /\ UNCHANGED <<kernel, pending, ram>>
      BY <1>3 DEF vars
    <2>2. device' \in Devices
      BY <2>1, InvFacts DEF DeviceBehind
    <2>3. QED
      BY <2>1, <2>2, DeviceElseStep
  <1>4. QED
    BY <1>1, <1>2, <1>3, NotifyStep, ReturnStep, TrapStep, DrainStep, DeviceTakesStep,
       DeviceSleepsStep DEF Next

(* The free list stays in order, and no store on its way to RAM overtakes  *)
(* the index that announces it, at any point of any submission.            *)
THEOREM Invariance == Spec => []IInv
  BY InitInv, StepInv, PTL DEF Spec

(* Every index that the kernel or the device follows is that of a          *)
(* descriptor or the end mark (MMIO.cpp:230-257, :293-345).                *)
THEOREM TypeCorrect == Spec => []TypeOK
  <1>1. IInv => TypeOK
    BY DEF IInv
  <1>2. QED
    BY <1>1, Invariance, PTL

(* From its head on the list runs through every descriptor to the last.    *)
LEMMA ListIsTheRest ==
  ASSUME IInv, pc # "panic", Taken3(Len(log)) < VIRTIO_QUEUE_SIZE,
         NEW D \in SUBSET Indices, HoldsList(D)
  PROVE  \A d \in Indices : d >= Taken3(Len(log)) => d \in D
  <1> DEFINE t == Taken3(Len(log))
             S == { n \in Nat : t + n < VIRTIO_QUEUE_SIZE => t + n \in D }
  <1>1. t \in Nat
    BY InvFacts, FewRequests DEF Taken3
  <1>2. free_desc_head = t
    BY InvFacts DEF ListInOrder
  <1>3. t # NIL
    BY <1>1, QueueFacts, SMTT(30)
  <1>4. t \in D
    BY <1>2, <1>3 DEF HoldsList
  <1>5. \A i \in Indices : i >= t => next[i] = FreeList[i]
    BY InvFacts DEF ListInOrder
  <1> HIDE DEF t
  <1>6. 0 \in S
    BY <1>1, <1>4
  <1>7. ASSUME NEW n \in S
        PROVE  n + 1 \in S
    <2>1. n \in Nat /\ n + 1 \in Nat
      OBVIOUS
    <2>2. ASSUME t + (n + 1) < VIRTIO_QUEUE_SIZE
          PROVE  t + (n + 1) \in D
      <3>1. t + n < VIRTIO_QUEUE_SIZE /\ t + n \in D
        BY <1>1, <2>1, <2>2, QueueFacts
      <3>2. t + n \in Indices /\ t + n >= t /\ t + n # VIRTIO_QUEUE_SIZE - 1
        BY <1>1, <2>1, <2>2, <3>1, QueueFacts DEF Indices
      <3>3. next[t + n] = t + n + 1
        BY <1>5, <3>2 DEF FreeList
      <3>4. t + n + 1 # NIL
        BY <1>1, <2>1, <2>2, QueueFacts, SMTT(30)
      <3>5. t + n + 1 \in D
        BY <3>1, <3>3, <3>4 DEF HoldsList
      <3>6. t + n + 1 = t + (n + 1)
        BY <1>1, <2>1
      <3>7. QED
        BY <3>5, <3>6
    <2>3. QED
      BY <2>1, <2>2
  <1>8. \A n \in Nat : n \in S
    <2> HIDE DEF S
    <2>1. S \in SUBSET Nat
      BY DEF S
    <2>2. QED
      BY <1>6, <1>7, <2>1, SetInduction
  <1>9. ASSUME NEW d \in Indices, d >= t
        PROVE  d \in D
    <2>1. d - t \in Nat /\ t + (d - t) = d /\ d < VIRTIO_QUEUE_SIZE
      BY <1>1, <1>9, QueueFacts DEF Indices
    <2>2. QED
      BY <1>8, <2>1
  <1>10. QED
    BY <1>9 DEF t

LEMMA InvMeansAllocated ==
  ASSUME IInv
  PROVE  ChainsAreAllocated
  <1> DEFINE n == Len(log)
             D == { i \in Indices : i >= Taken3(n) }
  <1>1. n \in Nat /\ 3 * n <= VIRTIO_QUEUE_SIZE
    BY InvFacts, FewRequests
  <1>2. \A j \in 1 .. n : Chained(j) = 3 * (j - 1) .. 3 * (j - 1) + 2
    BY InvFacts DEF ListInOrder, Chained, Taken3
  <1>3. HoldsList(D)
    <2>1. free_desc_head # NIL => free_desc_head \in D
      BY <1>1, InvFacts, QueueFacts, SMTT(30) DEF ListInOrder, Taken3, Indices
    <2>2. ASSUME NEW i \in D, next[i] # NIL
          PROVE  next[i] \in D
      <3>1. next[i] = IF i = VIRTIO_QUEUE_SIZE - 1 THEN NIL ELSE i + 1
        BY InvFacts DEF ListInOrder, FreeList
      <3>2. QED
        BY <1>1, <2>2, <3>1, QueueFacts, SMTT(30) DEF Taken3, Indices
    <2>3. QED
      BY <2>1, <2>2 DEF HoldsList
  <1>4. FreeDescs \subseteq D
    BY <1>3 DEF FreeDescs
  <1> HIDE DEF D
  <1>5. ASSUME NEW i \in 1 .. n
        PROVE  /\ Chained(i) \subseteq Indices
               /\ FreeDescs \cap Chained(i) = {}
               /\ \A j \in 1 .. n : i # j => Chained(i) \cap Chained(j) = {}
    <2>1. \A x \in Chained(i) : x \in Nat /\ x >= 3 * (i - 1) /\ x <= 3 * (i - 1) + 2
      BY <1>2
    <2>2. \A x \in Chained(i) : x < 3 * n
      BY <1>1, <2>1
    <2>3. Chained(i) \subseteq Indices
      BY <1>1, <2>1, <2>2, QueueFacts, SMTT(30) DEF Indices
    <2>4. FreeDescs \cap Chained(i) = {}
      BY <1>1, <1>4, <2>1, <2>2 DEF D, Taken3
    <2>5. ASSUME NEW j \in 1 .. n, i # j
          PROVE  Chained(i) \cap Chained(j) = {}
      <3>1. \A x \in Chained(j) : x \in Nat /\ x >= 3 * (j - 1) /\ x <= 3 * (j - 1) + 2
        BY <1>2
      <3>2. QED
        BY <1>1, <2>1, <2>5, <3>1
    <2>6. QED
      BY <2>3, <2>4, <2>5
  <1>6. QED
    BY <1>5 DEF ChainsAreAllocated

(* No two requests share a descriptor and none is free while a request has *)
(* it: the driver takes three off the list and uses head, head + 1 and     *)
(* head + 2, and they are the same (MMIO.cpp:230, :301-325).               *)
THEOREM ChainsApart == Spec => []ChainsAreAllocated
  BY InvMeansAllocated, Invariance, PTL

LEMMA InvMeansNoneLost ==
  ASSUME IInv
  PROVE  NoDescriptorLost
  <1> DEFINE n == Len(log)
  <1>1. n \in Nat /\ 3 * n <= VIRTIO_QUEUE_SIZE
    BY InvFacts, FewRequests
  <1>2. \A j \in 1 .. n : Chained(j) = 3 * (j - 1) .. 3 * (j - 1) + 2
    BY InvFacts DEF ListInOrder, Chained, Taken3
  <1>3. ASSUME pc # "panic", NEW d \in Indices
        PROVE  d \in FreeDescs \/ \E i \in 1 .. n : d \in Chained(i)
    <2>1. d \in Nat /\ d < VIRTIO_QUEUE_SIZE
      BY QueueFacts DEF Indices
    <2>2. CASE d < 3 * n
      <3> DEFINE i == (d \div 3) + 1
      <3>1. i \in 1 .. n /\ 3 * (i - 1) <= d /\ d <= 3 * (i - 1) + 2
        BY <1>1, <2>1, <2>2, SMTT(30)
      <3>2. d \in Chained(i)
        BY <1>2, <2>1, <3>1
      <3>3. QED
        BY <3>1, <3>2
    <2>3. CASE d >= 3 * n
      <3>1. Taken3(n) < VIRTIO_QUEUE_SIZE /\ d >= Taken3(n)
        BY <1>1, <2>1, <2>3, QueueFacts DEF Taken3
      <3>2. \A E \in SUBSET Indices : HoldsList(E) => d \in E
        BY <1>3, <3>1, ListIsTheRest
      <3>3. QED
        BY <3>2 DEF FreeDescs
    <2>4. QED
      BY <1>1, <2>1, <2>2, <2>3
  <1>4. QED
    BY <1>3 DEF NoDescriptorLost

(* While the machine runs every descriptor is in a request or on the free  *)
(* list, which runs to its end from the first descriptor not used yet:     *)
(* what alloc_desc_chain takes and does not put back is lost (MMIO.cpp:240)*)
(* only where the machine stops.                                           *)
THEOREM NoneIsLost == Spec => []NoDescriptorLost
  BY InvMeansNoneLost, Invariance, PTL

LEMMA InvMeansTaken ==
  ASSUME IInv
  PROVE  TakenAsSubmitted
  <1>1. /\ device \in Devices
        /\ device.last = Len(device.taken) /\ device.last <= ram.idx[0] /\ ram.idx[0] <= Len(log)
        /\ \A i \in 1 .. Len(device.taken) : TakenRight(device.taken[i], log[i])
        /\ ram.idx[0] \in Nat /\ Len(log) \in Nat /\ Len(device.taken) \in Nat
    BY InvFacts DEF DeviceBehind, Devices
  <1>2. Len(device.taken) <= Len(log)
    BY <1>1
  <1>3. ASSUME NEW i \in 1 .. Len(device.taken)
        PROVE  /\ device.taken[i].head = log[i].head
               /\ Len(device.taken[i].chain) >= 2
               /\ \A k \in 1 .. Len(device.taken[i].chain) : device.taken[i].chain[k].req = log[i].req
    <2>1. TakenRight(device.taken[i], log[i])
      BY <1>1
    <2>2. \A k \in 1 .. 2 : k = 1 \/ k = 2
      OBVIOUS
    <2>3. QED
      BY <2>1, <2>2 DEF TakenRight
  <1>4. QED
    BY <1>2, <1>3 DEF TakenAsSubmitted

(* The device takes the requests in the order of their submission, each    *)
(* once, and reads what the driver wrote, however late the stores arrive:  *)
(* the one fence of a submission is where it must be (MMIO.cpp:327).       *)
THEOREM TakenInOrder == Spec => []TakenAsSubmitted
  BY InvMeansTaken, Invariance, PTL
=============================================================================
