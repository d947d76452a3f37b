-------------------------- MODULE VirtioDisk_proofs --------------------------
(***************************************************************************)
(* For every number of processes and every queue of at least three         *)
(* descriptors: what the reference disk driver promises its callers, and   *)
(* the invariants its runs check.  Indices wrap at any multiple of the     *)
(* queue's size, so at the code's 65536 too.                               *)
(*                                                                         *)
(* None of these is inductive.  DriverInv is, in three layers, each proved *)
(* from those before it: who holds the lock when (Locks); which            *)
(* descriptors a call owns and what it wrote there (CallInv); and where    *)
(* each head is (RingInv): the stretches of the two rings that are not     *)
(* read yet and the set the device holds are disjoint, hold no head twice, *)
(* and together hold exactly the heads of the calls that wait.  That no    *)
(* ring overruns its reader is then the pigeonhole principle, since the    *)
(* second descriptor of a call is never a head.                            *)
(***************************************************************************)
EXTENDS VirtioDisk, FiniteSetTheorems, SequenceTheorems, WellFoundedInduction, TLAPS

-----------------------------------------------------------------------------
(* Induction on natural numbers, for a set in the place of a predicate. *)
LEMMA SetInduction ==
  ASSUME NEW S \in SUBSET Nat, 0 \in S, \A n \in S : n + 1 \in S
  PROVE  \A n \in Nat : n \in S
  <1> DEFINE T == Nat \ S
             R == OpToRel(<, Nat)
  <1> SUFFICES ASSUME T # {} PROVE FALSE
    OBVIOUS
  <1>1. IsWellFoundedOn(R, Nat)
    BY NatLessThanWellFounded
  <1>2. \A a, b \in Nat : a < b => <<a, b>> \in R
    BY DEF OpToRel
  <1> HIDE DEF R
  <1>3. PICK x \in T : \A y \in T : ~(<<y, x>> \in R)
    BY <1>1, WFMin
  <1>4. x \in Nat /\ x # 0 /\ x - 1 \in Nat /\ x - 1 < x /\ x - 1 + 1 = x
    BY <1>3
  <1>5. x - 1 \in S
    BY <1>2, <1>3, <1>4
  <1>6. QED
    BY <1>3, <1>4, <1>5

(* The chains of at most so many links: what a recursive definition of     *)
(* Chain computes, if there is a function that it defines.                 *)
Longer(g, n) ==
  [j \in Indices |-> <<j>> \o IF desc[j].NEXT /\ n > 0 THEN g[n - 1][desc[j].next] ELSE <<>>]

LEMMA LongerLooksBack ==
  ASSUME NEW g, NEW h, NEW n, n > 0 => g[n - 1] = h[n - 1]
  PROVE  Longer(g, n) = Longer(h, n)
  BY DEF Longer

LEMMA LinksExist ==
  \A n \in Nat : \E g : g = [links \in 0 .. n |-> Longer(g, links)]
  <1> DEFINE S == { n \in Nat : \E g : g = [links \in 0 .. n |-> Longer(g, links)] }
  <1>1. 0 \in S
    <2> DEFINE g == [links \in 0 .. 0 |-> [j \in Indices |-> <<j>> \o <<>>]]
    <2>1. \A links \in 0 .. 0 : Longer(g, links) = g[links]
      BY DEF Longer
    <2>2. g = [links \in 0 .. 0 |-> Longer(g, links)]
      BY <2>1
    <2> HIDE DEF g
    <2>3. QED
      BY <2>2
  <1>2. ASSUME NEW n \in S PROVE n + 1 \in S
    <2>1. PICK g : g = [links \in 0 .. n |-> Longer(g, links)]
      OBVIOUS
    <2> DEFINE h == [links \in 0 .. n + 1 |-> IF links <= n THEN g[links] ELSE Longer(g, links)]
    <2>2. n \in Nat
      OBVIOUS
    <2>3. \A links \in 0 .. n : h[links] = g[links]
      BY <2>2
    <2>4. ASSUME NEW links \in 0 .. n + 1 PROVE Longer(h, links) = Longer(g, links)
      <3>1. links > 0 => links - 1 \in 0 .. n
        BY <2>2
      <3>2. links > 0 => h[links - 1] = g[links - 1]
        BY <2>3, <3>1
      <3> HIDE DEF h
      <3>3. QED
        BY <3>2, LongerLooksBack
    <2>5. \A links \in 0 .. n + 1 : h[links] = Longer(g, links)
      BY <2>1, <2>2
    <2>6. \A links \in 0 .. n + 1 : h[links] = Longer(h, links)
      BY <2>4, <2>5
    <2>7. h = [links \in 0 .. n + 1 |-> h[links]]
      OBVIOUS
    <2> HIDE DEF h
    <2>8. h = [links \in 0 .. n + 1 |-> Longer(h, links)]
      BY <2>6, <2>7
    <2>9. QED
      BY <2>2, <2>8
  <1> HIDE DEF S
  <1>3. \A n \in Nat : n \in S
    <2>1. S \in SUBSET Nat
      BY DEF S
    <2>2. QED
      BY <1>1, <1>2, <2>1, SetInduction
  <1>4. QED
    BY <1>3 DEF S

LEMMA ChainIsDefined ==
  \E c : /\ c = [links \in 0 .. NUM |-> Longer(c, links)]
         /\ \A i : Chain(i) = c[NUM][i]
  <1> DEFINE D(d) == [links \in 0 .. NUM |->
                       [j \in Indices |->
                         <<j>> \o IF desc[j].NEXT /\ links > 0 THEN d[links - 1][desc[j].next] ELSE <<>>]]
             c == CHOOSE d : d = D(d)
  <1>1. \A i : Chain(i) = c[NUM][i]
    BY DEF Chain
  <1>2. \A d : D(d) = [links \in 0 .. NUM |-> Longer(d, links)]
    BY DEF Longer
  <1>3. \E d : d = D(d)
    <2>1. PICK d : d = [links \in 0 .. NUM |-> Longer(d, links)]
      BY LinksExist, DiskAssumption
    <2>2. d = D(d)
      BY <1>2, <2>1, Zenon
    <2>3. QED
      BY <2>2, Zenon
  <1>4. c = D(c)
    BY <1>3, Zenon
  <1>5. QED
    BY <1>1, <1>2, <1>4

LEMMA Joined ==
  ASSUME NEW S, NEW x \in S, NEW t \in Seq(S), NEW v \in Seq(S),
         Len(v) = Len(t) + 1, v[1] = x, \A k \in 1 .. Len(t) : v[k + 1] = t[k]
  PROVE  <<x>> \o t = v
  <1> DEFINE one == <<x>>
             u == one \o t
  <1>1. one \in Seq(S) /\ Len(one) = 1 /\ one[1] = x /\ Len(t) \in Nat
    OBVIOUS
  <1> HIDE DEF one
  <1>2. /\ u \in Seq(S) /\ Len(u) = Len(one) + Len(t)
        /\ \A k \in 1 .. Len(one) + Len(t) : u[k] = IF k <= Len(one) THEN one[k] ELSE t[k - Len(one)]
    BY <1>1, ConcatProperties
  <1> HIDE DEF u
  <1>3. Len(u) = Len(v)
    BY <1>1, <1>2
  <1>4. ASSUME NEW k \in 1 .. Len(u) PROVE u[k] = v[k]
    <2>1. CASE k = 1
      BY <1>1, <1>2, <2>1
    <2>2. CASE k # 1
      <3>1. k - 1 \in 1 .. Len(t) /\ ~(k <= Len(one)) /\ k - Len(one) = k - 1 /\ k - 1 + 1 = k
        BY <1>1, <1>2, <2>2
      <3>2. u[k] = t[k - 1] /\ v[k - 1 + 1] = t[k - 1]
        BY <1>2, <3>1
      <3>3. QED
        BY <3>1, <3>2
    <2>3. QED
      BY <2>1, <2>2
  <1>5. u = v
    BY <1>2, <1>3, <1>4, SeqEqual
  <1>6. QED
    BY <1>5 DEF u, one

(* The chain of a call: three descriptors, the last without NEXT. *)
LEMMA ThreeLinks ==
  ASSUME NEW a \in Indices, NEW b \in Indices, NEW c \in Indices,
         desc[a].NEXT, desc[a].next = b, desc[b].NEXT, desc[b].next = c, ~desc[c].NEXT
  PROVE  Chain(a) = <<a, b, c>>
  <1>1. PICK f : f = [links \in 0 .. NUM |-> Longer(f, links)] /\ (\A i : Chain(i) = f[NUM][i])
    BY ChainIsDefined
  <1>2. NUM \in Nat /\ NUM >= 3
    BY DiskAssumption
  <1>3. ASSUME NEW n \in 0 .. NUM, NEW j \in Indices
        PROVE  f[n][j] = <<j>> \o IF desc[j].NEXT /\ n > 0 THEN f[n - 1][desc[j].next] ELSE <<>>
    <2>1. f[n] = Longer(f, n)
      BY <1>1
    <2>2. QED
      BY <2>1 DEF Longer
  <1>4. /\ NUM \in 0 .. NUM /\ NUM > 0
        /\ NUM - 1 \in 0 .. NUM /\ NUM - 1 > 0
        /\ NUM - 2 \in 0 .. NUM /\ NUM - 1 - 1 = NUM - 2
    BY <1>2
  <1>5. f[NUM - 2][c] = <<c>> \o <<>>
    BY <1>3, <1>4, Zenon
  <1>6. f[NUM - 1][b] = <<b>> \o f[NUM - 1 - 1][c]
    BY <1>3, <1>4, Zenon
  <1>7. f[NUM][a] = <<a>> \o f[NUM - 1][b]
    BY <1>3, <1>4, Zenon
  <1>8. f[NUM][a] = <<a>> \o (<<b>> \o (<<c>> \o <<>>))
    BY <1>4, <1>5, <1>6, <1>7, Zenon
  <1>9. <<a>> \o (<<b>> \o (<<c>> \o <<>>)) = <<a, b, c>>
    <2>1. <<c>> \o <<>> = <<c>>
      OBVIOUS
    <2>2. <<b>> \o <<c>> = <<b, c>>
      <3> DEFINE t == <<c>>
                 v == <<b, c>>
      <3>1. t \in Seq(Indices) /\ Len(t) = 1 /\ t[1] = c
        OBVIOUS
      <3>2. v \in Seq(Indices) /\ Len(v) = 2 /\ v[1] = b /\ v[2] = c
        OBVIOUS
      <3> HIDE DEF t, v
      <3>3. Len(v) = Len(t) + 1 /\ v[1] = b /\ \A k \in 1 .. Len(t) : v[k + 1] = t[k]
        BY <3>1, <3>2
      <3>4. <<b>> \o t = v
        BY <3>1, <3>2, <3>3, Joined
      <3>5. QED
        BY <3>4 DEF t, v
    <2>3. <<a>> \o <<b, c>> = <<a, b, c>>
      <3> DEFINE t == <<b, c>>
                 v == <<a, b, c>>
      <3>1. t \in Seq(Indices) /\ Len(t) = 2 /\ t[1] = b /\ t[2] = c
        OBVIOUS
      <3>2. v \in Seq(Indices) /\ Len(v) = 3 /\ v[1] = a /\ v[2] = b /\ v[3] = c
        OBVIOUS
      <3> HIDE DEF t, v
      <3>3. Len(v) = Len(t) + 1 /\ v[1] = a /\ \A k \in 1 .. Len(t) : v[k + 1] = t[k]
        BY <3>1, <3>2
      <3>4. <<a>> \o t = v
        BY <3>1, <3>2, <3>3, Joined
      <3>5. QED
        BY <3>4 DEF t, v
    <2>4. QED
      BY <2>1, <2>2, <2>3, Zenon
  <1>10. QED
    BY <1>1, <1>8, <1>9, Zenon
-----------------------------------------------------------------------------
(* Three of a finite set, in their order. *)
LEMMA Three ==
  ASSUME NEW S \in SUBSET Nat, IsFiniteSet(S), Cardinality(S) = 3
  PROVE  LET s == Ascending(S)
         IN  /\ s \in [1 .. 3 -> S] /\ s[1] < s[2] /\ s[2] < s[3]
             /\ S = {s[1], s[2], s[3]}
  <1>0. Cardinality({}) = 0
    BY FS_EmptySet, Zenon
  <1>1. PICK a \in S : TRUE
    <2>1. S # {}
      <3>1. S = {} => Cardinality(S) = 0
        BY <1>0, Zenon
      <3>2. QED
        BY <3>1
    <2>2. QED
      BY <2>1, Zenon
  <1>2. IsFiniteSet(S \ {a}) /\ Cardinality(S \ {a}) = 2
    <2>1. /\ IsFiniteSet(S \ {a})
          /\ Cardinality(S \ {a}) = IF a \in S THEN Cardinality(S) - 1 ELSE Cardinality(S)
      BY FS_RemoveElement, Zenon
    <2>2. QED
      BY <2>1
  <1>3. PICK b \in S \ {a} : TRUE
    <2> DEFINE U == S \ {a}
    <2>1. U = {} => Cardinality(U) = 0
      BY <1>0, Zenon
    <2>2. Cardinality(U) = 2
      BY <1>2
    <2> HIDE DEF U
    <2>3. U # {}
      BY <2>1, <2>2
    <2>4. \E b : b \in U
      BY <2>3, Zenon
    <2>5. QED
      BY <2>4, Zenon DEF U
  <1>4. IsFiniteSet((S \ {a}) \ {b}) /\ Cardinality((S \ {a}) \ {b}) = 1
    <2> DEFINE U == S \ {a}
    <2>1. IsFiniteSet(U) /\ Cardinality(U) = 2 /\ b \in U
      BY <1>2
    <2> HIDE DEF U
    <2>2. /\ IsFiniteSet(U \ {b})
          /\ Cardinality(U \ {b}) = IF b \in U THEN Cardinality(U) - 1 ELSE Cardinality(U)
      BY <2>1, FS_RemoveElement, Zenon
    <2>3. QED
      BY <2>1, <2>2 DEF U
  <1>5. PICK c : (S \ {a}) \ {b} = {c}
    BY <1>4, FS_Singleton
  <1>6. /\ S = {a, b, c} /\ a # b /\ a # c /\ b # c
        /\ a \in Nat /\ b \in Nat /\ c \in Nat
    BY <1>5
  <1>7. \E x, y, z \in S : x < y /\ y < z
    BY <1>6
  <1>8. \A x, y, z \in S : x < y /\ y < z => S = {x, y, z}
    <2> SUFFICES ASSUME NEW x \in S, NEW y \in S, NEW z \in S, x < y, y < z
                 PROVE  S = {x, y, z}
      OBVIOUS
    <2>1. x # y /\ y # z /\ x # z
      BY <1>6
    <2>2. QED
      BY <1>6, <2>1
  <1>9. PICK x \in S, y \in S, z \in S : x < y /\ y < z
    BY <1>7
  <1> DEFINE t == [k \in 1 .. 3 |-> IF k = 1 THEN x ELSE IF k = 2 THEN y ELSE z]
             s == Ascending(S)
  <1>10. t \in [1 .. 3 -> S] /\ t[1] < t[2] /\ t[2] < t[3]
    BY <1>9
  <1> HIDE DEF t
  <1>11. s \in [1 .. 3 -> S] /\ s[1] < s[2] /\ s[2] < s[3]
    BY <1>10, Zenon DEF Ascending
  <1> HIDE DEF s
  <1>12. s[1] \in S /\ s[2] \in S /\ s[3] \in S
    BY <1>11
  <1>13. S = {s[1], s[2], s[3]}
    BY <1>8, <1>11, <1>12, Zenon
  <1>14. QED
    BY <1>11, <1>13 DEF s

LEMMA FoundAscending ==
  ASSUME Cardinality(Found) = 3
  PROVE  LET s == Ascending(Found)
         IN  /\ s \in [1 .. 3 -> Indices] /\ s[1] < s[2] /\ s[2] < s[3]
             /\ Found = {s[1], s[2], s[3]}
             /\ \A i \in Found : free[i]
  <1>1. NUM \in Nat /\ NUM >= 3
    BY DiskAssumption
  <1>2. Found \in SUBSET Indices /\ Indices \in SUBSET Nat
    BY <1>1 DEF Found, Indices
  <1>3. IsFiniteSet(Indices)
    BY <1>1, FS_Interval DEF Indices
  <1>4. IsFiniteSet(Found)
    BY <1>2, <1>3, FS_Subset
  <1>5. Found \in SUBSET Nat
    BY <1>2
  <1>6. \A i \in Found : free[i]
    BY DEF Found
  <1> DEFINE s == Ascending(Found)
             S == Found
  <1> HIDE DEF S
  <1>7. S \in SUBSET Nat /\ IsFiniteSet(S) /\ Cardinality(S) = 3
    BY <1>4, <1>5 DEF S
  <1>8. LET u == Ascending(S)
        IN  /\ u \in [1 .. 3 -> S] /\ u[1] < u[2] /\ u[2] < u[3]
            /\ S = {u[1], u[2], u[3]}
    BY <1>7, Three
  <1>9. /\ s \in [1 .. 3 -> Found] /\ s[1] < s[2] /\ s[2] < s[3]
        /\ Found = {s[1], s[2], s[3]}
    BY <1>8, Zenon DEF S
  <1> HIDE DEF s
  <1>10. s \in [1 .. 3 -> Indices]
    BY <1>2, <1>9
  <1>11. QED
    BY <1>6, <1>9, <1>10 DEF s

-----------------------------------------------------------------------------
(* Remainders: what one step, and one turn, of a ring comes to. *)
LEMMA ModUnique ==
  ASSUME NEW n \in Nat, n > 0, NEW a \in Int, NEW q \in Int, NEW r \in 0 .. n - 1,
         a = q * n + r
  PROVE  a % n = r
  OBVIOUS

LEMMA ModQuotient ==
  ASSUME NEW n \in Nat, n > 0, NEW a \in Int
  PROVE  \E q \in Int : a = q * n + (a % n)
  OBVIOUS

LEMMA ModRange ==
  ASSUME NEW n \in Nat, n > 0, NEW a \in Int
  PROVE  a % n \in 0 .. n - 1
  OBVIOUS

LEMMA WrapOnce ==
  ASSUME NEW n \in Nat, n > 0, NEW i \in 0 .. n - 1, NEW k \in 0 .. n
  PROVE  (i + k) % n = IF i + k < n THEN i + k ELSE i + k - n
  <1>1. CASE i + k < n
    <2>1. i + k \in 0 .. n - 1 /\ i + k = 0 * n + (i + k)
      BY <1>1
    <2>2. QED
      BY <1>1, <2>1, ModUnique
  <1>2. CASE ~(i + k < n)
    <2>1. i + k - n \in 0 .. n - 1 /\ i + k = 1 * n + (i + k - n)
      BY <1>2
    <2>2. QED
      BY <1>2, <2>1, ModUnique
  <1>3. QED
    BY <1>1, <1>2

(* i - j around a ring. *)
LEMMA Distance ==
  ASSUME NEW n \in Nat, n > 0, NEW i \in 0 .. n - 1, NEW j \in 0 .. n - 1
  PROVE  (i - j) % n = IF j <= i THEN i - j ELSE i - j + n
  <1>1. CASE j <= i
    <2>1. i - j \in 0 .. n - 1 /\ i - j = 0 * n + (i - j)
      BY <1>1
    <2>2. QED
      BY <1>1, <2>1, ModUnique
  <1>2. CASE ~(j <= i)
    <2>1. i - j + n \in 0 .. n - 1 /\ i - j = (-1) * n + (i - j + n)
      BY <1>2
    <2>2. QED
      BY <1>2, <2>1, ModUnique
  <1>3. QED
    BY <1>1, <1>2

(* A remainder can be taken before an addition. *)
LEMMA ModAdd ==
  ASSUME NEW n \in Nat, n > 0, NEW a \in Int, NEW k \in Int
  PROVE  ((a % n) + k) % n = (a + k) % n
  <1>1. PICK q \in Int : a = q * n + (a % n)
    BY ModQuotient
  <1>2. PICK u \in Int : (a % n) + k = u * n + (((a % n) + k) % n)
    <2>1. (a % n) + k \in Int
      BY ModRange
    <2>2. QED
      BY <2>1, ModQuotient
  <1> DEFINE r == a % n
             t == (r + k) % n
  <1>3. r \in Int /\ t \in 0 .. n - 1
    <2>1. r \in Int
      BY ModRange
    <2>2. r + k \in Int
      BY <2>1
    <2>3. QED
      BY <2>1, <2>2, ModRange
  <1>4. a = q * n + r /\ r + k = u * n + t
    BY <1>1, <1>2
  <1> HIDE DEF r, t
  <1>5. a + k = (q + u) * n + t
    BY <1>3, <1>4
  <1>6. q + u \in Int /\ a + k \in Int
    BY <1>5
  <1>7. (a + k) % n = t
    BY <1>3, <1>5, <1>6, ModUnique
  <1>8. QED
    BY <1>7 DEF t, r

(* An index that wraps at a multiple of n has the remainder it would have. *)
LEMMA ModOfMod ==
  ASSUME NEW n \in Nat, n > 0, NEW m \in Nat, m > 0, m % n = 0, NEW a \in Int
  PROVE  (a % m) % n = a % n
  <1>1. PICK u \in Int : m = u * n + (m % n)
    BY ModQuotient
  <1>2. PICK q \in Int : a = q * m + (a % m)
    BY ModQuotient
  <1> DEFINE b == a % m
             r == b % n
  <1>3. b \in Int /\ r \in 0 .. n - 1
    <2>1. b \in Int
      BY ModRange
    <2>2. QED
      BY <2>1, ModRange
  <1>4. PICK v \in Int : b = v * n + r
    BY <1>3, ModQuotient
  <1>5. a = q * m + b /\ m = u * n
    BY <1>1, <1>2
  <1> HIDE DEF b, r
  <1>6. a = (q * u + v) * n + r
    <2>1. a = q * (u * n) + (v * n + r)
      BY <1>4, <1>5
    <2>2. QED
      BY <1>3, <2>1
  <1>7. q * u + v \in Int
    OBVIOUS
  <1>8. a % n = r
    BY <1>3, <1>6, <1>7, ModUnique
  <1>9. QED
    BY <1>8 DEF r, b

-----------------------------------------------------------------------------
(* Slots of a ring: the first NUM from any index on are different. *)
LEMMA Size == NUM \in Nat /\ NUM >= 3 /\ NUM > 0 /\ IdxMod \in Nat /\ IdxMod >= NUM
              /\ IdxMod > 0 /\ IdxMod % NUM = 0 /\ NUM % NUM = 0
  <1>1. NUM \in Nat /\ NUM >= 3 /\ IdxMod \in Nat /\ IdxMod >= NUM /\ IdxMod % NUM = 0
    BY DiskAssumption
  <1>2. 0 \in 0 .. NUM - 1 /\ NUM = 1 * NUM + 0 /\ NUM > 0
    BY <1>1
  <1>3. NUM % NUM = 0
    BY <1>1, <1>2, ModUnique
  <1>4. QED
    BY <1>1, <1>3

LEMMA NumAdd == \A a \in Int, k \in Int : ((a % NUM) + k) % NUM = (a + k) % NUM
  <1> SUFFICES ASSUME NEW a \in Int, NEW k \in Int PROVE ((a % NUM) + k) % NUM = (a + k) % NUM
    OBVIOUS
  <1>1. NUM \in Nat /\ NUM > 0
    BY Size
  <1>2. QED
    BY <1>1, ModAdd, Zenon

LEMMA NumOfMod == \A m \in Nat, a \in Int : m > 0 /\ m % NUM = 0 => (a % m) % NUM = a % NUM
  <1> SUFFICES ASSUME NEW m \in Nat, NEW a \in Int, m > 0, m % NUM = 0
               PROVE  (a % m) % NUM = a % NUM
    OBVIOUS
  <1>1. NUM \in Nat /\ NUM > 0
    BY Size
  <1>2. QED
    BY <1>1, ModOfMod, Zenon

LEMMA SlotOf ==
  ASSUME NEW i \in Nat, NEW k \in 0 .. NUM
  PROVE  (i + k) % NUM = IF (i % NUM) + k < NUM THEN (i % NUM) + k ELSE (i % NUM) + k - NUM
  <1>1. i % NUM \in 0 .. NUM - 1
    BY Size, ModRange
  <1>2. ((i % NUM) + k) % NUM = (i + k) % NUM
    <2>1. i \in Int /\ k \in Int
      OBVIOUS
    <2>2. QED
      BY <2>1, NumAdd, Zenon
  <1>3. ((i % NUM) + k) % NUM
          = IF (i % NUM) + k < NUM THEN (i % NUM) + k ELSE (i % NUM) + k - NUM
    BY <1>1, Size, WrapOnce
  <1>4. QED
    BY <1>2, <1>3

LEMMA SlotsDiffer ==
  ASSUME NEW i \in Nat, NEW k \in 0 .. NUM - 1, NEW l \in 0 .. NUM - 1,
         (i + k) % NUM = (i + l) % NUM
  PROVE  k = l
  <1> DEFINE r == i % NUM
  <1>1. r \in 0 .. NUM - 1
    BY Size, ModRange
  <1>2. k \in 0 .. NUM /\ l \in 0 .. NUM /\ NUM \in Nat
    BY Size
  <1>3. /\ (i + k) % NUM = IF r + k < NUM THEN r + k ELSE r + k - NUM
        /\ (i + l) % NUM = IF r + l < NUM THEN r + l ELSE r + l - NUM
    BY <1>2, SlotOf
  <1> HIDE DEF r
  <1>4. QED
    BY <1>1, <1>2, <1>3

LEMMA SlotsInRing ==
  ASSUME NEW i \in Nat, NEW n \in Nat
  PROVE  Slots(i, n) \subseteq Indices
  <1>1. \A k \in 0 .. n - 1 : (i + k) % NUM \in Indices
    <2> SUFFICES ASSUME NEW k \in 0 .. n - 1 PROVE (i + k) % NUM \in Indices
      OBVIOUS
    <2>1. i + k \in Int
      OBVIOUS
    <2>2. QED
      BY <2>1, Size, ModRange DEF Indices
  <1>2. QED
    BY <1>1 DEF Slots

LEMMA LastSlot ==
  ASSUME NEW i \in Nat, NEW n \in 0 .. NUM - 1
  PROVE  /\ Slots(i, n + 1) = Slots(i, n) \cup {(i + n) % NUM}
         /\ (i + n) % NUM \notin Slots(i, n)
  <1>1. NUM \in Nat /\ 0 .. n + 1 - 1 = (0 .. n - 1) \cup {n}
    BY Size
  <1>2. Slots(i, n + 1) = Slots(i, n) \cup {(i + n) % NUM}
    <2> DEFINE f(k) == (i + k) % NUM
    <2>1. Slots(i, n + 1) = { f(k) : k \in 0 .. n + 1 - 1 } /\ Slots(i, n) = { f(k) : k \in 0 .. n - 1 }
      BY DEF Slots
    <2> HIDE DEF f
    <2>2. { f(k) : k \in (0 .. n - 1) \cup {n} } = { f(k) : k \in 0 .. n - 1 } \cup {f(n)}
      BY Zenon
    <2>3. Slots(i, n + 1) = Slots(i, n) \cup {f(n)}
      BY <1>1, <2>1, <2>2, Zenon
    <2>4. QED
      BY <2>3 DEF f
  <1>3. ASSUME NEW k \in 0 .. n - 1, (i + k) % NUM = (i + n) % NUM PROVE FALSE
    <2>1. k \in 0 .. NUM - 1
      BY <1>1
    <2>2. k = n
      BY <1>3, <2>1, SlotsDiffer
    <2>3. QED
      BY <2>2
  <1>4. QED
    BY <1>2, <1>3 DEF Slots

LEMMA FirstSlot ==
  ASSUME NEW i \in Nat, NEW n \in 1 .. NUM
  PROVE  /\ i % NUM \in Slots(i, n)
         /\ Slots(i + 1, n - 1) = Slots(i, n) \ {i % NUM}
  <1>1. NUM \in Nat /\ 0 \in 0 .. n - 1 /\ (i + 0) % NUM = i % NUM /\ i + 0 = i
    BY Size
  <1>2. i % NUM \in Slots(i, n)
    BY <1>1 DEF Slots
  <1>3. ASSUME NEW s \in Slots(i + 1, n - 1) PROVE s \in Slots(i, n) /\ s # i % NUM
    <2>1. PICK k \in 0 .. n - 1 - 1 : s = (i + 1 + k) % NUM
      BY DEF Slots
    <2>2. k + 1 \in 0 .. n - 1 /\ i + 1 + k = i + (k + 1) /\ k + 1 \in 0 .. NUM - 1 /\ 0 \in 0 .. NUM - 1
      BY <1>1, <2>1
    <2>3. s = (i + (k + 1)) % NUM
      BY <2>1, <2>2
    <2>4. s \in Slots(i, n)
      BY <2>2, <2>3 DEF Slots
    <2>5. s = (i + 0) % NUM => k + 1 = 0
      BY <2>2, <2>3, SlotsDiffer
    <2>6. QED
      BY <1>1, <2>4, <2>5
  <1>4. ASSUME NEW s \in Slots(i, n), s # i % NUM PROVE s \in Slots(i + 1, n - 1)
    <2>1. PICK k \in 0 .. n - 1 : s = (i + k) % NUM
      BY DEF Slots
    <2>2. k # 0
      BY <1>1, <1>4, <2>1
    <2>3. k - 1 \in 0 .. n - 1 - 1 /\ i + 1 + (k - 1) = i + k
      BY <1>1, <2>2
    <2>4. QED
      BY <2>1, <2>3 DEF Slots
  <1>5. QED
    BY <1>2, <1>3, <1>4

(* An index may wrap at any multiple of NUM. *)
LEMMA SlotsWrap ==
  ASSUME NEW m \in Nat, m > 0, m % NUM = 0, NEW i \in Nat, NEW n \in Nat
  PROVE  Slots(i % m, n) = Slots(i, n)
  <1>1. i \in Int /\ i % m \in Int
    BY ModRange
  <1> DEFINE r == i % m
  <1> HIDE DEF r
  <1>2. ASSUME NEW k \in 0 .. n - 1 PROVE (r + k) % NUM = (i + k) % NUM
    <2>1. k \in Int /\ r \in Int
      BY <1>1 DEF r
    <2>2. ((i % NUM) + k) % NUM = (i + k) % NUM
      BY <1>1, <2>1, NumAdd, Zenon
    <2>3. ((r % NUM) + k) % NUM = (r + k) % NUM
      BY <2>1, NumAdd, Zenon
    <2>4. r % NUM = i % NUM
      BY <1>1, NumOfMod, Zenon DEF r
    <2>5. QED
      BY <2>2, <2>3, <2>4, Zenon
  <1>3. Slots(r, n) = Slots(i, n)
    BY <1>2 DEF Slots
  <1>4. QED
    BY <1>3 DEF r

(* A ring from index i up to e, whose indices wrap at m: the slot behind   *)
(* its end, and the ring with one slot more at its end or one less at its  *)
(* beginning.                                                              *)
LEMMA RingEnd ==
  ASSUME NEW m \in Nat, m > 0, m % NUM = 0, NEW i \in 0 .. m - 1, NEW e \in 0 .. m - 1
  PROVE  (i + ((e - i) % m)) % NUM = e % NUM
  <1> DEFINE len == (e - i) % m
  <1>1. len = IF i <= e THEN e - i ELSE e - i + m
    BY Distance
  <1> HIDE DEF len
  <1>2. CASE i <= e
    <2>1. i + len = e
      BY <1>1, <1>2
    <2>2. QED
      BY <2>1 DEF len
  <1>3. CASE ~(i <= e)
    <2>1. i + len = e + m /\ e + m = 1 * m + e /\ e + m \in Int
      BY <1>1, <1>3
    <2>2. (e + m) % m = e
      BY <2>1, ModUnique
    <2>3. ((e + m) % m) % NUM = (e + m) % NUM
      BY <2>1, NumOfMod
    <2>4. QED
      BY <2>1, <2>2, <2>3 DEF len
  <1>4. QED
    BY <1>2, <1>3

LEMMA RingLonger ==
  ASSUME NEW m \in Nat, NEW i \in 0 .. m - 1, NEW e \in 0 .. m - 1,
         NEW len \in Nat, len = (e - i) % m, len + 1 < m
  PROVE  (((e + 1) % m) - i) % m = len + 1
  <1> DEFINE f == (e + 1) % m
  <1>1. m > 0
    OBVIOUS
  <1>2. len = IF i <= e THEN e - i ELSE e - i + m
    BY <1>1, Distance
  <1>3. f = IF e + 1 < m THEN e + 1 ELSE e + 1 - m
    <2>1. 1 \in 0 .. m
      BY <1>1
    <2>2. QED
      BY <1>1, <2>1, WrapOnce
  <1> HIDE DEF f
  <1>4. f \in 0 .. m - 1
    BY <1>1, <1>3
  <1>5. (f - i) % m = IF i <= f THEN f - i ELSE f - i + m
    BY <1>1, <1>4, Distance
  <1>6. (f - i) % m = len + 1
    BY <1>1, <1>2, <1>3, <1>4, <1>5
  <1>7. QED
    BY <1>6 DEF f

LEMMA RingShrinks ==
  ASSUME NEW m \in Nat, m >= NUM, m % NUM = 0, NEW i \in 0 .. m - 1, NEW e \in 0 .. m - 1,
         NEW len \in Nat, len = (e - i) % m, len < NUM, i # e
  PROVE  /\ (e - ((i + 1) % m)) % m = len - 1
         /\ i % NUM \in Slots(i, len)
         /\ Slots((i + 1) % m, len - 1) = Slots(i, len) \ {i % NUM}
  <1> DEFINE j == (i + 1) % m
  <1>1. NUM \in Nat /\ NUM > 0 /\ m > 0
    BY Size
  <1>2. len = IF i <= e THEN e - i ELSE e - i + m
    BY <1>1, Distance
  <1>3. j = IF i + 1 < m THEN i + 1 ELSE i + 1 - m
    <2>1. 1 \in 0 .. m
      BY <1>1
    <2>2. QED
      BY <1>1, <2>1, WrapOnce
  <1> HIDE DEF j
  <1>4. j \in 0 .. m - 1
    BY <1>1, <1>3
  <1>5. (e - j) % m = IF j <= e THEN e - j ELSE e - j + m
    BY <1>1, <1>4, Distance
  <1>6. (e - j) % m = len - 1
    BY <1>1, <1>2, <1>3, <1>4, <1>5
  <1>7. len \in 1 .. NUM /\ i \in Nat /\ len - 1 \in Nat /\ i + 1 \in Nat
    BY <1>1, <1>2
  <1>8. /\ i % NUM \in Slots(i, len)
        /\ Slots(i + 1, len - 1) = Slots(i, len) \ {i % NUM}
    BY <1>7, FirstSlot
  <1>9. Slots(j, len - 1) = Slots(i + 1, len - 1)
    BY <1>1, <1>7, SlotsWrap DEF j
  <1>10. QED
    BY <1>6, <1>8, <1>9 DEF j

-----------------------------------------------------------------------------
(* What each variable may hold, and who holds the lock when. *)
Pointers == [what : {"null", "hdr", "data", "status"}, of : Procs \cup {None} \cup Indices]
Descs    == [addr : Pointers, NEXT : BOOLEAN, next : Indices]
Infos    == [b : Procs \cup {None}, status : {0, 1}]
Calls    == [at : {"idle", "starved", "post", "asleep", "woken"}, idx : Seq(Indices)]
Devices  == [awake : BOOLEAN, last : 0 .. IdxMod - 1, taken : SUBSET (0 .. NUM),
             raising : BOOLEAN, isr : BOOLEAN, late : BOOLEAN]

Types ==
  /\ free \in [Indices -> BOOLEAN]
  /\ desc \in [Indices -> Descs]
  /\ info \in [Indices -> Infos]
  /\ avail \in [idx : 0 .. IdxMod - 1, ring : [Indices -> 0 .. NUM]]
  /\ used \in [id : 0 .. IdxMod - 1, elems : [Indices -> 0 .. NUM]]
  /\ used_idx \in Indices
  /\ b_disk \in [Procs -> BOOLEAN]
  /\ proc \in [Procs -> Calls]
  /\ lock \in Procs \cup {None, Handler}
  /\ intr \in {"off", "loop", "ack"}
  /\ device \in Devices

Locks ==
  /\ \A p \in Procs : proc[p].at = "post" => lock = p
  /\ intr # "off" => lock = Handler

LEMMA InitTypes == Init => Types /\ Locks
  <1> SUFFICES ASSUME Init PROVE Types /\ Locks
    OBVIOUS
  <1>1. 0 \in Indices /\ 0 \in 0 .. IdxMod - 1 /\ Gone \in 0 .. NUM
    BY Size DEF Indices, Gone
  <1>2. Desc(Null, FALSE, 0) \in Descs
    BY <1>1 DEF Desc, Null, Pointer, Descs, Pointers
  <1>3. desc \in [Indices -> Descs]
    BY <1>2 DEF Init
  <1>4. /\ free \in [Indices -> BOOLEAN] /\ info \in [Indices -> Infos]
        /\ b_disk \in [Procs -> BOOLEAN] /\ proc \in [Procs -> Calls]
        /\ lock \in Procs \cup {None, Handler} /\ intr \in {"off", "loop", "ack"}
    BY <1>1 DEF Init, Infos, Calls
  <1>5. /\ avail \in [idx : 0 .. IdxMod - 1, ring : [Indices -> 0 .. NUM]]
        /\ used \in [id : 0 .. IdxMod - 1, elems : [Indices -> 0 .. NUM]]
        /\ used_idx \in Indices
    BY <1>1 DEF Init
  <1>6. device \in Devices
    BY <1>1 DEF Init, Devices
  <1>7. Types
    BY <1>3, <1>4, <1>5, <1>6 DEF Types
  <1>8. QED
    BY <1>7 DEF Locks, Init

LEMMA DeviceAfterTaking ==
  ASSUME NEW d \in Devices, NEW last \in 0 .. IdxMod - 1, NEW e \in 0 .. NUM
  PROVE  [d EXCEPT !.last = last, !.taken = d.taken \cup {e}] \in Devices
  BY DEF Devices

LEMMA ClearedTyped ==
  ASSUME NEW D, desc \in [Indices -> Descs]
  PROVE  Cleared(D) \in [Indices -> Descs]
  <1>1. Null \in Pointers
    BY DEF Null, Pointer, Pointers
  <1> HIDE DEF Null, Pointers
  <1>2. \A i \in Indices : [desc[i] EXCEPT !.addr = Null] \in Descs
    BY <1>1 DEF Descs
  <1>3. QED
    BY <1>2 DEF Cleared

(* What alloc3_desc takes before a call fails it gives back: the free list *)
(* is as it was, and nothing is freed twice.                               *)
LEMMA GivenBackWhole ==
  ASSUME Types, NEW p \in Procs, LackDescriptors(p)
  PROVE  free' = free /\ machine' = machine /\ desc' = Cleared(Found)
  <1>1. free \in [Indices -> BOOLEAN] /\ \A i \in Found : i \in Indices /\ free[i] = TRUE
    BY DEF Types, Found
  <1>2. /\ machine' = IF \E i \in Found : Marked[i] THEN "fault" ELSE machine
        /\ free' = [i \in Indices |-> Marked[i] \/ i \in Found]
        /\ desc' = Cleared(Found)
    BY DEF LackDescriptors, GivenBack
  <1>3. \A i \in Indices : Marked[i] = (free[i] /\ i \notin Found)
    BY DEF Marked
  <1>4. \A i \in Indices : (Marked[i] \/ i \in Found) = free[i]
    BY <1>1, <1>3
  <1>5. free' = free
    BY <1>1, <1>2, <1>4, Zenon
  <1>6. machine' = machine
    BY <1>1, <1>2, <1>3
  <1>7. QED
    BY <1>2, <1>5, <1>6

LEMMA DescribeTypes ==
  ASSUME Types, Locks, NEW p \in Procs, Describe(p)
  PROVE  Types' /\ Locks'
  <1> DEFINE s == Ascending(Found)
             d1 == Desc(Pointer("hdr", p), TRUE, s[2])
             d2 == Desc(Pointer("data", p), TRUE, s[3])
             d3 == Desc(Pointer("status", s[1]), FALSE, 0)
  <1>1. s \in [1 .. 3 -> Indices]
    BY FoundAscending DEF Describe
  <1> HIDE DEF s
  <1>2. s[1] \in Indices /\ s[2] \in Indices /\ s[3] \in Indices /\ s \in Seq(Indices)
    <2>1. [1 .. 3 -> Indices] \in {[1 .. n -> Indices] : n \in Nat}
      OBVIOUS
    <2>2. s \in Seq(Indices)
      BY <1>1, <2>1, SeqDef, Zenon
    <2>3. QED
      BY <1>1, <2>2
  <1>3. 0 \in Indices /\ Indices \subseteq 0 .. NUM
    BY Size DEF Indices
  <1>4. d1 \in Descs /\ d2 \in Descs /\ d3 \in Descs
    BY <1>2, <1>3 DEF Desc, Pointer, Descs, Pointers
  <1>5. desc' = [desc EXCEPT ![s[1]] = d1, ![s[2]] = d2, ![s[3]] = d3]
    BY DEF Describe, s
  <1> HIDE DEF d1, d2, d3
  <1>6. desc' \in [Indices -> Descs]
    BY <1>4, <1>5 DEF Types
  <1>7. free' \in [Indices -> BOOLEAN] /\ b_disk' \in [Procs -> BOOLEAN]
    BY DEF Describe, Types, Marked
  <1>8. info' \in [Indices -> Infos]
    <2>1. info' = [info EXCEPT ![s[1]] = [b |-> p, status |-> 0]]
      BY DEF Describe, s
    <2>2. QED
      BY <2>1 DEF Types, Infos
  <1>9. avail' \in [idx : 0 .. IdxMod - 1, ring : [Indices -> 0 .. NUM]]
    <2>1. avail' = [avail EXCEPT !.ring[avail.idx % NUM] = s[1]]
      BY DEF Describe, s
    <2>2. s[1] \in 0 .. NUM
      BY <1>2, <1>3
    <2>3. QED
      BY <2>1, <2>2 DEF Types
  <1>10. proc' = [proc EXCEPT ![p] = [at |-> "post", idx |-> s]] /\ proc' \in [Procs -> Calls]
    <2>1. proc' = [proc EXCEPT ![p] = [at |-> "post", idx |-> s]]
      BY DEF Describe, s
    <2>2. [at |-> "post", idx |-> s] \in Calls
      BY <1>2 DEF Calls
    <2>3. QED
      BY <2>1, <2>2 DEF Types
  <1>11. Types'
    BY <1>6, <1>7, <1>8, <1>9, <1>10 DEF Types, Describe
  <1>12. Locks'
    <2>1. /\ lock = None /\ lock' = p /\ intr' = intr
      BY DEF Describe
    <2>2. intr = "off" /\ \A q \in Procs : proc[q].at # "post"
      BY <2>1, DiskAssumption DEF Locks
    <2>3. \A q \in Procs : q # p => proc'[q] = proc[q]
      BY <1>10 DEF Types
    <2>4. QED
      BY <2>1, <2>2, <2>3 DEF Locks
  <1>13. QED
    BY <1>11, <1>12

LEMMA ReturnTypes ==
  ASSUME Types, Locks, NEW p \in Procs, Return(p)
  PROVE  Types' /\ Locks'
  <1>1. free' \in [Indices -> BOOLEAN] /\ desc' \in [Indices -> Descs]
    BY ClearedTyped DEF Return, free_chain, Types
  <1>2. info' \in [Indices -> Infos]
    BY DEF Return, Types, Infos
  <1>3. proc' = [proc EXCEPT ![p] = [at |-> "idle", idx |-> <<>>]] /\ proc' \in [Procs -> Calls]
    BY DEF Return, Types, Calls
  <1>4. Types'
    BY <1>1, <1>2, <1>3 DEF Types, Return
  <1>5. Locks'
    BY <1>3 DEF Locks, Return, Types
  <1>6. QED
    BY <1>4, <1>5

LEMMA AnswerOneTypes ==
  ASSUME Types, Locks, AnswerOne
  PROVE  Types' /\ Locks'
  <1>1. used_idx' \in Indices /\ Gone \in 0 .. NUM
    <2>1. NUM \in Nat /\ NUM > 0 /\ used_idx + 1 \in Int
      BY Size DEF Types, Indices
    <2>2. (used_idx + 1) % NUM \in 0 .. NUM - 1
      BY <2>1, ModRange
    <2>3. QED
      BY <2>1, <2>2 DEF AnswerOne, NextUsed, Indices, Gone
  <1>2. proc' \in [Procs -> Calls] /\ \A q \in Procs : proc'[q].at = "post" => proc[q].at = "post"
    BY SMTT(30) DEF AnswerOne, wakeup, Types, Calls
  <1>3. b_disk' \in [Procs -> BOOLEAN]
    BY DEF AnswerOne, Types
  <1>4. used' \in [id : 0 .. IdxMod - 1, elems : [Indices -> 0 .. NUM]]
    BY <1>1 DEF AnswerOne, Types
  <1>5. device' \in Devices
    BY DEF AnswerOne, Types, Devices
  <1>6. Types'
    BY <1>1, <1>2, <1>3, <1>4, <1>5 DEF Types, AnswerOne
  <1>7. Locks'
    BY <1>2 DEF Locks, AnswerOne
  <1>8. QED
    BY <1>6, <1>7

LEMMA CompletesTypes ==
  ASSUME Types, Locks, NEW head \in Indices, DeviceCompletes(head)
  PROVE  Types' /\ Locks'
  <1> DEFINE of == desc[Last(Chain(head))].addr.of
  <1>1. PICK status \in {0, 1} :
          info' = IF of \in Indices THEN [info EXCEPT ![of].status = status] ELSE info
    BY Zenon DEF DeviceCompletes
  <1> HIDE DEF of
  <1>2. info' \in [Indices -> Infos]
    BY <1>1 DEF Types, Infos
  <1>3. used' \in [id : 0 .. IdxMod - 1, elems : [Indices -> 0 .. NUM]]
    <2>1. (used.id + 1) % IdxMod \in 0 .. IdxMod - 1
      BY Size, ModRange DEF Types
    <2>2. head \in 0 .. NUM
      BY Size DEF Indices
    <2>3. QED
      BY <2>1, <2>2 DEF DeviceCompletes, Types
  <1>4. device' \in Devices
    BY DEF DeviceCompletes, Types, Devices
  <1>5. Types'
    BY <1>2, <1>3, <1>4 DEF Types, DeviceCompletes
  <1>6. Locks'
    BY DEF Locks, DeviceCompletes
  <1>7. QED
    BY <1>5, <1>6

LEMMA TypesStep ==
  ASSUME Types, Locks, [Next]_vars
  PROVE  Types' /\ Locks'
  <1>1. CASE UNCHANGED vars
    BY <1>1 DEF vars, driver, Types, Locks
  <1>2. ASSUME NEW p \in Procs, LackDescriptors(p) PROVE Types' /\ Locks'
    <2>1. desc' \in [Indices -> Descs]
      BY <1>2, ClearedTyped, GivenBackWhole DEF Types
    <2>2. proc' = [proc EXCEPT ![p].at = "starved"] /\ proc' \in [Procs -> Calls]
      BY <1>2 DEF LackDescriptors, Goes, Types, Calls
    <2>3. Types'
      BY <1>2, <2>1, <2>2, GivenBackWhole DEF LackDescriptors, Types
    <2>4. Locks'
      BY <1>2, <2>2 DEF LackDescriptors, Locks, Types, Calls
    <2>5. QED
      BY <2>3, <2>4
  <1>3. ASSUME NEW p \in Procs, Post(p) PROVE Types' /\ Locks'
    <2>1. avail' \in [idx : 0 .. IdxMod - 1, ring : [Indices -> 0 .. NUM]]
      <3>1. (avail.idx + 1) % IdxMod \in 0 .. IdxMod - 1
        BY Size, ModRange DEF Types
      <3>2. QED
        BY <1>3, <3>1 DEF Post, Types
    <2>2. proc' = [proc EXCEPT ![p].at = "asleep"] /\ proc' \in [Procs -> Calls]
      BY <1>3 DEF Post, Goes, Types, Calls
    <2>3. device' \in Devices /\ lock' = None
      BY <1>3 DEF Post, Types, Devices
    <2>4. Types'
      BY <1>3, <2>1, <2>2, <2>3 DEF Post, Types
    <2>5. Locks'
      <3>1. lock = p /\ intr' = intr
        BY <1>3 DEF Post, At, Locks
      <3>2. intr = "off"
        BY <3>1, DiskAssumption DEF Locks
      <3>3. \A q \in Procs : q # p => proc'[q] = proc[q]
        BY <2>2 DEF Types
      <3>4. \A q \in Procs : proc'[q].at # "post"
        BY <2>2, <3>1, <3>3 DEF Locks, Types, Calls
      <3>5. QED
        BY <3>1, <3>2, <3>4 DEF Locks
    <2>6. QED
      BY <2>4, <2>5
  <1>4. ASSUME Interrupt PROVE Types' /\ Locks'
    BY <1>4, DiskAssumption DEF Interrupt, Types, Locks
  <1>5. ASSUME HandlerFails PROVE Types' /\ Locks'
    BY <1>5 DEF HandlerFails, driver, Types, Locks
  <1>6. ASSUME NoneLeft PROVE Types' /\ Locks'
    BY <1>6 DEF NoneLeft, Types, Locks
  <1>7. ASSUME Ack PROVE Types' /\ Locks'
    <2>1. device' \in Devices
      BY <1>7 DEF Ack, Types, Devices
    <2>2. \A q \in Procs : proc[q].at # "post"
      BY <1>7, DiskAssumption DEF Ack, Locks
    <2>3. QED
      BY <1>7, <2>1, <2>2 DEF Ack, Types, Locks
  <1>8. ASSUME DeviceTakes PROVE Types' /\ Locks'
    <2> DEFINE slot == device.last % NUM
    <2>1. slot \in Indices /\ Gone \in 0 .. NUM
      <3>1. NUM \in Nat /\ NUM > 0 /\ device.last \in Int
        BY Size DEF Types, Devices
      <3>2. QED
        BY <3>1, ModRange DEF Indices, Gone
    <2>2. (device.last + 1) % IdxMod \in 0 .. IdxMod - 1
      BY Size, ModRange DEF Types, Devices
    <2>3. device' = [device EXCEPT !.last = (@ + 1) % IdxMod, !.taken = @ \cup {avail.ring[slot]}]
          /\ avail' = [avail EXCEPT !.ring[slot] = Gone]
      BY <1>8 DEF DeviceTakes
    <2> HIDE DEF slot
    <2>4. device' \in Devices
      <3>1. avail.ring[slot] \in 0 .. NUM
        BY <2>1 DEF Types
      <3>2. device' = [device EXCEPT !.last = (device.last + 1) % IdxMod,
                                     !.taken = device.taken \cup {avail.ring[slot]}]
        BY <2>3, Zenon
      <3>3. device \in Devices
        BY DEF Types
      <3>4. QED
        BY <2>2, <3>1, <3>2, <3>3, DeviceAfterTaking, Zenon
    <2>5. avail' \in [idx : 0 .. IdxMod - 1, ring : [Indices -> 0 .. NUM]]
      BY <2>1, <2>3 DEF Types
    <2>6. QED
      BY <1>8, <2>4, <2>5 DEF DeviceTakes, driver, Types, Locks
  <1>9. ASSUME DeviceSleeps \/ DeviceInterrupts PROVE Types' /\ Locks'
    <2>1. device' \in Devices
      BY <1>9 DEF DeviceSleeps, DeviceInterrupts, Types, Devices
    <2>2. QED
      BY <1>9, <2>1 DEF DeviceSleeps, DeviceInterrupts, driver, Types, Locks
  <1>10. QED
    BY <1>1, <1>2, <1>3, <1>4, <1>5, <1>6, <1>7, <1>8, <1>9,
       DescribeTypes, ReturnTypes, AnswerOneTypes, CompletesTypes DEF Next

LEMMA TypesAlways == Spec => [](Types /\ Locks)
  <1>1. (Types /\ Locks) /\ [Next]_vars => (Types /\ Locks)'
    BY TypesStep
  <1>2. QED
    BY InitTypes, <1>1, PTL DEF Spec

-----------------------------------------------------------------------------
(* Who owns a descriptor, and what the owner wrote into it. *)
Owners ==
  /\ \A p \in InCall : proc[p].idx \in [1 .. 3 -> Indices]
  /\ \A p \in InCall : \A k \in 1 .. 3 : ~free[proc[p].idx[k]]
  /\ \A p, q \in InCall : \A k, l \in 1 .. 3 :
       proc[p].idx[k] = proc[q].idx[l] => p = q /\ k = l
  /\ \A i \in Indices : free[i] \/ \E p \in InCall : \E k \in 1 .. 3 : proc[p].idx[k] = i

Described(p) ==
  /\ desc[proc[p].idx[1]] = Desc(Pointer("hdr", p), TRUE, proc[p].idx[2])
  /\ desc[proc[p].idx[2]] = Desc(Pointer("data", p), TRUE, proc[p].idx[3])
  /\ desc[proc[p].idx[3]] = Desc(Pointer("status", proc[p].idx[1]), FALSE, 0)
  /\ info[proc[p].idx[1]].b = p

CallInv == Owners /\ \A p \in InCall : Described(p)

LEMMA InitCalls == Init => CallInv
  <1> SUFFICES ASSUME Init PROVE CallInv
    OBVIOUS
  <1>1. InCall = {}
    BY DEF Init, InCall
  <1>2. \A i \in Indices : free[i]
    BY DEF Init
  <1>3. QED
    BY <1>1, <1>2 DEF CallInv, Owners

(* The chain of a call is the three descriptors it took. *)
LEMMA ChainOfCall ==
  ASSUME CallInv, NEW p \in InCall
  PROVE  Chain(Head1(p)) = proc[p].idx
  <1> DEFINE a == proc[p].idx[1]
             b == proc[p].idx[2]
             c == proc[p].idx[3]
  <1>1. proc[p].idx \in [1 .. 3 -> Indices]
    BY DEF CallInv, Owners
  <1>2. a \in Indices /\ b \in Indices /\ c \in Indices
    BY <1>1
  <1>3. desc[a].NEXT /\ desc[a].next = b /\ desc[b].NEXT /\ desc[b].next = c /\ ~desc[c].NEXT
    <2>1. /\ desc[a] = Desc(Pointer("hdr", p), TRUE, b)
          /\ desc[b] = Desc(Pointer("data", p), TRUE, c)
          /\ desc[c] = Desc(Pointer("status", a), FALSE, 0)
      BY DEF CallInv, Described
    <2> HIDE DEF a, b, c
    <2>2. QED
      BY <2>1 DEF Desc
  <1> HIDE DEF a, b, c
  <1>4. Chain(a) = <<a, b, c>>
    BY <1>2, <1>3, ThreeLinks
  <1>5. proc[p].idx = <<a, b, c>>
    BY <1>1 DEF a, b, c
  <1>6. Head1(p) = a
    BY DEF Head1, a
  <1>7. QED
    BY <1>4, <1>5, <1>6

(* Whoever owns, links or records nothing new leaves all calls as they are. *)
LEMMA CallsKept ==
  ASSUME CallInv, InCall' = InCall, \A p \in InCall : proc'[p].idx = proc[p].idx,
         free' = free, desc' = desc, \A i \in Indices : info'[i].b = info[i].b
  PROVE  CallInv'
  <1>1. Owners'
    BY DEF CallInv, Owners
  <1>2. ASSUME NEW p \in InCall PROVE Described(p)'
    <2>1. Described(p) /\ proc[p].idx \in [1 .. 3 -> Indices]
      BY DEF CallInv, Owners
    <2>2. proc[p].idx[1] \in Indices
      BY <2>1
    <2>3. QED
      BY <2>1, <2>2 DEF Described
  <1>3. QED
    BY <1>1, <1>2 DEF CallInv

LEMMA DescribeCalls ==
  ASSUME Types, CallInv, NEW p \in Procs, Describe(p)
  PROVE  CallInv'
  <1> DEFINE s == Ascending(Found)
  <1>1. /\ s \in [1 .. 3 -> Indices] /\ s[1] < s[2] /\ s[2] < s[3]
        /\ Found = {s[1], s[2], s[3]} /\ \A i \in Found : free[i]
    BY FoundAscending DEF Describe
  <1>2. /\ free' = [i \in Indices |-> free[i] /\ i \notin Found]
        /\ desc' = [desc EXCEPT ![s[1]] = Desc(Pointer("hdr", p), TRUE, s[2]),
                                ![s[2]] = Desc(Pointer("data", p), TRUE, s[3]),
                                ![s[3]] = Desc(Pointer("status", s[1]), FALSE, 0)]
        /\ info' = [info EXCEPT ![s[1]] = [b |-> p, status |-> 0]]
        /\ proc' = [proc EXCEPT ![p] = [at |-> "post", idx |-> s]]
        /\ proc[p].at = "idle"
    BY DEF Describe, At, Marked
  <1> HIDE DEF s
  <1>3. /\ s[1] \in Indices /\ s[2] \in Indices /\ s[3] \in Indices
        /\ s[1] # s[2] /\ s[2] # s[3] /\ s[1] # s[3]
    BY <1>1, Size DEF Indices
  <1>4. p \notin InCall /\ InCall' = InCall \cup {p} /\ proc'[p].idx = s
        /\ \A q \in InCall : q # p /\ proc'[q].idx = proc[q].idx
    BY <1>2 DEF InCall, Types
  <1>5. \A q \in InCall : \A k \in 1 .. 3 :
          proc[q].idx[k] \in Indices /\ proc[q].idx[k] \notin Found
    BY <1>1 DEF CallInv, Owners
  <1>6. \A k, l \in 1 .. 3 : s[k] \in Found /\ (s[k] = s[l] => k = l)
    <2>1. 1 .. 3 = {1, 2, 3}
      OBVIOUS
    <2>2. QED
      BY <1>1, <1>3, <2>1
  <1>7. Owners'
    <2>1. \A q \in InCall' : proc'[q].idx \in [1 .. 3 -> Indices]
      BY <1>1, <1>4 DEF CallInv, Owners
    <2>2. \A q \in InCall' : \A k \in 1 .. 3 : ~free'[proc'[q].idx[k]]
      <3>1. \A k \in 1 .. 3 : ~free'[s[k]]
        BY <1>1, <1>2, <1>6
      <3>2. \A q \in InCall : \A k \in 1 .. 3 : ~free'[proc[q].idx[k]]
        BY <1>2, <1>5 DEF CallInv, Owners
      <3>3. QED
        BY <1>4, <3>1, <3>2
    <2>3. \A q, r \in InCall' : \A k, l \in 1 .. 3 :
            proc'[q].idx[k] = proc'[r].idx[l] => q = r /\ k = l
      <3>1. \A q, r \in InCall : \A k, l \in 1 .. 3 :
              proc[q].idx[k] = proc[r].idx[l] => q = r /\ k = l
        BY DEF CallInv, Owners
      <3>2. QED
        BY <1>4, <1>5, <1>6, <3>1
    <2>4. \A i \in Indices : free'[i] \/ \E q \in InCall' : \E k \in 1 .. 3 : proc'[q].idx[k] = i
      <3> SUFFICES ASSUME NEW i \in Indices, ~free'[i]
                   PROVE  \E q \in InCall' : \E k \in 1 .. 3 : proc'[q].idx[k] = i
        OBVIOUS
      <3>1. CASE i \in Found
        BY <1>1, <1>4, <3>1
      <3>2. CASE i \notin Found
        <4>1. ~free[i]
          BY <1>2, <3>2 DEF Types
        <4>2. PICK q \in InCall, k \in 1 .. 3 : proc[q].idx[k] = i
          BY <4>1 DEF CallInv, Owners
        <4>3. QED
          BY <1>4, <4>2
      <3>3. QED
        BY <3>1, <3>2
    <2>5. QED
      BY <2>1, <2>2, <2>3, <2>4 DEF Owners
  <1>8. Described(p)'
    <2> DEFINE d1 == Desc(Pointer("hdr", p), TRUE, s[2])
               d2 == Desc(Pointer("data", p), TRUE, s[3])
               d3 == Desc(Pointer("status", s[1]), FALSE, 0)
    <2>1. desc' = [desc EXCEPT ![s[1]] = d1, ![s[2]] = d2, ![s[3]] = d3]
      BY <1>2
    <2> HIDE DEF d1, d2, d3
    <2>2. desc'[s[1]] = d1 /\ desc'[s[2]] = d2 /\ desc'[s[3]] = d3
      BY <1>3, <2>1 DEF Types
    <2>3. info'[s[1]].b = p
      BY <1>2, <1>3 DEF Types
    <2>4. QED
      BY <1>4, <2>2, <2>3 DEF Described, d1, d2, d3
  <1>9. ASSUME NEW q \in InCall PROVE Described(q)'
    <2>1. Described(q)
      BY DEF CallInv
    <2>2. \A k \in 1 .. 3 : desc'[proc[q].idx[k]] = desc[proc[q].idx[k]]
      <3> SUFFICES ASSUME NEW k \in 1 .. 3 PROVE desc'[proc[q].idx[k]] = desc[proc[q].idx[k]]
        OBVIOUS
      <3> DEFINE x == proc[q].idx[k]
      <3>1. x \in Indices /\ x # s[1] /\ x # s[2] /\ x # s[3]
        BY <1>1, <1>5
      <3> HIDE DEF x
      <3>2. desc'[x] = desc[x]
        BY <1>2, <3>1 DEF Types
      <3>3. QED
        BY <3>2 DEF x
    <2>3. info'[proc[q].idx[1]] = info[proc[q].idx[1]]
      <3>1. proc[q].idx[1] \in Indices /\ proc[q].idx[1] # s[1]
        BY <1>1, <1>5
      <3>2. QED
        BY <1>2, <3>1 DEF Types
    <2>4. /\ proc'[q].idx = proc[q].idx /\ info'[proc[q].idx[1]] = info[proc[q].idx[1]]
          /\ desc'[proc[q].idx[1]] = desc[proc[q].idx[1]]
          /\ desc'[proc[q].idx[2]] = desc[proc[q].idx[2]]
          /\ desc'[proc[q].idx[3]] = desc[proc[q].idx[3]]
      BY <1>4, <2>2, <2>3
    <2>5. QED
      BY <2>1, <2>4, Zenon DEF Described
  <1>10. QED
    BY <1>4, <1>7, <1>8, <1>9 DEF CallInv

LEMMA ReturnCalls ==
  ASSUME Types, CallInv, NEW p \in Procs, Return(p)
  PROVE  /\ CallInv'
         /\ machine' = machine
         /\ InCall' = InCall \ {p}
         /\ \A q \in Procs : q # p => proc'[q] = proc[q]
  <1> DEFINE s == proc[p].idx
  <1>1. p \in InCall
    BY DEF Return, MayReturn, At, InCall
  <1>2. Chain(Head1(p)) = s /\ s \in [1 .. 3 -> Indices]
    BY <1>1, ChainOfCall DEF CallInv, Owners
  <1>3. /\ \A k \in 1 .. 3 : ~free[s[k]]
        /\ \A k, l \in 1 .. 3 : s[k] = s[l] => k = l
    BY <1>1 DEF CallInv, Owners
  <1> DEFINE M == {s[k] : k \in 1 .. 3}
  <1>4. ToSet(s) = M /\ IsInjective(s)
    BY <1>2, <1>3 DEF ToSet, IsInjective
  <1>5. \A j \in M : ~free[j]
    BY <1>3
  <1>6. /\ machine' = machine
        /\ free' = [j \in Indices |-> free[j] \/ j \in M]
        /\ desc' = Cleared(M)
    BY <1>2, <1>4, <1>5 DEF Return, free_chain
  <1>7. /\ info' = [info EXCEPT ![Head1(p)].b = None]
        /\ proc' = [proc EXCEPT ![p] = [at |-> "idle", idx |-> <<>>]]
    BY DEF Return
  <1>8. \A q \in Procs : q # p => proc'[q] = proc[q]
    BY <1>7 DEF Types
  <1>9. InCall' = InCall \ {p}
    BY <1>7, <1>8 DEF InCall, Types
  <1>10. \A q \in InCall' : q \in InCall /\ q # p /\ proc'[q].idx = proc[q].idx
    BY <1>8, <1>9 DEF InCall
  <1>11. \A q \in InCall' : \A k \in 1 .. 3 : proc[q].idx[k] \in Indices /\ proc[q].idx[k] \notin M
    BY <1>1, <1>10 DEF CallInv, Owners
  <1>12. Owners'
    <2>1. \A q \in InCall' : proc'[q].idx \in [1 .. 3 -> Indices]
      BY <1>10 DEF CallInv, Owners
    <2>2. \A q \in InCall' : \A k \in 1 .. 3 : ~free'[proc'[q].idx[k]]
      BY <1>6, <1>10, <1>11 DEF CallInv, Owners
    <2>3. \A q, r \in InCall' : \A k, l \in 1 .. 3 :
            proc'[q].idx[k] = proc'[r].idx[l] => q = r /\ k = l
      BY <1>10 DEF CallInv, Owners
    <2>4. ASSUME NEW i \in Indices, ~free'[i]
          PROVE  \E q \in InCall' : \E k \in 1 .. 3 : proc'[q].idx[k] = i
      <3>1. ~free[i] /\ i \notin M
        BY <1>6, <2>4
      <3>2. PICK q \in InCall, k \in 1 .. 3 : proc[q].idx[k] = i
        BY <3>1 DEF CallInv, Owners
      <3>3. q # p
        BY <3>1, <3>2
      <3>4. q \in InCall' /\ proc'[q].idx = proc[q].idx
        BY <1>9, <1>10, <3>3
      <3>5. QED
        BY <3>2, <3>4
    <2>5. QED
      BY <2>1, <2>2, <2>3, <2>4 DEF Owners
  <1>13. ASSUME NEW q \in InCall' PROVE Described(q)'
    <2>1. q \in InCall /\ proc'[q].idx = proc[q].idx /\ Described(q)
      BY <1>10 DEF CallInv
    <2>2. \A k \in 1 .. 3 : desc'[proc[q].idx[k]] = desc[proc[q].idx[k]]
      BY <1>6, <1>11 DEF Cleared
    <2>3. info'[proc[q].idx[1]] = info[proc[q].idx[1]]
      <3>1. proc[q].idx[1] \in Indices /\ proc[q].idx[1] # Head1(p)
        BY <1>11 DEF Head1
      <3>2. QED
        BY <1>7, <3>1 DEF Types
    <2>4. /\ desc'[proc[q].idx[1]] = desc[proc[q].idx[1]]
          /\ desc'[proc[q].idx[2]] = desc[proc[q].idx[2]]
          /\ desc'[proc[q].idx[3]] = desc[proc[q].idx[3]]
      BY <2>2
    <2>5. QED
      BY <2>1, <2>3, <2>4, Zenon DEF Described
  <1>14. QED
    BY <1>6, <1>8, <1>9, <1>12, <1>13 DEF CallInv

LEMMA LackCalls ==
  ASSUME Types, CallInv, NEW p \in Procs, LackDescriptors(p)
  PROVE  CallInv' /\ InCall' = InCall /\ \A q \in InCall : proc'[q] = proc[q]
  <1>1. /\ desc' = Cleared(Found) /\ free' = free /\ info' = info
        /\ proc' = [proc EXCEPT ![p].at = "starved"] /\ proc[p].at = "idle"
    BY GivenBackWhole DEF LackDescriptors, Goes, At
  <1>2. InCall' = InCall /\ \A q \in InCall : proc'[q] = proc[q]
    BY <1>1 DEF InCall, Types, Calls
  <1>3. Owners'
    BY <1>1, <1>2 DEF CallInv, Owners
  <1>4. ASSUME NEW q \in InCall PROVE Described(q)'
    <2>1. Described(q) /\ proc[q].idx \in [1 .. 3 -> Indices] /\ \A k \in 1 .. 3 : ~free[proc[q].idx[k]]
      BY DEF CallInv, Owners
    <2>2. \A i \in Indices : ~free[i] => desc'[i] = desc[i]
      BY <1>1 DEF Cleared, Found
    <2>3. /\ desc'[proc[q].idx[1]] = desc[proc[q].idx[1]]
          /\ desc'[proc[q].idx[2]] = desc[proc[q].idx[2]]
          /\ desc'[proc[q].idx[3]] = desc[proc[q].idx[3]]
      BY <2>1, <2>2
    <2>4. proc'[q] = proc[q]
      BY <1>2
    <2>5. QED
      BY <1>1, <2>1, <2>3, <2>4, Zenon DEF Described
  <1>5. QED
    BY <1>2, <1>3, <1>4 DEF CallInv

LEMMA CallsStep ==
  ASSUME Types, CallInv, [Next]_vars
  PROVE  CallInv'
  <1>1. CASE UNCHANGED vars
    BY <1>1, CallsKept DEF vars, driver, InCall
  <1>2. ASSUME NEW p \in Procs, Post(p) PROVE CallInv'
    <2>1. InCall' = InCall /\ \A q \in InCall : proc'[q].idx = proc[q].idx
      BY <1>2 DEF Post, At, Goes, InCall, Types, Calls
    <2>2. QED
      BY <1>2, <2>1, CallsKept DEF Post
  <1>3. ASSUME AnswerOne PROVE CallInv'
    <2>1. InCall' = InCall /\ \A q \in InCall : proc'[q].idx = proc[q].idx
      BY <1>3 DEF AnswerOne, wakeup, InCall, Types, Calls
    <2>2. QED
      BY <1>3, <2>1, CallsKept DEF AnswerOne
  <1>4. ASSUME NEW head \in Indices, DeviceCompletes(head) PROVE CallInv'
    <2>1. InCall' = InCall /\ \A q \in InCall : proc'[q].idx = proc[q].idx
      BY <1>4 DEF DeviceCompletes, InCall
    <2>2. \A i \in Indices : info'[i].b = info[i].b
      <3> DEFINE of == desc[Last(Chain(head))].addr.of
      <3>1. PICK status \in {0, 1} :
              info' = IF of \in Indices THEN [info EXCEPT ![of].status = status] ELSE info
        BY <1>4, Zenon DEF DeviceCompletes
      <3> HIDE DEF of
      <3>2. QED
        BY <3>1 DEF Types, Infos
    <2>3. QED
      BY <1>4, <2>1, <2>2, CallsKept DEF DeviceCompletes
  <1>5. ASSUME Interrupt \/ HandlerFails \/ NoneLeft \/ Ack \/ DeviceTakes
               \/ DeviceSleeps \/ DeviceInterrupts
        PROVE  CallInv'
    <2>1. free' = free /\ desc' = desc /\ info' = info /\ proc' = proc
      BY <1>5 DEF Interrupt, HandlerFails, NoneLeft, Ack, DeviceTakes, DeviceSleeps,
                  DeviceInterrupts, driver
    <2>2. QED
      BY <2>1, CallsKept DEF InCall
  <1>6. QED
    BY <1>1, <1>2, <1>3, <1>4, <1>5, DescribeCalls, ReturnCalls, LackCalls DEF Next

-----------------------------------------------------------------------------
(* Heads on their way: in the avail ring, at the device, in the used ring. *)
QLen == (avail.idx - device.last) % IdxMod
SLen == (used.id - used_idx) % NUM

InAvail == { avail.ring[s] : s \in Queued }
InUsed  == { used.elems[s] : s \in Served }
Waiting == { p \in Posted : b_disk[p] }
Heads   == { Head1(p) : p \in Waiting }

DifferOn(f, S) == \A s, t \in S : f[s] = f[t] => s = t

RingInv ==
  /\ QLen < NUM
  /\ DifferOn(avail.ring, Queued) /\ DifferOn(used.elems, Served)
  /\ InAvail \cap device.taken = {}
  /\ InAvail \cap InUsed = {}
  /\ device.taken \cap InUsed = {}
  /\ InAvail \cup device.taken \cup InUsed = Heads
  /\ \A p \in Procs : proc[p].at = "post" =>
       b_disk[p] /\ avail.ring[avail.idx % NUM] = Head1(p)

DriverInv == Types /\ Locks /\ CallInv /\ RingInv /\ machine # "fault"

LEMMA NoSlots == \A i \in Nat : Slots(i, 0) = {}
  BY DEF Slots

LEMMA InitRings == Init => RingInv /\ machine # "fault"
  <1> SUFFICES ASSUME Init PROVE RingInv /\ machine # "fault"
    OBVIOUS
  <1>1. 0 % IdxMod = 0 /\ 0 % NUM = 0
    <2>1. /\ IdxMod \in Nat /\ IdxMod > 0 /\ NUM \in Nat /\ NUM > 0
          /\ 0 \in 0 .. IdxMod - 1 /\ 0 \in 0 .. NUM - 1
          /\ 0 = 0 * IdxMod + 0 /\ 0 = 0 * NUM + 0
      BY Size
    <2>2. QED
      BY <2>1, ModUnique
  <1>2. QLen = 0 /\ SLen = 0 /\ device.last = 0 /\ used_idx = 0 /\ device.taken = {}
    BY <1>1 DEF Init, QLen, SLen
  <1>3. Queued = {} /\ Served = {}
    <2>1. Queued = Slots(device.last, QLen) /\ Served = Slots(used_idx, SLen)
      BY DEF Queued, Served, QLen, SLen
    <2>2. 0 \in Nat
      OBVIOUS
    <2>3. QED
      BY <1>2, <2>1, <2>2, NoSlots
  <1>4. InAvail = {} /\ InUsed = {}
    BY <1>3 DEF InAvail, InUsed
  <1>5. Heads = {} /\ \A p \in Procs : proc[p].at # "post"
    BY DEF Init, Heads, Waiting, Posted, InCall
  <1>6. QED
    BY <1>2, <1>3, <1>4, <1>5, Size DEF RingInv, DifferOn, Init

(* One entry more, or one less, of a ring whose entries differ. *)
LEMMA Enters ==
  ASSUME NEW f, NEW g, NEW S, NEW x, NEW h, x \notin S, g[x] = h,
         \A s \in S : g[s] = f[s], DifferOn(f, S), h \notin {f[s] : s \in S}
  PROVE  /\ {g[s] : s \in S \cup {x}} = {f[s] : s \in S} \cup {h}
         /\ DifferOn(g, S \cup {x})
  <1>1. {g[s] : s \in S \cup {x}} = {f[s] : s \in S} \cup {h}
    OBVIOUS
  <1>2. ASSUME NEW s \in S \cup {x}, NEW t \in S \cup {x}, g[s] = g[t] PROVE s = t
    BY <1>2 DEF DifferOn
  <1>3. QED
    BY <1>1, <1>2 DEF DifferOn

LEMMA Leaves ==
  ASSUME NEW f, NEW g, NEW S, NEW x \in S,
         \A s \in S \ {x} : g[s] = f[s], DifferOn(f, S)
  PROVE  /\ {g[s] : s \in S \ {x}} = {f[s] : s \in S} \ {f[x]}
         /\ f[x] \in {f[s] : s \in S}
         /\ DifferOn(g, S \ {x})
  <1>1. {g[s] : s \in S \ {x}} = {f[s] : s \in S} \ {f[x]}
    BY DEF DifferOn
  <1>2. QED
    BY <1>1 DEF DifferOn

(* The rings as intervals of slots. *)
LEMMA RingTypes ==
  ASSUME Types
  PROVE  /\ avail.idx \in 0 .. IdxMod - 1 /\ device.last \in 0 .. IdxMod - 1
         /\ avail.idx % NUM \in Indices /\ device.last % NUM \in Indices
         /\ QLen \in Nat /\ Queued = Slots(device.last, QLen) /\ Queued \subseteq Indices
         /\ used.id \in 0 .. IdxMod - 1 /\ used_idx \in 0 .. NUM - 1 /\ used.id % NUM \in 0 .. NUM - 1
         /\ SLen \in 0 .. NUM - 1 /\ Served = Slots(used_idx, SLen) /\ Served \subseteq Indices
         /\ SLen = ((used.id % NUM) - used_idx) % NUM
  <1>1. /\ avail.idx \in 0 .. IdxMod - 1 /\ device.last \in 0 .. IdxMod - 1
        /\ used.id \in 0 .. IdxMod - 1 /\ used_idx \in 0 .. NUM - 1
    BY DEF Types, Devices, Indices
  <1>2. NUM \in Nat /\ NUM > 0 /\ IdxMod \in Nat /\ IdxMod > 0
    BY Size
  <1>3. /\ avail.idx % NUM \in 0 .. NUM - 1 /\ device.last % NUM \in 0 .. NUM - 1
        /\ used.id % NUM \in 0 .. NUM - 1
    BY <1>1, <1>2, ModRange
  <1>4. QLen \in 0 .. IdxMod - 1
    <2>1. avail.idx - device.last \in Int
      BY <1>1
    <2>2. QED
      BY <1>2, <2>1, ModRange DEF QLen
  <1>5. SLen \in 0 .. NUM - 1
    <2>1. used.id - used_idx \in Int
      BY <1>1
    <2>2. QED
      BY <1>2, <2>1, ModRange DEF SLen
  <1>6. SLen = ((used.id % NUM) - used_idx) % NUM
    <2> DEFINE k == -used_idx
    <2>1. used.id \in Int /\ k \in Int
      BY <1>1
    <2>2. ((used.id % NUM) + k) % NUM = (used.id + k) % NUM
      BY <2>1, NumAdd
    <2>3. (used.id % NUM) + k = (used.id % NUM) - used_idx /\ used.id + k = used.id - used_idx
      BY <1>1, <1>3
    <2>4. QED
      BY <2>2, <2>3 DEF SLen
  <1>7. Queued = Slots(device.last, QLen) /\ Served = Slots(used_idx, SLen)
    BY DEF Queued, Served, QLen, SLen
  <1>8. Queued \subseteq Indices /\ Served \subseteq Indices
    BY <1>1, <1>4, <1>5, <1>7, SlotsInRing
  <1>9. QED
    BY <1>1, <1>3, <1>4, <1>5, <1>6, <1>7, <1>8 DEF Indices

LEMMA HeadsDiffer ==
  ASSUME CallInv
  PROVE  /\ \A p \in InCall : Head1(p) \in Indices /\ proc[p].idx[2] \in Indices
         /\ \A p, q \in InCall : Head1(p) = Head1(q) => p = q
         /\ \A p, q \in InCall : Head1(p) # proc[q].idx[2]
         /\ Heads \subseteq Indices
         /\ Waiting \subseteq InCall
  <1>1. \A p \in InCall : Head1(p) \in Indices /\ proc[p].idx[2] \in Indices
    BY DEF CallInv, Owners, Head1
  <1>2. \A p, q \in InCall : Head1(p) = Head1(q) => p = q
    BY DEF CallInv, Owners, Head1
  <1>3. ASSUME NEW p \in InCall, NEW q \in InCall PROVE Head1(p) # proc[q].idx[2]
    <2>1. 1 \in 1 .. 3 /\ 2 \in 1 .. 3 /\ 1 # 2
      OBVIOUS
    <2>2. QED
      BY <2>1 DEF CallInv, Owners, Head1
  <1>4. Waiting \subseteq InCall
    BY DEF Waiting, Posted
  <1>5. QED
    BY <1>1, <1>2, <1>3, <1>4 DEF Heads

(* A ring with different heads of calls is never full: no ring holds the   *)
(* second descriptor of a call, nor a head that is about to enter it.      *)
LEMMA RoomInRing ==
  ASSUME NEW i \in Nat, NEW n \in 0 .. NUM - 1, NEW f, DifferOn(f, Slots(i, n)),
         NEW a \in Indices, NEW b \in Indices, a # b,
         \A s \in Slots(i, n) : f[s] \in (Indices \ {a}) \ {b}
  PROVE  n + 1 < NUM
  <1> DEFINE K == 0 .. n - 1
             T == (Indices \ {a}) \ {b}
             g == [k \in K |-> f[(i + k) % NUM]]
  <1>1. NUM \in Nat /\ NUM >= 3 /\ n \in Nat
    BY Size
  <1>2. IsFiniteSet(Indices) /\ Cardinality(Indices) = NUM
    BY <1>1, FS_Interval DEF Indices
  <1>3. IsFiniteSet(T) /\ Cardinality(T) = NUM - 2
    <2> DEFINE U == Indices \ {a}
    <2>1. /\ IsFiniteSet(U)
          /\ Cardinality(U) = IF a \in Indices THEN Cardinality(Indices) - 1 ELSE Cardinality(Indices)
      BY <1>2, FS_RemoveElement, Zenon
    <2>2. Cardinality(U) = NUM - 1 /\ b \in U
      BY <1>2, <2>1
    <2> HIDE DEF U
    <2>3. /\ IsFiniteSet(U \ {b})
          /\ Cardinality(U \ {b}) = IF b \in U THEN Cardinality(U) - 1 ELSE Cardinality(U)
      BY <2>1, FS_RemoveElement, Zenon
    <2>4. Cardinality(U \ {b}) = NUM - 2
      BY <1>1, <2>2, <2>3
    <2>5. QED
      BY <2>3, <2>4 DEF U
  <1>4. IsFiniteSet(K) /\ Cardinality(K) = n
    <2>1. 0 \in Int /\ n - 1 \in Int
      BY <1>1
    <2>2. IsFiniteSet(K) /\ Cardinality(K) = IF 0 > n - 1 THEN 0 ELSE n - 1 - 0 + 1
      BY <2>1, FS_Interval, Zenon
    <2>3. QED
      BY <1>1, <2>2
  <1>5. \A k \in K : (i + k) % NUM \in Slots(i, n)
    BY DEF Slots
  <1>6. g \in [K -> T]
    BY <1>5
  <1>7. ASSUME NEW x \in K, NEW y \in K, g[x] = g[y] PROVE x = y
    <2>1. (i + x) % NUM = (i + y) % NUM
      BY <1>5, <1>7 DEF DifferOn
    <2>2. x \in 0 .. NUM - 1 /\ y \in 0 .. NUM - 1
      BY <1>1
    <2>3. QED
      BY <2>1, <2>2, SlotsDiffer
  <1> HIDE DEF K, T, g
  <1>8. ~(NUM - 2 < n)
    <2> SUFFICES ASSUME NUM - 2 < n PROVE FALSE
      OBVIOUS
    <2>1. Cardinality(T) < Cardinality(K)
      BY <1>3, <1>4
    <2>2. \E x, y \in K : x # y /\ g[x] = g[y]
      BY <1>3, <1>4, <1>6, <2>1, FS_PigeonHole
    <2>3. QED
      BY <1>7, <2>2
  <1>9. QED
    BY <1>1, <1>8

(* The slot of the avail ring that the next head goes to. *)
LEMMA BehindQueue ==
  ASSUME Types, QLen < NUM
  PROVE  avail.idx % NUM \notin Queued
  <1>1. /\ QLen \in 0 .. NUM - 1 /\ device.last \in Nat
        /\ avail.idx \in 0 .. IdxMod - 1 /\ device.last \in 0 .. IdxMod - 1
    BY RingTypes, Size
  <1>2. (device.last + QLen) % NUM = avail.idx % NUM
    BY <1>1, Size, RingEnd DEF QLen
  <1>3. (device.last + QLen) % NUM \notin Slots(device.last, QLen)
    BY <1>1, LastSlot
  <1>4. QED
    BY <1>2, <1>3, RingTypes

LEMMA ServedLength == Types => SLen = ((used.id % NUM) - used_idx) % NUM
  BY RingTypes

LEMMA QueueGrows ==
  ASSUME Types, Types', QLen + 1 < NUM,
         avail'.idx = (avail.idx + 1) % IdxMod, device'.last = device.last
  PROVE  /\ QLen' < NUM
         /\ Queued' = Queued \cup {avail.idx % NUM}
         /\ avail.idx % NUM \notin Queued
  <1> DEFINE i == device.last
             e == avail.idx
             n == QLen
  <1>1. /\ i \in 0 .. IdxMod - 1 /\ e \in 0 .. IdxMod - 1 /\ n = (e - i) % IdxMod
        /\ Queued = Slots(i, n) /\ n \in Nat
    BY RingTypes DEF QLen
  <1>2. QLen' = (((e + 1) % IdxMod) - i) % IdxMod /\ Queued' = Slots(i, QLen')
    BY DEF QLen, Queued
  <1>3. n + 1 < NUM
    OBVIOUS
  <1> HIDE DEF i, e, n
  <1>0. /\ IdxMod \in Nat /\ IdxMod >= NUM /\ IdxMod % NUM = 0
        /\ NUM \in Nat /\ NUM >= NUM /\ NUM % NUM = 0
    BY Size
  <1>4. /\ (((e + 1) % IdxMod) - i) % IdxMod = n + 1
        /\ Slots(i, n + 1) = Slots(i, n) \cup {e % NUM}
        /\ e % NUM \notin Slots(i, n)
    <2>1. n + 1 < IdxMod /\ IdxMod > 0 /\ n \in 0 .. NUM - 1
      BY <1>0, <1>1, <1>3
    <2>2. (((e + 1) % IdxMod) - i) % IdxMod = n + 1
      BY <1>0, <1>1, <2>1, RingLonger
    <2>3. (i + n) % NUM = e % NUM
      BY <1>0, <1>1, <2>1, RingEnd
    <2>4. i \in Nat
      BY <1>1
    <2>5. /\ Slots(i, n + 1) = Slots(i, n) \cup {(i + n) % NUM}
          /\ (i + n) % NUM \notin Slots(i, n)
      BY <2>1, <2>4, LastSlot
    <2>6. QED
      BY <2>2, <2>3, <2>5
  <1>5. QED
    BY <1>1, <1>2, <1>3, <1>4 DEF e

LEMMA QueueShrinks ==
  ASSUME Types, Types', QLen < NUM, device.last # avail.idx,
         device'.last = (device.last + 1) % IdxMod, avail'.idx = avail.idx
  PROVE  /\ QLen' < NUM
         /\ device.last % NUM \in Queued
         /\ Queued' = Queued \ {device.last % NUM}
  <1> DEFINE i == device.last
             e == avail.idx
             n == QLen
  <1>1. /\ i \in 0 .. IdxMod - 1 /\ e \in 0 .. IdxMod - 1 /\ n = (e - i) % IdxMod
        /\ Queued = Slots(i, n) /\ n \in Nat /\ n < NUM /\ i # e
    BY RingTypes DEF QLen
  <1>2. QLen' = (e - ((i + 1) % IdxMod)) % IdxMod /\ Queued' = Slots((i + 1) % IdxMod, QLen')
    BY DEF QLen, Queued
  <1> HIDE DEF i, e, n
  <1>0. /\ IdxMod \in Nat /\ IdxMod >= NUM /\ IdxMod % NUM = 0
        /\ NUM \in Nat /\ NUM >= NUM /\ NUM % NUM = 0
    BY Size
  <1>3. /\ (e - ((i + 1) % IdxMod)) % IdxMod = n - 1
        /\ i % NUM \in Slots(i, n)
        /\ Slots((i + 1) % IdxMod, n - 1) = Slots(i, n) \ {i % NUM}
    BY <1>0, <1>1, RingShrinks
  <1>4. n - 1 < NUM
    BY <1>1, Size
  <1>5. QED
    BY <1>1, <1>2, <1>3, <1>4 DEF i

LEMMA UsedGrows ==
  ASSUME Types, Types', SLen + 1 < NUM,
         used'.id = (used.id + 1) % IdxMod, used_idx' = used_idx
  PROVE  /\ Served' = Served \cup {used.id % NUM}
         /\ used.id % NUM \notin Served
  <1> DEFINE i == used_idx
             e == used.id % NUM
             n == SLen
  <1>1. /\ i \in 0 .. NUM - 1 /\ e \in 0 .. NUM - 1 /\ n = (e - i) % NUM
        /\ Served = Slots(i, n) /\ n \in Nat /\ used.id \in Int
    BY RingTypes
  <1>2. ((used.id + 1) % IdxMod) % NUM = (e + 1) % NUM
    <2>1. ((used.id + 1) % IdxMod) % NUM = (used.id + 1) % NUM
      <3>1. used.id + 1 \in Int
        BY <1>1
      <3>2. QED
        BY <3>1, Size, NumOfMod
    <2>2. ((used.id % NUM) + 1) % NUM = (used.id + 1) % NUM
      <3>1. used.id \in Int /\ 1 \in Int
        BY <1>1
      <3>2. QED
        BY <3>1, NumAdd, Zenon
    <2>3. QED
      BY <2>1, <2>2
  <1>3. SLen' = (((e + 1) % NUM) - i) % NUM /\ Served' = Slots(i, SLen')
    <2>1. (SLen = ((used.id % NUM) - used_idx) % NUM)'
      BY ServedLength, PTL
    <2>2. Served' = Slots(i, SLen')
      BY DEF Served, SLen
    <2>3. QED
      BY <1>2, <2>1, <2>2
  <1>4. n + 1 < NUM
    OBVIOUS
  <1> HIDE DEF i, e, n
  <1>0. /\ IdxMod \in Nat /\ IdxMod >= NUM /\ IdxMod % NUM = 0
        /\ NUM \in Nat /\ NUM >= NUM /\ NUM % NUM = 0
    BY Size
  <1>5. /\ (((e + 1) % NUM) - i) % NUM = n + 1
        /\ Slots(i, n + 1) = Slots(i, n) \cup {e % NUM}
        /\ e % NUM \notin Slots(i, n)
    <2>1. n + 1 < NUM /\ NUM > 0 /\ n \in 0 .. NUM - 1
      BY <1>0, <1>1, <1>4
    <2>2. (((e + 1) % NUM) - i) % NUM = n + 1
      BY <1>0, <1>1, <2>1, RingLonger
    <2>3. (i + n) % NUM = e % NUM
      BY <1>0, <1>1, <2>1, RingEnd
    <2>4. i \in Nat
      BY <1>1
    <2>5. /\ Slots(i, n + 1) = Slots(i, n) \cup {(i + n) % NUM}
          /\ (i + n) % NUM \notin Slots(i, n)
      BY <2>1, <2>4, LastSlot
    <2>6. QED
      BY <2>2, <2>3, <2>5
  <1>6. e % NUM = e
    <2>1. e = 0 * NUM + e /\ e \in Int
      BY <1>1, Size
    <2>2. QED
      BY <1>1, <2>1, Size, ModUnique
  <1>7. QED
    BY <1>1, <1>3, <1>5, <1>6 DEF e

LEMMA UsedShrinks ==
  ASSUME Types, Types', Unread, used_idx' = (used_idx + 1) % NUM, used'.id = used.id
  PROVE  /\ used_idx \in Served
         /\ Served' = Served \ {used_idx}
  <1> DEFINE i == used_idx
             e == used.id % NUM
             n == SLen
  <1>1. /\ i \in 0 .. NUM - 1 /\ e \in 0 .. NUM - 1 /\ n = (e - i) % NUM
        /\ Served = Slots(i, n) /\ n < NUM
    <2>1. NUM \in Nat
      BY Size
    <2>2. QED
      BY <2>1, RingTypes
  <1>2. i % NUM = i
    <2>1. i = 0 * NUM + i /\ i \in Int
      BY <1>1, Size
    <2>2. QED
      BY <1>1, <2>1, Size, ModUnique
  <1>3. i # e
    BY <1>2 DEF Unread
  <1>4. SLen' = (e - ((i + 1) % NUM)) % NUM /\ Served' = Slots((i + 1) % NUM, SLen')
    <2>1. (SLen = ((used.id % NUM) - used_idx) % NUM)'
      BY ServedLength, PTL
    <2>2. Served' = Slots(used_idx', SLen')
      BY DEF Served, SLen
    <2>3. QED
      BY <2>1, <2>2
  <1> HIDE DEF i, e, n
  <1>0. /\ IdxMod \in Nat /\ IdxMod >= NUM /\ IdxMod % NUM = 0
        /\ NUM \in Nat /\ NUM >= NUM /\ NUM % NUM = 0
    BY Size
  <1>5. /\ (e - ((i + 1) % NUM)) % NUM = n - 1
        /\ i % NUM \in Slots(i, n)
        /\ Slots((i + 1) % NUM, n - 1) = Slots(i, n) \ {i % NUM}
    BY <1>0, <1>1, <1>3, RingShrinks
  <1>6. QED
    BY <1>1, <1>2, <1>4, <1>5 DEF i

(* The handler's next element is that of a call that waits for it. *)
LEMMA UnreadIsServed ==
  ASSUME Types, Unread
  PROVE  used_idx \in Served
  <1> DEFINE i == used_idx
             e == used.id % NUM
             n == SLen
  <1>1. /\ i \in 0 .. NUM - 1 /\ e \in 0 .. NUM - 1 /\ n = (e - i) % NUM
        /\ Served = Slots(i, n) /\ n \in Nat /\ n < NUM
    <2>1. NUM \in Nat
      BY Size
    <2>2. QED
      BY <2>1, RingTypes
  <1>2. i % NUM = i
    <2>1. i = 0 * NUM + i /\ i \in Int
      BY <1>1, Size
    <2>2. QED
      BY <1>1, <2>1, Size, ModUnique
  <1>3. i # e
    BY <1>2 DEF Unread
  <1> HIDE DEF i, e, n
  <1>4. NUM \in Nat /\ NUM >= NUM /\ NUM % NUM = 0
    BY Size
  <1>5. i % NUM \in Slots(i, n)
    BY <1>1, <1>3, <1>4, RingShrinks
  <1>6. QED
    BY <1>1, <1>2, <1>5 DEF i

LEMMA NextIsOfCall ==
  ASSUME Types, CallInv, RingInv, Unread
  PROVE  \E p \in Waiting : /\ used.elems[used_idx] = Head1(p)
                            /\ Head1(p) \in Indices /\ info[Head1(p)].b = p
                            /\ p \in Procs /\ p # None
  <1>1. used.elems[used_idx] \in Heads
    BY UnreadIsServed DEF RingInv, InUsed
  <1>2. PICK p \in Waiting : used.elems[used_idx] = Head1(p)
    BY <1>1 DEF Heads
  <1>3. p \in InCall /\ Head1(p) \in Indices
    BY HeadsDiffer
  <1>4. info[Head1(p)].b = p
    BY <1>3 DEF CallInv, Described, Head1
  <1>5. p \in Procs /\ p # None
    BY <1>3, DiskAssumption DEF InCall
  <1>6. QED
    BY <1>2, <1>3, <1>4, <1>5

(* What keeps the rings: entries the device may read stay, no call begins  *)
(* or ceases to wait, and a call about to post has its head in place.      *)
LEMMA RingsKept ==
  ASSUME RingInv, avail'.idx = avail.idx, \A s \in Queued : avail'.ring[s] = avail.ring[s],
         device'.last = device.last, device'.taken = device.taken,
         used' = used, used_idx' = used_idx, Heads' = Heads,
         \A p \in Procs : proc'[p].at = "post" =>
           b_disk'[p] /\ avail'.ring[avail.idx % NUM] = Head1(p)'
  PROVE  RingInv'
  <1>1. QLen' = QLen /\ Queued' = Queued /\ Served' = Served
    BY DEF QLen, Queued, Served
  <1>2. InAvail' = InAvail /\ InUsed' = InUsed
    BY <1>1 DEF InAvail, InUsed
  <1>3. DifferOn(avail'.ring, Queued)
    BY DEF RingInv, DifferOn
  <1>4. QED
    BY <1>1, <1>2, <1>3 DEF RingInv

LEMMA DescribeRings ==
  ASSUME Types, Locks, CallInv, RingInv, NEW p \in Procs, Describe(p)
  PROVE  RingInv' /\ InUsed' = InUsed /\ Posted' = Posted
         /\ \A q \in Posted : b_disk'[q] = b_disk[q] /\ Head1(q)' = Head1(q)
  <1> DEFINE s == Ascending(Found)
             x == avail.idx % NUM
  <1>1. /\ avail' = [avail EXCEPT !.ring[x] = s[1]]
        /\ proc' = [proc EXCEPT ![p] = [at |-> "post", idx |-> s]]
        /\ b_disk' = [b_disk EXCEPT ![p] = TRUE]
        /\ used' = used /\ used_idx' = used_idx /\ device' = device
        /\ proc[p].at = "idle" /\ lock = None
    BY DEF Describe, At
  <1>2. x \notin Queued /\ x \in Indices /\ Queued \subseteq Indices
    BY BehindQueue, RingTypes DEF RingInv
  <1> HIDE DEF s, x
  <1>3. avail'.idx = avail.idx /\ avail'.ring[x] = s[1] /\ \A t \in Queued : avail'.ring[t] = avail.ring[t]
    BY <1>1, <1>2 DEF Types
  <1>4. /\ proc'[p] = [at |-> "post", idx |-> s] /\ b_disk'[p] = TRUE
        /\ \A q \in Procs : q # p => proc'[q] = proc[q] /\ b_disk'[q] = b_disk[q]
    BY <1>1 DEF Types
  <1>5. Waiting' = Waiting /\ p \notin Waiting
    BY <1>1, <1>4 DEF Waiting, Posted, InCall
  <1>6. Heads' = Heads
    <2>1. \A q \in Waiting : q \in Procs /\ q # p
      BY <1>5 DEF Waiting, Posted, InCall
    <2>2. \A q \in Waiting : Head1(q)' = Head1(q)
      BY <1>4, <2>1 DEF Head1
    <2>3. QED
      BY <1>5, <2>2 DEF Heads
  <1>7. ASSUME NEW q \in Procs, proc'[q].at = "post"
        PROVE  b_disk'[q] /\ avail'.ring[x] = Head1(q)'
    <2>1. q = p
      BY <1>1, <1>4, <1>7, DiskAssumption DEF Locks
    <2>2. QED
      BY <1>3, <1>4, <2>1 DEF Head1
  <1>8. RingInv'
    BY <1>1, <1>3, <1>6, <1>7, RingsKept DEF x
  <1>9. InUsed' = InUsed /\ Posted' = Posted
    BY <1>1, <1>4 DEF InUsed, Served, Posted, InCall
  <1>10. \A q \in Posted : q \in Procs /\ q # p
    BY <1>1 DEF Posted, InCall
  <1>11. QED
    BY <1>4, <1>8, <1>9, <1>10 DEF Head1

LEMMA PostRings ==
  ASSUME Types, Types', Locks, CallInv, RingInv, NEW p \in Procs, Post(p)
  PROVE  RingInv' /\ InUsed' = InUsed /\ Head1(p) \notin Heads
         /\ p \notin Posted /\ Posted' = Posted \cup {p} /\ b_disk[p] /\ b_disk' = b_disk
         /\ \A q \in Procs : Head1(q)' = Head1(q)
  <1> DEFINE h == Head1(p)
             x == avail.idx % NUM
  <1>1. /\ proc[p].at = "post" /\ b_disk[p] /\ avail.ring[x] = h
        /\ proc' = [proc EXCEPT ![p].at = "asleep"]
        /\ avail' = [avail EXCEPT !.idx = (@ + 1) % IdxMod]
        /\ device' = [device EXCEPT !.awake = TRUE]
        /\ b_disk' = b_disk /\ used' = used /\ used_idx' = used_idx
    BY DEF Post, At, Goes, RingInv
  <1>2. p \in InCall /\ p \notin Waiting
    BY <1>1 DEF InCall, Waiting, Posted
  <1>3. h \in Indices /\ proc[p].idx[2] \in Indices /\ h # proc[p].idx[2] /\ h \notin Heads
        /\ Heads \subseteq (Indices \ {h}) \ {proc[p].idx[2]}
    BY <1>2, HeadsDiffer DEF Heads
  <1>4. QLen + 1 < NUM
    <2>1. \A s \in Queued : avail.ring[s] \in Heads
      BY DEF RingInv, InAvail
    <2>2. /\ QLen \in 0 .. NUM - 1 /\ device.last \in Nat
          /\ Queued = Slots(device.last, QLen)
      BY RingTypes, Size DEF RingInv
    <2> DEFINE n == QLen
               a == proc[p].idx[2]
               f == avail.ring
               i == device.last
    <2>3. /\ i \in Nat /\ n \in 0 .. NUM - 1 /\ DifferOn(f, Slots(i, n))
          /\ h \in Indices /\ a \in Indices /\ h # a
          /\ \A s \in Slots(i, n) : f[s] \in (Indices \ {h}) \ {a}
      BY <1>3, <2>1, <2>2 DEF RingInv
    <2> HIDE DEF n, a, f, i, h
    <2>4. n + 1 < NUM
      BY <2>3, RoomInRing
    <2>5. QED
      BY <2>4 DEF n
  <1>5. avail'.idx = (avail.idx + 1) % IdxMod /\ avail'.ring = avail.ring
        /\ device'.last = device.last /\ device'.taken = device.taken
    BY <1>1 DEF Types, Devices
  <1>6. QLen' < NUM /\ Queued' = Queued \cup {x} /\ x \notin Queued
    BY <1>4, <1>5, QueueGrows
  <1>7. /\ {avail.ring[s] : s \in Queued \cup {x}} = {avail.ring[s] : s \in Queued} \cup {h}
        /\ DifferOn(avail.ring, Queued \cup {x})
    <2> DEFINE f == avail.ring
               S == Queued
    <2>1. f[x] = h /\ DifferOn(f, S) /\ h \notin {f[s] : s \in S}
      BY <1>1, <1>3 DEF RingInv, InAvail
    <2> HIDE DEF f, S, x, h
    <2>2. {f[s] : s \in S \cup {x}} = {f[s] : s \in S} \cup {h}
      BY <2>1
    <2>3. ASSUME NEW s \in S \cup {x}, NEW t \in S \cup {x}, f[s] = f[t] PROVE s = t
      BY <2>1, <2>3 DEF DifferOn
    <2>4. DifferOn(f, S \cup {x})
      BY <2>3 DEF DifferOn
    <2>5. QED
      BY <2>2, <2>4 DEF f, S
  <1>8. InAvail' = InAvail \cup {h} /\ DifferOn(avail'.ring, Queued')
    BY <1>5, <1>6, <1>7 DEF InAvail
  <1>9. Served' = Served /\ InUsed' = InUsed
    BY <1>1 DEF Served, InUsed
  <1>10. /\ \A q \in Procs : q # p => proc'[q] = proc[q]
         /\ proc'[p].at = "asleep" /\ proc'[p].idx = proc[p].idx
    BY <1>1 DEF Types, Calls
  <1>11. Waiting' = Waiting \cup {p}
    BY <1>1, <1>10 DEF Waiting, Posted, InCall
  <1>12. Heads' = Heads \cup {h}
    <2>1. \A q \in Procs : Head1(q)' = Head1(q)
      BY <1>10 DEF Head1
    <2>2. Waiting \subseteq Procs
      BY DEF Waiting, Posted, InCall
    <2>3. QED
      BY <1>11, <2>1, <2>2 DEF Heads
  <1>13. \A q \in Procs : proc'[q].at # "post"
    BY <1>1, <1>10 DEF Locks
  <1> HIDE DEF h, x
  <1>14. RingInv'
    BY <1>1, <1>3, <1>5, <1>6, <1>8, <1>9, <1>12, <1>13 DEF RingInv
  <1>15. p \notin Posted /\ Posted' = Posted \cup {p}
    BY <1>1, <1>10 DEF Posted, InCall
  <1>16. \A q \in Procs : Head1(q)' = Head1(q)
    BY <1>10 DEF Head1
  <1>17. QED
    BY <1>1, <1>3, <1>9, <1>14, <1>15, <1>16 DEF h

LEMMA TakesRings ==
  ASSUME Types, Types', CallInv, RingInv, DeviceTakes
  PROVE  RingInv' /\ InUsed' = InUsed
  <1> DEFINE slot == device.last % NUM
             h == avail.ring[slot]
  <1>1. /\ device' = [device EXCEPT !.last = (@ + 1) % IdxMod, !.taken = @ \cup {h}]
        /\ avail' = [avail EXCEPT !.ring[slot] = Gone]
        /\ UNCHANGED <<used, used_idx, proc, b_disk>>
        /\ device.last # avail.idx
    BY DEF DeviceTakes, driver
  <1>2. avail.idx % NUM \notin Queued /\ Queued \subseteq Indices
    BY BehindQueue, RingTypes DEF RingInv
  <1>3. /\ device'.last = (device.last + 1) % IdxMod /\ avail'.idx = avail.idx
        /\ device'.taken = device.taken \cup {h}
        /\ \A s \in Indices : s # slot => avail'.ring[s] = avail.ring[s]
    BY <1>1 DEF Types, Devices
  <1>4. QLen' < NUM /\ slot \in Queued /\ Queued' = Queued \ {slot}
    BY <1>1, <1>3, QueueShrinks DEF RingInv
  <1>5. InAvail' = InAvail \ {h} /\ h \in InAvail /\ DifferOn(avail'.ring, Queued')
    <2> DEFINE f == avail.ring
               g == avail'.ring
               S == Queued
    <2>1. slot \in S /\ (\A s \in S \ {slot} : g[s] = f[s]) /\ DifferOn(f, S)
      BY <1>2, <1>3, <1>4 DEF RingInv
    <2> HIDE DEF f, g, S, slot
    <2>2. /\ {g[s] : s \in S \ {slot}} = {f[s] : s \in S} \ {f[slot]}
          /\ f[slot] \in {f[s] : s \in S}
          /\ DifferOn(g, S \ {slot})
      BY <2>1, Leaves
    <2>3. QED
      BY <1>4, <2>2 DEF f, g, S, InAvail
  <1>6. Served' = Served /\ InUsed' = InUsed /\ Heads' = Heads
    BY <1>1 DEF Served, InUsed, Heads, Waiting, Posted, InCall, Head1
  <1>7. avail'.ring[avail.idx % NUM] = avail.ring[avail.idx % NUM]
    BY <1>2, <1>3, <1>4, RingTypes
  <1>8. \A p \in Procs : proc'[p].at = "post" =>
          b_disk'[p] /\ avail'.ring[avail.idx % NUM] = Head1(p)'
    BY <1>1, <1>7 DEF RingInv, Head1
  <1> HIDE DEF h, slot
  <1>9. QED
    BY <1>1, <1>3, <1>4, <1>5, <1>6, <1>8 DEF RingInv

LEMMA CompletesRings ==
  ASSUME Types, Types', CallInv, RingInv, NEW head \in Indices, DeviceCompletes(head)
  PROVE  RingInv' /\ InUsed' = InUsed \cup {head} /\ head \in Heads /\ head \notin InUsed
  <1> DEFINE x == used.id % NUM
  <1>1. /\ head \in device.taken
        /\ used' = [id |-> (used.id + 1) % IdxMod, elems |-> [used.elems EXCEPT ![x] = head]]
        /\ device' = [device EXCEPT !.taken = @ \ {head}, !.raising = TRUE,
                                    !.late = @ \/ intr = "ack"]
        /\ UNCHANGED <<used_idx, b_disk, proc, avail>>
    BY DEF DeviceCompletes
  <1>2. PICK p \in Waiting : head = Head1(p)
    BY <1>1 DEF RingInv, Heads
  <1>3. /\ p \in InCall /\ proc[p].idx[2] \in Indices /\ head # proc[p].idx[2]
        /\ head \in Heads /\ head \notin InUsed
        /\ InUsed \subseteq (Indices \ {head}) \ {proc[p].idx[2]}
    BY <1>1, <1>2, HeadsDiffer DEF RingInv, Heads
  <1>4. SLen + 1 < NUM
    <2>1. \A s \in Served : used.elems[s] \in InUsed
      BY DEF InUsed
    <2>2. SLen \in 0 .. NUM - 1 /\ used_idx \in Nat /\ Served = Slots(used_idx, SLen)
      BY RingTypes
    <2> DEFINE n == SLen
               a == proc[p].idx[2]
               f == used.elems
               i == used_idx
    <2>3. /\ i \in Nat /\ n \in 0 .. NUM - 1 /\ DifferOn(f, Slots(i, n))
          /\ head \in Indices /\ a \in Indices /\ head # a
          /\ \A s \in Slots(i, n) : f[s] \in (Indices \ {head}) \ {a}
      BY <1>3, <2>1, <2>2 DEF RingInv
    <2> HIDE DEF n, a, f, i
    <2>4. n + 1 < NUM
      BY <2>3, RoomInRing
    <2>5. QED
      BY <2>4 DEF n
  <1>5. /\ used'.id = (used.id + 1) % IdxMod
        /\ used'.elems = [used.elems EXCEPT ![x] = head]
        /\ device'.taken = device.taken \ {head} /\ device'.last = device.last
    BY <1>1 DEF Types, Devices
  <1>6. Served' = Served \cup {x} /\ x \notin Served
    BY <1>1, <1>4, <1>5, UsedGrows
  <1>7. /\ used'.elems[x] = head
        /\ \A s \in Served : used'.elems[s] = used.elems[s]
    <2>1. x \in Indices /\ Served \subseteq Indices
      BY RingTypes DEF Indices
    <2> HIDE DEF x
    <2>2. QED
      BY <1>5, <1>6, <2>1 DEF Types
  <1>8. InUsed' = InUsed \cup {head} /\ DifferOn(used'.elems, Served')
    <2> DEFINE f == used.elems
               g == used'.elems
               S == Served
    <2>1. /\ x \notin S /\ g[x] = head /\ (\A s \in S : g[s] = f[s])
          /\ DifferOn(f, S) /\ head \notin {f[s] : s \in S}
      BY <1>3, <1>6, <1>7 DEF RingInv, InUsed
    <2> HIDE DEF f, g, S, x
    <2>2. /\ {g[s] : s \in S \cup {x}} = {f[s] : s \in S} \cup {head}
          /\ DifferOn(g, S \cup {x})
      BY <2>1, Enters
    <2>3. QED
      BY <1>6, <2>2 DEF f, g, S, InUsed
  <1>9. QLen' = QLen /\ Queued' = Queued /\ InAvail' = InAvail /\ Heads' = Heads
    BY <1>1, <1>5 DEF QLen, Queued, InAvail, Heads, Waiting, Posted, InCall, Head1
  <1>10. \A q \in Procs : proc'[q].at = "post" =>
           b_disk'[q] /\ avail'.ring[avail'.idx % NUM] = Head1(q)'
    BY <1>1 DEF RingInv, Head1
  <1> HIDE DEF x
  <1>11. RingInv'
    BY <1>1, <1>3, <1>5, <1>8, <1>9, <1>10 DEF RingInv
  <1>12. QED
    BY <1>3, <1>8, <1>11

LEMMA AnswerRings ==
  ASSUME Types, Types', CallInv, RingInv, AnswerOne
  PROVE  /\ RingInv'
         /\ \E p \in Waiting : /\ Waiting' = Waiting \ {p} /\ Posted' = Posted
                               /\ Head1(p) \in InUsed /\ InUsed' = InUsed \ {Head1(p)}
                               /\ \A q \in Procs : Head1(q)' = Head1(q)
  <1> DEFINE x == used_idx
  <1>1. PICK p \in Waiting : /\ used.elems[x] = Head1(p)
                             /\ Head1(p) \in Indices /\ info[Head1(p)].b = p
                             /\ p \in Procs /\ p # None
    BY NextIsOfCall DEF AnswerOne
  <1> DEFINE h == Head1(p)
  <1>2. /\ b_disk' = [b_disk EXCEPT ![p] = FALSE]
        /\ proc' = [q \in Procs |-> IF q = p /\ proc[q].at = "asleep"
                                    THEN [proc[q] EXCEPT !.at = "woken"] ELSE proc[q]]
        /\ used_idx' = (used_idx + 1) % NUM
        /\ used' = [used EXCEPT !.elems[x] = Gone]
        /\ device' = [device EXCEPT !.late = FALSE]
        /\ avail' = avail /\ Unread
    BY <1>1 DEF AnswerOne, wakeup, NextUsed
  <1>3. /\ used'.id = used.id /\ x \in Indices
        /\ \A s \in Indices : s # x => used'.elems[s] = used.elems[s]
        /\ device'.last = device.last /\ device'.taken = device.taken
    BY <1>2 DEF Types, Devices
  <1>4. x \in Served /\ Served' = Served \ {x} /\ Served \subseteq Indices
    BY <1>2, <1>3, UsedShrinks, RingTypes
  <1>5. InUsed' = InUsed \ {h} /\ h \in InUsed /\ DifferOn(used'.elems, Served')
    <2> DEFINE f == used.elems
               g == used'.elems
               S == Served
    <2>1. x \in S /\ (\A s \in S \ {x} : g[s] = f[s]) /\ DifferOn(f, S) /\ f[x] = h
      BY <1>1, <1>3, <1>4 DEF RingInv
    <2> HIDE DEF f, g, S, x, h
    <2>2. /\ {g[s] : s \in S \ {x}} = {f[s] : s \in S} \ {f[x]}
          /\ f[x] \in {f[s] : s \in S}
          /\ DifferOn(g, S \ {x})
      BY <2>1, Leaves
    <2>3. QED
      BY <1>4, <2>1, <2>2 DEF f, g, S, InUsed
  <1>6. /\ \A q \in Procs : proc'[q].idx = proc[q].idx
        /\ \A q \in Procs : q # p => proc'[q] = proc[q]
        /\ proc'[p].at = IF proc[p].at = "asleep" THEN "woken" ELSE proc[p].at
    BY <1>1, <1>2 DEF Types, Calls
  <1>7. Posted' = Posted
    BY <1>1, <1>6 DEF Posted, InCall
  <1>8. Waiting' = Waiting \ {p}
    BY <1>1, <1>2, <1>7 DEF Waiting, Posted, InCall, Types
  <1>9. \A q \in Procs : Head1(q)' = Head1(q)
    BY <1>6 DEF Head1
  <1>10. Heads' = Heads \ {h}
    <2>1. \A q \in Waiting : q \in Procs /\ (Head1(q) = h => q = p)
      BY HeadsDiffer DEF InCall
    <2>2. QED
      BY <1>8, <1>9, <2>1 DEF Heads
  <1>11. QLen' = QLen /\ Queued' = Queued /\ InAvail' = InAvail
    BY <1>2, <1>3 DEF QLen, Queued, InAvail
  <1>12. \A q \in Procs : proc'[q].at = "post" =>
           b_disk'[q] /\ avail'.ring[avail'.idx % NUM] = Head1(q)'
    <2>1. p \in Procs /\ proc[p].at # "post"
      BY <1>1 DEF Waiting, Posted
    <2>2. \A q \in Procs : proc'[q].at = "post" => proc[q].at = "post" /\ q # p
      BY <1>6, <2>1
    <2>3. \A q \in Procs : q # p => b_disk'[q] = b_disk[q]
      BY <1>2 DEF Types
    <2>4. QED
      BY <1>2, <1>9, <2>2, <2>3 DEF RingInv
  <1> HIDE DEF h, x
  <1>13. RingInv'
    BY <1>2, <1>3, <1>5, <1>10, <1>11, <1>12 DEF RingInv
  <1>14. QED
    BY <1>5, <1>7, <1>8, <1>9, <1>13 DEF h

LEMMA ReturnRings ==
  ASSUME Types, CallInv, RingInv, NEW p \in Procs, Return(p)
  PROVE  RingInv' /\ InUsed' = InUsed /\ p \in Posted /\ Posted' = Posted \ {p} /\ ~b_disk[p]
         /\ b_disk' = b_disk /\ \A q \in Procs : q # p => Head1(q)' = Head1(q)
  <1>1. /\ ~b_disk[p] /\ proc[p].at = "woken" /\ proc' = [proc EXCEPT ![p] = [at |-> "idle", idx |-> <<>>]]
        /\ UNCHANGED <<b_disk, avail, used, used_idx, device>>
    BY DEF Return, MayReturn, At
  <1>2. /\ proc'[p].at = "idle" /\ \A q \in Procs : q # p => proc'[q] = proc[q]
    BY <1>1 DEF Types
  <1>3. p \in Posted /\ Posted' = Posted \ {p}
    BY <1>1, <1>2 DEF Posted, InCall
  <1>4. Waiting' = Waiting /\ p \notin Waiting
    BY <1>1, <1>3 DEF Waiting
  <1>5. \A q \in Procs : q # p => Head1(q)' = Head1(q)
    BY <1>2 DEF Head1
  <1>6. Heads' = Heads
    <2>1. \A q \in Waiting : q \in Procs /\ q # p
      BY <1>4 DEF Waiting, Posted, InCall
    <2>2. QED
      BY <1>4, <1>5, <2>1 DEF Heads
  <1>7. \A q \in Procs : proc'[q].at = "post" =>
          b_disk'[q] /\ avail'.ring[avail.idx % NUM] = Head1(q)'
    BY <1>1, <1>2, <1>5 DEF RingInv
  <1>8. RingInv'
    BY <1>1, <1>6, <1>7, RingsKept
  <1>9. InUsed' = InUsed
    BY <1>1 DEF InUsed, Served
  <1>10. QED
    BY <1>1, <1>3, <1>5, <1>8, <1>9

(* Steps that begin, end or move no request. *)
Idles ==
  \/ \E p \in Procs : LackDescriptors(p)
  \/ Interrupt \/ HandlerFails \/ NoneLeft \/ Ack \/ DeviceSleeps \/ DeviceInterrupts
  \/ UNCHANGED vars

LEMMA IdleRings ==
  ASSUME Types, CallInv, RingInv, Idles
  PROVE  RingInv' /\ InUsed' = InUsed /\ Posted' = Posted /\ b_disk' = b_disk
         /\ \A q \in InCall : Head1(q)' = Head1(q)
  <1>1. /\ avail' = avail /\ used' = used /\ used_idx' = used_idx /\ b_disk' = b_disk
        /\ device'.last = device.last /\ device'.taken = device.taken
    BY DEF Idles, LackDescriptors, Interrupt, HandlerFails, NoneLeft, Ack, DeviceSleeps,
           DeviceInterrupts, driver, vars, Types, Devices
  <1>2. InCall' = InCall /\ \A q \in InCall : proc'[q] = proc[q]
    <2>1. CASE \E p \in Procs : LackDescriptors(p)
      BY <2>1, LackCalls
    <2>2. CASE ~(\E p \in Procs : LackDescriptors(p))
      <3>1. proc' = proc
        BY <2>2 DEF Idles, Interrupt, HandlerFails, NoneLeft, Ack, DeviceSleeps,
                    DeviceInterrupts, driver, vars
      <3>2. QED
        BY <3>1 DEF InCall
    <2>3. QED
      BY <2>1, <2>2
  <1>3. Posted' = Posted /\ Waiting' = Waiting /\ \A q \in InCall : Head1(q)' = Head1(q)
    BY <1>1, <1>2 DEF Posted, Waiting, Head1
  <1>4. Heads' = Heads
    BY <1>3 DEF Heads, Waiting, Posted
  <1>5. ASSUME NEW q \in Procs, proc'[q].at = "post"
        PROVE  b_disk'[q] /\ avail'.ring[avail.idx % NUM] = Head1(q)'
    <2>1. q \in InCall'
      BY <1>5 DEF InCall
    <2>2. q \in InCall /\ proc[q].at = "post"
      BY <1>2, <1>5, <2>1
    <2>3. QED
      BY <1>1, <1>3, <2>2 DEF RingInv
  <1>6. RingInv'
    BY <1>1, <1>4, <1>5, RingsKept
  <1>7. InUsed' = InUsed
    BY <1>1 DEF InUsed, Served
  <1>8. QED
    BY <1>1, <1>3, <1>6, <1>7

LEMMA StepKinds ==
  ASSUME [Next]_vars
  PROVE  \/ Idles
         \/ \E p \in Procs : Describe(p) \/ Post(p) \/ Return(p)
         \/ AnswerOne \/ DeviceTakes
         \/ \E head \in Indices : DeviceCompletes(head)
  BY DEF Next, Idles

LEMMA RingsStep ==
  ASSUME Types, Types', Locks, CallInv, RingInv, [Next]_vars
  PROVE  RingInv'
  BY StepKinds, IdleRings, DescribeRings, PostRings, ReturnRings, AnswerRings, TakesRings,
     CompletesRings

(* Nothing but a request that the device reports failed stops the driver. *)
LEMMA FaultStep ==
  ASSUME Types, CallInv, RingInv, machine # "fault", [Next]_vars
  PROVE  machine' # "fault"
  <1>1. ASSUME NEW p \in Procs, Return(p) PROVE machine' # "fault"
    BY <1>1, ReturnCalls
  <1>2. ASSUME HandlerFails PROVE machine' # "fault"
    <2>1. PICK p \in Waiting : /\ used.elems[used_idx] = Head1(p)
                               /\ Head1(p) \in Indices /\ info[Head1(p)].b = p
                               /\ p \in Procs /\ p # None
      BY <1>2, NextIsOfCall DEF HandlerFails
    <2>2. info[Head1(p)].status # 0
      BY <1>2, <2>1 DEF HandlerFails, Answerable
    <2>3. machine' = "status"
      BY <1>2, <2>1, <2>2, SMTT(30) DEF HandlerFails
    <2>4. QED
      BY <2>3
  <1>3. ASSUME NEW p \in Procs, LackDescriptors(p) PROVE machine' # "fault"
    BY <1>3, GivenBackWhole
  <1>4. ASSUME ~HandlerFails, \A p \in Procs : ~Return(p) /\ ~LackDescriptors(p)
        PROVE  machine' # "fault"
    BY <1>4 DEF Next, vars, Describe, Post, Interrupt, AnswerOne, NoneLeft, Ack,
                DeviceTakes, DeviceSleeps, DeviceInterrupts, DeviceCompletes
  <1>5. QED
    BY <1>1, <1>2, <1>3, <1>4

LEMMA DriverAlways == Spec => []DriverInv
  <1>1. Init => DriverInv
    BY InitTypes, InitCalls, InitRings DEF DriverInv
  <1>2. DriverInv /\ [Next]_vars => DriverInv'
    BY TypesStep, CallsStep, RingsStep, FaultStep DEF DriverInv
  <1>3. QED
    BY <1>1, <1>2, PTL DEF Spec

-----------------------------------------------------------------------------
(* Ring entries, indices and the lock's holder are always what they can be *)
(* in the code, and the device never takes a number that is no descriptor. *)
THEOREM TypeCorrect == Spec => []TypeOK
  <1>1. DriverInv => TypeOK
    <2> SUFFICES ASSUME DriverInv PROVE TypeOK
      OBVIOUS
    <2>1. device.taken \subseteq Indices
      BY HeadsDiffer DEF DriverInv, RingInv
    <2>2. \A i \in Indices : desc[i].NEXT \in BOOLEAN /\ desc[i].next \in Indices
      BY DEF DriverInv, Types, Descs
    <2>3. QED
      BY <2>1, <2>2 DEF DriverInv, Types, TypeOK, Infos
  <1>2. QED
    BY <1>1, DriverAlways, PTL

(* free_desc, free_chain and the wait for a buffer: only a failed request  *)
(* stops the driver, none of its other panics and no NULL pointer does.    *)
THEOREM NoFault == Spec => []NeverFaults
  <1>1. DriverInv => NeverFaults
    BY DEF DriverInv, NeverFaults
  <1>2. QED
    BY <1>1, DriverAlways, PTL

(* alloc_desc and free_chain: a descriptor is free or one call's, not both *)
(* and never neither.                                                      *)
THEOREM DescriptorsKept == Spec => []DescriptorsAccounted
  <1>1. DriverInv => DescriptorsAccounted
    <2> SUFFICES ASSUME DriverInv, NEW i \in Indices
                 PROVE  Cardinality({ p \in InCall : i \in Owned(p) }) = IF free[i] THEN 0 ELSE 1
      BY DEF DescriptorsAccounted
    <2> DEFINE S == { p \in InCall : i \in Owned(p) }
    <2>1. \A p \in InCall : i \in Owned(p) <=> \E k \in 1 .. 3 : proc[p].idx[k] = i
      BY DEF DriverInv, CallInv, Owners, Owned, ToSet
    <2>2. CASE free[i]
      <3>1. S = {}
        BY <2>1, <2>2 DEF DriverInv, CallInv, Owners
      <3>2. QED
        BY <2>2, <3>1, FS_EmptySet
    <2>3. CASE ~free[i]
      <3>1. PICK p \in InCall : \E k \in 1 .. 3 : proc[p].idx[k] = i
        BY <2>3 DEF DriverInv, CallInv, Owners
      <3>2. S = {p}
        BY <2>1, <3>1 DEF DriverInv, CallInv, Owners
      <3> HIDE DEF S
      <3>3. Cardinality(S) = 1
        BY <3>2, FS_Singleton, Zenon
      <3>4. QED
        BY <2>3, <3>3 DEF S
    <2>4. QED
      BY <2>2, <2>3
  <1>2. QED
    BY <1>1, DriverAlways, PTL

(* virtio_disk_ext4_rw's descriptors and disk.info from the call until its *)
(* free_chain: what the device follows and the handler reads is the call's *)
(* own, whatever other calls do meanwhile.                                 *)
THEOREM ChainsKept == Spec => []ChainsUndisturbed
  <1>1. DriverInv => ChainsUndisturbed
    <2> SUFFICES ASSUME DriverInv, NEW p \in InCall
                 PROVE  /\ Chain(Head1(p)) = proc[p].idx
                        /\ [k \in 1 .. 3 |-> desc[proc[p].idx[k]].addr] =
                             <<Pointer("hdr", p), Pointer("data", p), Pointer("status", Head1(p))>>
                        /\ info[Head1(p)].b = p
      BY DEF ChainsUndisturbed
    <2>1. Chain(Head1(p)) = proc[p].idx
      BY ChainOfCall DEF DriverInv
    <2> DEFINE a == proc[p].idx[1]
               b == proc[p].idx[2]
               c == proc[p].idx[3]
               x == Pointer("hdr", p)
               y == Pointer("data", p)
               z == Pointer("status", a)
    <2>2. /\ desc[a] = Desc(x, TRUE, b) /\ desc[b] = Desc(y, TRUE, c)
          /\ desc[c] = Desc(z, FALSE, 0) /\ info[a].b = p
      BY DEF DriverInv, CallInv, Described
    <2>3. Head1(p) = a
      BY DEF Head1
    <2> HIDE DEF x, y, z
    <2>4. desc[a].addr = x /\ desc[b].addr = y /\ desc[c].addr = z
      <3> HIDE DEF a, b, c
      <3>1. QED
        BY <2>2 DEF Desc
    <2>5. [k \in 1 .. 3 |-> desc[proc[p].idx[k]].addr] = <<x, y, z>>
      BY <2>4
    <2>6. QED
      BY <2>1, <2>2, <2>3, <2>5 DEF x, y, z
  <1>2. QED
    BY <1>1, DriverAlways, PTL

(* How often a ring whose entries differ holds h. *)
LEMMA Counted ==
  ASSUME NEW f, NEW S, DifferOn(f, S), NEW h
  PROVE  Cardinality({ s \in S : f[s] = h }) = IF h \in { f[s] : s \in S } THEN 1 ELSE 0
  <1> DEFINE T == { s \in S : f[s] = h }
  <1>1. CASE h \in { f[s] : s \in S }
    <2>1. PICK s \in S : f[s] = h
      BY <1>1
    <2>2. T = {s}
      BY <2>1 DEF DifferOn
    <2> HIDE DEF T
    <2>3. Cardinality(T) = 1
      BY <2>2, FS_Singleton, Zenon
    <2>4. QED
      BY <1>1, <2>3 DEF T
  <1>2. CASE h \notin { f[s] : s \in S }
    <2>1. T = {}
      BY <1>2
    <2> HIDE DEF T
    <2>2. Cardinality(T) = 0
      BY <2>1, FS_EmptySet, Zenon
    <2>3. QED
      BY <1>2, <2>2 DEF T
  <1>3. QED
    BY <1>1, <1>2

(* The rings and the device together hold the head of each call that waits *)
(* exactly once and no other: nothing is served twice, dropped or answered *)
(* after the call that made it has returned.                               *)
THEOREM OnePlace == Spec => []OnePlaceEach
  <1>1. DriverInv => OnePlaceEach
    <2> SUFFICES ASSUME DriverInv PROVE OnePlaceEach
      OBVIOUS
    <2>1. ASSUME NEW p \in Posted
          PROVE  Cardinality({ s \in Queued : avail.ring[s] = Head1(p) })
                   + Cardinality({Head1(p)} \cap device.taken)
                   + Cardinality({ s \in Served : used.elems[s] = Head1(p) })
                   = IF b_disk[p] THEN 1 ELSE 0
      <3> DEFINE h == Head1(p)
      <3>1. Cardinality({ s \in Queued : avail.ring[s] = h }) = IF h \in InAvail THEN 1 ELSE 0
        <4>1. DifferOn(avail.ring, Queued)
          BY DEF DriverInv, RingInv
        <4> HIDE DEF h
        <4>2. QED
          BY <4>1, Counted DEF InAvail
      <3>2. Cardinality({ s \in Served : used.elems[s] = h }) = IF h \in InUsed THEN 1 ELSE 0
        <4>1. DifferOn(used.elems, Served)
          BY DEF DriverInv, RingInv
        <4> HIDE DEF h
        <4>2. QED
          BY <4>1, Counted DEF InUsed
      <3>3. Cardinality({h} \cap device.taken) = IF h \in device.taken THEN 1 ELSE 0
        <4> HIDE DEF h
        <4>1. CASE h \in device.taken
          <5>1. {h} \cap device.taken = {h}
            BY <4>1
          <5>2. QED
            BY <4>1, <5>1, FS_Singleton
        <4>2. CASE h \notin device.taken
          <5>1. {h} \cap device.taken = {}
            BY <4>2
          <5>2. QED
            BY <4>2, <5>1, FS_EmptySet
        <4>3. QED
          BY <4>1, <4>2
      <3>4. h \in Heads <=> b_disk[p]
        <4>1. \A q \in Waiting : Head1(q) = h => q = p
          BY HeadsDiffer DEF DriverInv, Posted
        <4>2. QED
          BY <4>1 DEF Heads, Waiting
      <3> HIDE DEF h
      <3>5. /\ InAvail \cap device.taken = {} /\ InAvail \cap InUsed = {}
            /\ device.taken \cap InUsed = {} /\ InAvail \cup device.taken \cup InUsed = Heads
        BY DEF DriverInv, RingInv
      <3>6. (IF h \in InAvail THEN 1 ELSE 0) + (IF h \in device.taken THEN 1 ELSE 0)
              + (IF h \in InUsed THEN 1 ELSE 0) = IF b_disk[p] THEN 1 ELSE 0
        BY <3>4, <3>5
      <3>7. QED
        BY <3>1, <3>2, <3>3, <3>6 DEF h
    <2>2. { avail.ring[s] : s \in Queued } \cup device.taken \cup { used.elems[s] : s \in Served }
            \subseteq { Head1(p) : p \in Posted }
      BY DEF DriverInv, RingInv, InAvail, InUsed, Heads, Waiting
    <2>3. QED
      BY <2>1, <2>2 DEF OnePlaceEach
  <1>2. QED
    BY <1>1, DriverAlways, PTL

-----------------------------------------------------------------------------
(* The phase of each call, for the service that the driver implements. *)
LEMMA PhaseIs ==
  \A q \in Procs :
    Phase(q) = IF q \notin Posted THEN "none"
               ELSE IF ~b_disk[q] THEN "answered"
               ELSE IF Head1(q) \in InUsed THEN "served" ELSE "queued"
  BY DEF Phase, InUsed

LEMMA SamePhase ==
  ASSUME NEW q \in Procs, q \in Posted' <=> q \in Posted,
         q \in Posted => (b_disk'[q] <=> b_disk[q]) /\ (Head1(q)' \in InUsed' <=> Head1(q) \in InUsed)
  PROVE  Phase(q)' = Phase(q)
  <1>1. (\A r \in Procs :
          Phase(r) = IF r \notin Posted THEN "none"
                     ELSE IF ~b_disk[r] THEN "answered"
                     ELSE IF Head1(r) \in InUsed THEN "served" ELSE "queued")'
    BY DEF Phase, InUsed
  <1>2. QED
    BY <1>1, PhaseIs

LEMMA OneMoves ==
  ASSUME NEW p \in Procs, NEW to, Phase(p)' = to,
         \A q \in Procs : q # p => Phase(q)' = Phase(q)
  PROVE  [q \in Procs |-> Phase(q)]' = [[q \in Procs |-> Phase(q)] EXCEPT ![p] = to]
  OBVIOUS

LEMMA PostPhase ==
  ASSUME DriverInv, DriverInv', NEW p \in Procs, Post(p)
  PROVE  Service!Queue(p)
  <1>1. /\ InUsed' = InUsed /\ Head1(p) \notin Heads
        /\ p \notin Posted /\ Posted' = Posted \cup {p} /\ b_disk[p] /\ b_disk' = b_disk
        /\ \A q \in Procs : Head1(q)' = Head1(q)
    BY PostRings DEF DriverInv
  <1>2. Head1(p)' \notin InUsed'
    BY <1>1 DEF DriverInv, RingInv
  <1>3. Phase(p) = "none"
    BY <1>1, PhaseIs
  <1>4. Phase(p)' = "queued"
    BY <1>1, <1>2 DEF Phase, InUsed
  <1>5. \A q \in Procs : q # p => Phase(q)' = Phase(q)
    BY <1>1, SamePhase
  <1>6. QED
    BY <1>3, <1>4, <1>5, OneMoves DEF Service!Queue, Service!Goes

LEMMA CompletesPhase ==
  ASSUME DriverInv, DriverInv', NEW head \in Indices, DeviceCompletes(head)
  PROVE  \E p \in Procs : Service!Serve(p)
  <1>1. InUsed' = InUsed \cup {head} /\ head \in Heads /\ head \notin InUsed
    BY CompletesRings DEF DriverInv
  <1>2. PICK p \in Waiting : head = Head1(p)
    BY <1>1 DEF Heads
  <1>3. Posted' = Posted /\ b_disk' = b_disk /\ \A q \in Procs : Head1(q)' = Head1(q)
    BY DEF DeviceCompletes, Posted, InCall, Head1
  <1>4. p \in Procs /\ p \in Posted /\ b_disk[p]
    BY DEF Waiting, Posted, InCall
  <1>5. Phase(p) = "queued"
    BY <1>1, <1>2, <1>4, PhaseIs
  <1>6. Phase(p)' = "served"
    <2>1. p \in Posted' /\ b_disk'[p] /\ Head1(p)' \in InUsed'
      BY <1>1, <1>2, <1>3, <1>4
    <2>2. QED
      BY <2>1 DEF Phase, InUsed
  <1>7. \A q \in Procs : q # p => Phase(q)' = Phase(q)
    <2> SUFFICES ASSUME NEW q \in Procs, q # p PROVE Phase(q)' = Phase(q)
      OBVIOUS
    <2>1. q \in Posted => Head1(q) # head
      BY <1>2, <1>4, HeadsDiffer DEF DriverInv, Posted
    <2>2. QED
      BY <1>1, <1>3, <2>1, SamePhase
  <1>8. Service!Serve(p)
    BY <1>4, <1>5, <1>6, <1>7, OneMoves DEF Service!Serve, Service!Goes
  <1>9. QED
    BY <1>4, <1>8

LEMMA AnswerPhase ==
  ASSUME DriverInv, DriverInv', AnswerOne
  PROVE  \E p \in Procs : Service!Answer(p)
  <1>1. PICK p \in Waiting : /\ Waiting' = Waiting \ {p} /\ Posted' = Posted
                             /\ Head1(p) \in InUsed /\ InUsed' = InUsed \ {Head1(p)}
                             /\ \A q \in Procs : Head1(q)' = Head1(q)
    BY AnswerRings DEF DriverInv
  <1>2. p \in Procs /\ p \in Posted /\ b_disk[p]
    BY DEF Waiting, Posted, InCall
  <1>3. \A q \in Posted : b_disk'[q] <=> b_disk[q] /\ q # p
    BY <1>1 DEF Waiting
  <1>4. Phase(p) = "served"
    BY <1>1, <1>2, PhaseIs
  <1>5. Phase(p)' = "answered"
    <2>1. p \in Posted' /\ ~b_disk'[p]
      BY <1>1, <1>2, <1>3
    <2>2. QED
      BY <2>1 DEF Phase
  <1>6. \A q \in Procs : q # p => Phase(q)' = Phase(q)
    <2> SUFFICES ASSUME NEW q \in Procs, q # p PROVE Phase(q)' = Phase(q)
      OBVIOUS
    <2>1. q \in Posted => Head1(q) # Head1(p)
      BY <1>2, HeadsDiffer DEF DriverInv, Posted
    <2>2. QED
      BY <1>1, <1>3, <2>1, SamePhase
  <1>7. Service!Answer(p)
    BY <1>2, <1>4, <1>5, <1>6, OneMoves DEF Service!Answer, Service!Goes
  <1>8. QED
    BY <1>2, <1>7

LEMMA ReturnPhase ==
  ASSUME DriverInv, NEW p \in Procs, Return(p)
  PROVE  Service!Return(p)
  <1>1. /\ InUsed' = InUsed /\ p \in Posted /\ Posted' = Posted \ {p} /\ ~b_disk[p]
        /\ b_disk' = b_disk /\ \A q \in Procs : q # p => Head1(q)' = Head1(q)
    BY ReturnRings DEF DriverInv
  <1>2. Phase(p) = "answered"
    BY <1>1, PhaseIs
  <1>3. Phase(p)' = "none"
    BY <1>1 DEF Phase
  <1>4. \A q \in Procs : q # p => Phase(q)' = Phase(q)
    BY <1>1, SamePhase
  <1>5. QED
    BY <1>2, <1>3, <1>4, OneMoves DEF Service!Return, Service!Goes

LEMMA ServiceStep ==
  ASSUME DriverInv, DriverInv', [Next]_vars
  PROVE  [Service!Next]_[p \in Procs |-> Phase(p)]
  <1>1. Posted \subseteq InCall /\ InCall \subseteq Procs
    BY DEF Posted, InCall
  <1>2. ASSUME \/ Idles \/ DeviceTakes
               \/ \E p \in Procs : Describe(p)
        PROVE  [p \in Procs |-> Phase(p)]' = [p \in Procs |-> Phase(p)]
    <2>1. /\ InUsed' = InUsed /\ Posted' = Posted
          /\ \A q \in Posted : b_disk'[q] = b_disk[q] /\ Head1(q)' = Head1(q)
      <3>1. CASE Idles
        BY <1>1, <3>1, IdleRings DEF DriverInv
      <3>2. CASE DeviceTakes
        BY <3>2, TakesRings DEF DriverInv, DeviceTakes, driver, Posted, InCall, Head1
      <3>3. CASE \E p \in Procs : Describe(p)
        BY <3>3, DescribeRings DEF DriverInv
      <3>4. QED
        BY <1>2, <3>1, <3>2, <3>3
    <2>2. \A q \in Procs : Phase(q)' = Phase(q)
      BY <2>1, SamePhase
    <2>3. QED
      BY <2>2
  <1>3. ASSUME NEW p \in Procs, Post(p) \/ Return(p) PROVE Service!Next
    BY <1>3, PostPhase, ReturnPhase DEF Service!Next
  <1>4. ASSUME AnswerOne \/ \E head \in Indices : DeviceCompletes(head) PROVE Service!Next
    BY <1>4, AnswerPhase, CompletesPhase DEF Service!Next
  <1>5. QED
    BY <1>2, <1>3, <1>4, StepKinds

(* The driver keeps what it promises its callers: each call of             *)
(* virtio_disk_ext4_rw is served by the device, then answered by the       *)
(* handler, and only then returns, each once.                              *)
THEOREM Refinement == Spec => ImplementsDiskService
  <1>1. Init => Service!Init
    <2> SUFFICES ASSUME Init PROVE Service!Init
      OBVIOUS
    <2>1. Posted = {}
      BY DEF Init, Posted, InCall
    <2>2. \A p \in Procs : Phase(p) = "none"
      BY <2>1, PhaseIs
    <2>3. QED
      BY <2>2 DEF Service!Init
  <1>2. DriverInv /\ DriverInv' /\ [Next]_vars => [Service!Next]_[p \in Procs |-> Phase(p)]
    BY ServiceStep
  <1>3. QED
    BY <1>1, <1>2, DriverAlways, PTL DEF Spec, ImplementsDiskService, Service!Spec
=============================================================================
