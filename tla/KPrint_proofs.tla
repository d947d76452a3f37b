---------------------------- MODULE KPrint_proofs ----------------------------
(***************************************************************************)
(* For every size of memory and of a word, every contents and every call   *)
(* that PrintNext makes: the block functions write the block they should   *)
(* and nothing else, the string functions read and build the strings they  *)
(* should, printf prints every format piece by piece, and every number it  *)
(* prints reads back.                                                      *)
(*                                                                         *)
(* These are properties of one call, so CallInv is all that is needed of   *)
(* the states: a call finds the memory that before holds. The work is in   *)
(* the functions. Each loop of string.cpp is a recursive function here,    *)
(* and is given a closed form: a copy, in whatever order and by words or   *)
(* bytes, is Moved; a walk along a string ends where WalkEnds says; the    *)
(* walk along a format makes the meaning of a piece and then what it makes *)
(* of the rest (PieceWalked); the digits of a number are those of its      *)
(* quotient and one more (DigitsAreDecimal). The recursive functions are   *)
(* shown to exist, and the closed forms to hold, by SetInduction.          *)
(***************************************************************************)
EXTENDS KPrint, SequenceTheorems, WellFoundedInduction, TLAPS

-----------------------------------------------------------------------------
(* Induction on natural numbers, for a set in the place of a predicate. *)
LEMMA SetInduction ==
  ASSUME NEW S \in SUBSET Nat, 0 \in S, \A n \in S : n + 1 \in S
  PROVE  \A n \in Nat : n \in S
  <1> DEFINE T == Nat \ S
             R == OpToRel(<, Nat)
  <1> SUFFICES ASSUME T # {} PROVE FALSE
    OBVIOUS
  <1>1. IsWellFoundedOn(R, Nat)
    BY NatLessThanWellFounded
  <1>2. \A a, b \in Nat : a < b => <<a, b>> \in R
    BY DEF OpToRel
  <1> HIDE DEF R
  <1>3. PICK x \in T : \A y \in T : ~(<<y, x>> \in R)
    BY <1>1, WFMin
  <1>4. x \in Nat /\ x # 0 /\ x - 1 \in Nat /\ x - 1 < x /\ x - 1 + 1 = x
    BY <1>3
  <1>5. x - 1 \in S
    BY <1>2, <1>3, <1>4
  <1>6. QED
    BY <1>3, <1>4, <1>5

(* Min is the least element of a set that has one ... *)
LEMMA MinIs ==
  ASSUME NEW S \in SUBSET Int, NEW x \in S, \A y \in S : x <= y
  PROVE  Min(S) = x
  <1>1. \A z \in S : (\A y \in S : z <= y) => z = x
    OBVIOUS
  <1>2. QED
    BY <1>1, Zenon DEF Min

(* ... and a set of natural numbers that is not empty has one. *)
LEMMA MinExists ==
  ASSUME NEW S \in SUBSET Nat, S # {}
  PROVE  Min(S) \in S /\ \A y \in S : Min(S) <= y
  <1> DEFINE R == OpToRel(<, Nat)
  <1>1. IsWellFoundedOn(R, Nat)
    BY NatLessThanWellFounded
  <1>2. \A a, b \in Nat : a < b => <<a, b>> \in R
    BY DEF OpToRel
  <1> HIDE DEF R
  <1>3. PICK x \in S : \A y \in S : ~(<<y, x>> \in R)
    BY <1>1, WFMin
  <1>4. ASSUME NEW y \in S PROVE x <= y
    <2>1. x \in Nat /\ y \in Nat
      OBVIOUS
    <2>2. ~(y < x)
      BY <1>2, <1>3, <2>1
    <2>3. QED
      BY <2>1, <2>2
  <1>5. Min(S) = x
    BY <1>4, MinIs
  <1>6. QED
    BY <1>4, <1>5

(* A walk through memory as the string functions take it: on from the      *)
(* addresses in Go, to an answer at the others.  There is a function that  *)
(* its definition defines,                                                 *)
Walk(Go, v, f) == [a \in 0 .. SIZE |-> IF a \in Go THEN f[a + 1] ELSE v[a]]

LEMMA WalkExists ==
  ASSUME NEW Go \in SUBSET Addrs, NEW v
  PROVE  \E f : f = Walk(Go, v, f)
  <1> DEFINE Stops(a) == { b \in a .. SIZE : b \notin Go }
             g == [a \in 0 .. SIZE |-> v[Min(Stops(a))]]
  <1>1. SIZE \in Nat
    BY MemoryAssumption
  <1>2. ASSUME NEW a \in 0 .. SIZE PROVE g[a] = IF a \in Go THEN g[a + 1] ELSE v[a]
    <2>1. CASE a \in Go
      <3>1. a + 1 \in 0 .. SIZE /\ Stops(a) = Stops(a + 1)
        BY <1>1, <2>1 DEF Addrs
      <3> HIDE DEF Stops
      <3>2. QED
        BY <2>1, <3>1
    <2>2. CASE a \notin Go
      <3>1. Stops(a) \in SUBSET Int /\ a \in Stops(a) /\ \A y \in Stops(a) : a <= y
        BY <1>1, <2>2
      <3> HIDE DEF Stops
      <3>2. Min(Stops(a)) = a
        BY <3>1, MinIs
      <3>3. QED
        BY <2>2, <3>2
    <2>3. QED
      BY <2>1, <2>2
  <1>3. g = [a \in 0 .. SIZE |-> g[a]]
    OBVIOUS
  <1> HIDE DEF g
  <1>4. g = Walk(Go, v, g)
    BY <1>2, <1>3 DEF Walk
  <1>5. QED
    BY <1>4

(* and it gives the answer at the first address where the walk stops. *)
LEMMA WalkEnds ==
  ASSUME NEW Go \in SUBSET Addrs, NEW v, NEW f, f = Walk(Go, v, f),
         NEW a \in 0 .. SIZE, NEW e \in a .. SIZE, e \notin Go, a .. e - 1 \subseteq Go
  PROVE  f[a] = v[e]
  <1> DEFINE S == { n \in Nat : n <= e - a => f[e - n] = v[e] }
  <1>1. SIZE \in Nat
    BY MemoryAssumption
  <1>2. \A b \in 0 .. SIZE : f[b] = IF b \in Go THEN f[b + 1] ELSE v[b]
    BY DEF Walk
  <1>3. 0 \in S
    <2>1. e \in 0 .. SIZE /\ e - 0 = e
      BY <1>1
    <2>2. f[e] = v[e]
      BY <1>2, <2>1
    <2>3. QED
      BY <2>1, <2>2
  <1>4. ASSUME NEW n \in S PROVE n + 1 \in S
    <2> SUFFICES ASSUME n + 1 <= e - a PROVE f[e - (n + 1)] = v[e]
      OBVIOUS
    <2>1. e - (n + 1) \in 0 .. SIZE /\ e - (n + 1) \in Go /\ e - (n + 1) + 1 = e - n /\ n <= e - a
      BY <1>1
    <2>2. f[e - (n + 1)] = f[e - n]
      BY <1>2, <2>1
    <2>3. QED
      BY <2>1, <2>2
  <1>5. \A n \in Nat : n \in S
    <2>1. S \in SUBSET Nat
      OBVIOUS
    <2> HIDE DEF S
    <2>2. QED
      BY <1>3, <1>4, <2>1, SetInduction
  <1>6. e - a \in Nat /\ e - (e - a) = a
    BY <1>1
  <1>7. QED
    BY <1>5, <1>6

-----------------------------------------------------------------------------
(* Blocks of bytes.  m holds in d what it held in s. *)
Memories == [Addrs -> Nat]

Moved(m, d, s, k) == [a \in Addrs |-> IF a \in Span(d, k) THEN m[s + a - d] ELSE m[a]]

LEMMA MovedIsMemory ==
  ASSUME NEW m \in Memories, NEW d \in Int, NEW s \in Int, NEW k \in Int, Span(s, k) \subseteq Addrs
  PROVE  Moved(m, d, s, k) \in Memories
  <1>1. SIZE \in Nat
    BY MemoryAssumption
  <1>2. ASSUME NEW a \in Addrs PROVE (IF a \in Span(d, k) THEN m[s + a - d] ELSE m[a]) \in Nat
    <2>1. a \in Span(d, k) => s + a - d \in Span(s, k)
      BY <1>1 DEF Span, Addrs
    <2>2. a \in Span(d, k) => s + a - d \in Addrs
      BY <2>1
    <2>3. QED
      BY <2>2 DEF Memories
  <1>3. QED
    BY <1>2 DEF Moved, Memories

(* The forward loop moves a block when no byte is written before it is     *)
(* read.                                                                   *)
LEMMA ForwardMoves ==
  ASSUME NEW m \in Memories, NEW d \in Nat, NEW s \in Nat, NEW k \in Nat,
         Span(d, k) \subseteq Addrs, Span(s, k) \subseteq Addrs, d <= s \/ s + k <= d
  PROVE  Forward(m, d, s, k) = Moved(m, d, s, k)
  <1> DEFINE D(f) == [i \in 0 .. k |->
                       IF i = 0 THEN m ELSE [f[i - 1] EXCEPT ![d + i - 1] = f[i - 1][s + i - 1]]]
             f == CHOOSE f : f = D(f)
             g == [i \in 0 .. k |-> Moved(m, d, s, i)]
  <1>1. Forward(m, d, s, k) = f[k]
    BY DEF Forward
  <1>2. SIZE \in Nat
    BY MemoryAssumption
  <1>3. Moved(m, d, s, 0) = m
    <2>1. Span(d, 0) = {}
      BY DEF Span
    <2>2. Moved(m, d, s, 0) = [a \in Addrs |-> m[a]]
      BY <2>1 DEF Moved
    <2>3. QED
      BY <2>2 DEF Memories
  <1>4. ASSUME NEW i \in 0 .. k, i # 0
        PROVE  Moved(m, d, s, i) =
                 [Moved(m, d, s, i - 1) EXCEPT ![d + i - 1] = Moved(m, d, s, i - 1)[s + i - 1]]
    <2> DEFINE old == Moved(m, d, s, i - 1)
               new == Moved(m, d, s, i)
               at  == d + i - 1
    <2>1. at \in Addrs /\ s + i - 1 \in Addrs
      <3>1. 1 <= i /\ i <= k
        BY <1>4
      <3>2. d <= at /\ at <= d + k - 1 /\ s <= s + i - 1 /\ s + i - 1 <= s + k - 1
        BY <3>1
      <3>3. at \in Span(d, k) /\ s + i - 1 \in Span(s, k)
        BY <3>2 DEF Span
      <3>4. QED
        BY <3>3
    <2>2. old[s + i - 1] = m[s + i - 1]
      <3>1. s + i - 1 \notin Span(d, i - 1)
        BY DEF Span
      <3>2. QED
        BY <2>1, <3>1 DEF Moved
    <2>3. ASSUME NEW a \in Addrs PROVE new[a] = IF a = at THEN m[s + i - 1] ELSE old[a]
      <3>1. a \in Int
        BY <1>2 DEF Addrs
      <3>2. a \in Span(d, i) <=> a \in Span(d, i - 1) \/ a = at
        <4>1. 1 <= i
          BY <1>4
        <4>2. (d <= a /\ a <= d + i - 1) <=> (d <= a /\ a <= d + (i - 1) - 1) \/ a = at
          BY <3>1, <4>1
        <4>3. QED
          BY <3>1, <4>2 DEF Span
      <3>3. a = at => a \notin Span(d, i - 1) /\ s + a - d = s + i - 1
        BY <3>1 DEF Span
      <3>4. new[a] = IF a \in Span(d, i) THEN m[s + a - d] ELSE m[a]
        BY DEF Moved
      <3>5. old[a] = IF a \in Span(d, i - 1) THEN m[s + a - d] ELSE m[a]
        BY DEF Moved
      <3> HIDE DEF old, new, at
      <3>6. QED
        BY <3>2, <3>3, <3>4, <3>5
    <2>4. old = [a \in Addrs |-> old[a]] /\ new = [a \in Addrs |-> new[a]]
      BY DEF Moved
    <2> HIDE DEF old, new, at
    <2>5. new = [old EXCEPT ![at] = old[s + i - 1]]
      BY <2>1, <2>2, <2>3, <2>4
    <2>6. QED
      BY <2>5 DEF old, new, at
  <1>5. g = D(g)
    <2>1. ASSUME NEW i \in 0 .. k
          PROVE  g[i] = IF i = 0 THEN m ELSE [g[i - 1] EXCEPT ![d + i - 1] = g[i - 1][s + i - 1]]
      <3>1. i # 0 => i - 1 \in 0 .. k
        OBVIOUS
      <3>2. g[i] = Moved(m, d, s, i) /\ (i # 0 => g[i - 1] = Moved(m, d, s, i - 1))
        BY <3>1
      <3> HIDE DEF g
      <3>3. QED
        BY <1>3, <1>4, <3>2
    <2>2. g = [i \in 0 .. k |-> g[i]]
      OBVIOUS
    <2> HIDE DEF g
    <2>3. QED
      BY <2>1, <2>2
  <1> HIDE DEF g
  <1>6. f = D(f)
    BY <1>5, Zenon
  <1> DEFINE S == { n \in Nat : n <= k => f[n] = Moved(m, d, s, n) }
  <1>7. \A i \in 0 .. k : f[i] = IF i = 0 THEN m ELSE [f[i - 1] EXCEPT ![d + i - 1] = f[i - 1][s + i - 1]]
    <2>1. \A h : h = D(h) =>
            \A i \in 0 .. k : h[i] = IF i = 0 THEN m ELSE [h[i - 1] EXCEPT ![d + i - 1] = h[i - 1][s + i - 1]]
      OBVIOUS
    <2>2. QED
      BY <1>6, <2>1, Zenon
  <1> HIDE DEF f
  <1>8. 0 \in S
    <2>1. 0 \in 0 .. k
      OBVIOUS
    <2>2. f[0] = m
      BY <1>7, <2>1, Zenon
    <2>3. QED
      BY <1>3, <2>2
  <1>9. ASSUME NEW n \in S PROVE n + 1 \in S
    <2> SUFFICES ASSUME n + 1 <= k PROVE f[n + 1] = Moved(m, d, s, n + 1)
      OBVIOUS
    <2>1. n + 1 \in 0 .. k /\ n + 1 # 0 /\ n + 1 - 1 = n /\ n <= k
      OBVIOUS
    <2>2. f[n] = Moved(m, d, s, n)
      BY <2>1
    <2>3. f[n + 1] = [f[n] EXCEPT ![d + (n + 1) - 1] = f[n][s + (n + 1) - 1]]
      BY <1>7, <2>1
    <2>4. QED
      BY <1>4, <2>1, <2>2, <2>3
  <1>10. \A n \in Nat : n \in S
    <2>1. S \in SUBSET Nat
      OBVIOUS
    <2> HIDE DEF S
    <2>2. QED
      BY <1>8, <1>9, <2>1, SetInduction
  <1>11. QED
    BY <1>1, <1>10

(* And the backward loop, when the destination is behind the source: after *)
(* i bytes it has moved the last i of them.                                *)
LEMMA BackwardMoves ==
  ASSUME NEW m \in Memories, NEW d \in Nat, NEW s \in Nat, NEW k \in Nat,
         Span(d, k) \subseteq Addrs, Span(s, k) \subseteq Addrs, s < d
  PROVE  Backward(m, d, s, k) = Moved(m, d, s, k)
  <1> DEFINE D(f) == [i \in 0 .. k |->
                       IF i = 0 THEN m ELSE [f[i - 1] EXCEPT ![d + k - i] = f[i - 1][s + k - i]]]
             f == CHOOSE f : f = D(f)
             Done(i) == Moved(m, d + k - i, s + k - i, i)
             g == [i \in 0 .. k |-> Done(i)]
  <1>1. Backward(m, d, s, k) = f[k]
    BY DEF Backward
  <1>2. SIZE \in Nat
    BY MemoryAssumption
  <1>3. Done(0) = m
    <2>1. Span(d + k - 0, 0) = {}
      BY DEF Span
    <2>2. Done(0) = [a \in Addrs |-> m[a]]
      BY <2>1 DEF Moved
    <2>3. QED
      BY <2>2 DEF Memories
  <1>4. ASSUME NEW i \in 0 .. k, i # 0
        PROVE  Done(i) = [Done(i - 1) EXCEPT ![d + k - i] = Done(i - 1)[s + k - i]]
    <2> DEFINE old == Done(i - 1)
               new == Done(i)
               at  == d + k - i
               from == s + k - i
    <2>1. at \in Addrs /\ from \in Addrs
      <3>1. 1 <= i /\ i <= k
        BY <1>4
      <3>2. d <= at /\ at <= d + k - 1 /\ s <= from /\ from <= s + k - 1
        BY <3>1
      <3>3. at \in Span(d, k) /\ from \in Span(s, k)
        BY <3>2 DEF Span
      <3>4. QED
        BY <3>3
    <2>2. old[from] = m[from]
      <3>1. from \notin Span(d + k - (i - 1), i - 1)
        BY DEF Span
      <3>2. QED
        BY <2>1, <3>1 DEF Moved
    <2>3. ASSUME NEW a \in Addrs PROVE new[a] = IF a = at THEN m[from] ELSE old[a]
      <3>1. a \in Int
        BY <1>2 DEF Addrs
      <3>2. a \in Span(d + k - i, i) <=> a \in Span(d + k - (i - 1), i - 1) \/ a = at
        <4>1. 1 <= i
          BY <1>4
        <4>2. (d + k - i <= a /\ a <= (d + k - i) + i - 1)
                <=> (d + k - (i - 1) <= a /\ a <= (d + k - (i - 1)) + (i - 1) - 1) \/ a = at
          BY <3>1, <4>1
        <4>3. QED
          BY <3>1, <4>2 DEF Span
      <3>3. a = at => a \notin Span(d + k - (i - 1), i - 1) /\ (s + k - i) + a - (d + k - i) = from
        BY <3>1 DEF Span
      <3>4. new[a] = IF a \in Span(d + k - i, i) THEN m[s + a - d] ELSE m[a]
        <4>1. (s + k - i) + a - (d + k - i) = s + a - d
          BY <3>1
        <4>2. new[a] = IF a \in Span(d + k - i, i) THEN m[(s + k - i) + a - (d + k - i)] ELSE m[a]
          BY DEF Moved
        <4>3. QED
          BY <4>1, <4>2, Zenon
      <3>5. old[a] = IF a \in Span(d + k - (i - 1), i - 1) THEN m[s + a - d] ELSE m[a]
        <4>1. (s + k - (i - 1)) + a - (d + k - (i - 1)) = s + a - d
          BY <3>1
        <4>2. old[a] = IF a \in Span(d + k - (i - 1), i - 1)
                       THEN m[(s + k - (i - 1)) + a - (d + k - (i - 1))] ELSE m[a]
          BY DEF Moved
        <4>3. QED
          BY <4>1, <4>2, Zenon
      <3>6. a = at => s + a - d = from
        BY <3>1
      <3> HIDE DEF old, new, at, from
      <3>7. QED
        BY <3>2, <3>3, <3>4, <3>5, <3>6
    <2>4. old = [a \in Addrs |-> old[a]] /\ new = [a \in Addrs |-> new[a]]
      BY DEF Moved
    <2> HIDE DEF old, new, at, from
    <2>5. new = [old EXCEPT ![at] = old[from]]
      BY <2>1, <2>2, <2>3, <2>4
    <2>6. QED
      BY <2>5 DEF old, new, at, from
  <1>5. g = D(g)
    <2>1. ASSUME NEW i \in 0 .. k
          PROVE  g[i] = IF i = 0 THEN m ELSE [g[i - 1] EXCEPT ![d + k - i] = g[i - 1][s + k - i]]
      <3>1. i # 0 => i - 1 \in 0 .. k
        OBVIOUS
      <3>2. g[i] = Done(i) /\ (i # 0 => g[i - 1] = Done(i - 1))
        BY <3>1
      <3> HIDE DEF g, Done
      <3>3. QED
        BY <1>3, <1>4, <3>2
    <2>2. g = [i \in 0 .. k |-> g[i]]
      OBVIOUS
    <2> HIDE DEF g
    <2>3. QED
      BY <2>1, <2>2
  <1> HIDE DEF g
  <1>6. f = D(f)
    BY <1>5, Zenon
  <1> DEFINE S == { n \in Nat : n <= k => f[n] = Done(n) }
  <1>7. \A i \in 0 .. k : f[i] = IF i = 0 THEN m ELSE [f[i - 1] EXCEPT ![d + k - i] = f[i - 1][s + k - i]]
    <2>1. \A h : h = D(h) =>
            \A i \in 0 .. k : h[i] = IF i = 0 THEN m ELSE [h[i - 1] EXCEPT ![d + k - i] = h[i - 1][s + k - i]]
      OBVIOUS
    <2>2. QED
      BY <1>6, <2>1, Zenon
  <1> HIDE DEF f, Done
  <1>8. 0 \in S
    <2>1. 0 \in 0 .. k
      OBVIOUS
    <2>2. f[0] = m
      BY <1>7, <2>1, Zenon
    <2>3. QED
      BY <1>3, <2>2
  <1>9. ASSUME NEW n \in S PROVE n + 1 \in S
    <2> SUFFICES ASSUME n + 1 <= k PROVE f[n + 1] = Done(n + 1)
      OBVIOUS
    <2>1. n + 1 \in 0 .. k /\ n + 1 # 0 /\ n + 1 - 1 = n /\ n <= k
      OBVIOUS
    <2>2. f[n] = Done(n)
      BY <2>1
    <2>3. f[n + 1] = [f[n] EXCEPT ![d + k - (n + 1)] = f[n][s + k - (n + 1)]]
      BY <1>7, <2>1
    <2>4. QED
      BY <1>4, <2>1, <2>2, <2>3
  <1>10. \A n \in Nat : n \in S
    <2>1. S \in SUBSET Nat
      OBVIOUS
    <2> HIDE DEF S
    <2>2. QED
      BY <1>8, <1>9, <2>1, SetInduction
  <1>11. f[k] = Done(k) /\ d + k - k = d /\ s + k - k = s
    BY <1>10
  <1>12. QED
    BY <1>1, <1>11 DEF Done

LEMMA memmoveMoves ==
  ASSUME NEW m \in Memories, NEW d \in Nat, NEW s \in Nat, NEW n \in Nat,
         Span(d, n) \subseteq Addrs, Span(s, n) \subseteq Addrs
  PROVE  memmove(m, d, s, n) = Moved(m, d, s, n)
  <1>1. CASE s < d /\ s + n > d
    BY <1>1, BackwardMoves DEF memmove
  <1>2. CASE ~(s < d /\ s + n > d)
    <2>1. d <= s \/ s + n <= d
      BY <1>2
    <2>2. Forward(m, d, s, n) = Moved(m, d, s, n)
      BY <2>1, ForwardMoves
    <2>3. QED
      BY <1>2, <2>2 DEF memmove
  <1>3. QED
    BY <1>1, <1>2

(* Blocks apart: what the forward loop needs, in numbers. *)
LEMMA ApartBlocks ==
  ASSUME NEW d \in Nat, NEW s \in Nat, NEW k \in Nat, Apart(d, k, s, k)
  PROVE  /\ Span(d, k) \subseteq Addrs /\ Span(s, k) \subseteq Addrs
         /\ d <= s \/ s + k <= d
  <1>1. Span(d, k) \subseteq Addrs /\ Span(s, k) \subseteq Addrs /\ Span(d, k) \cap Span(s, k) = {}
    BY DEF Apart
  <1>2. ASSUME s < d, d < s + k PROVE FALSE
    <2>1. d \in Span(d, k) /\ d \in Span(s, k)
      BY <1>2 DEF Span
    <2>2. QED
      BY <1>1, <2>1
  <1>3. QED
    BY <1>1, <1>2

(* memcpy by words and then by bytes. *)
LEMMA memcpyMoves ==
  ASSUME NEW m \in Memories, NEW d \in Nat, NEW s \in Nat, NEW n \in Nat, Apart(d, n, s, n)
  PROVE  memcpy(m, d, s, n) = Moved(m, d, s, n)
  <1> DEFINE w == IF Aligned(d) /\ Aligned(s) THEN WORD * (n \div WORD) ELSE 0
             half == Moved(m, d, s, w)
  <1>1. SIZE \in Nat /\ WORD \in Nat /\ WORD > 0
    BY MemoryAssumption
  <1>2. w \in 0 .. n
    <2>1. n \div WORD \in Nat /\ WORD * (n \div WORD) <= n
      BY <1>1
    <2>2. WORD * (n \div WORD) \in Nat
      BY <1>1, <2>1
    <2>3. QED
      BY <2>1, <2>2
  <1>3. memcpy(m, d, s, n) = Forward(Forward(m, d, s, w), d + w, s + w, n - w)
    BY DEF memcpy
  <1> HIDE DEF w
  <1>4. w \in Nat /\ n - w \in Nat /\ d + w \in Nat /\ s + w \in Nat
    BY <1>2
  <1>5. Span(d, n) \subseteq Addrs /\ Span(s, n) \subseteq Addrs /\ (d <= s \/ s + n <= d)
    BY ApartBlocks
  <1>6. Span(d, w) \subseteq Span(d, n) /\ Span(s, w) \subseteq Span(s, n)
    BY <1>2 DEF Span
  <1>7. Span(d + w, n - w) \subseteq Span(d, n) /\ Span(s + w, n - w) \subseteq Span(s, n)
    BY <1>2 DEF Span
  <1>8. (d <= s \/ s + w <= d) /\ (d + w <= s + w \/ (s + w) + (n - w) <= d + w)
    BY <1>2, <1>5
  <1>9. Span(d, w) \subseteq Addrs /\ Span(s, w) \subseteq Addrs
    BY <1>5, <1>6
  <1>10. Span(d + w, n - w) \subseteq Addrs /\ Span(s + w, n - w) \subseteq Addrs
    BY <1>5, <1>7
  <1>11. Forward(m, d, s, w) = half
    BY <1>4, <1>8, <1>9, ForwardMoves
  <1>12. half \in Memories
    BY <1>4, <1>9, MovedIsMemory
  <1>13. Forward(half, d + w, s + w, n - w) = Moved(half, d + w, s + w, n - w)
    <2> HIDE DEF half
    <2>1. QED
      BY <1>4, <1>8, <1>10, <1>12, ForwardMoves
  <1>14. ASSUME NEW a \in Addrs
         PROVE  (IF a \in Span(d + w, n - w) THEN half[(s + w) + a - (d + w)] ELSE half[a])
                  = IF a \in Span(d, n) THEN m[s + a - d] ELSE m[a]
    <2>1. a \in Int /\ (s + w) + a - (d + w) = s + a - d
      BY <1>1, <1>4 DEF Addrs
    <2>2. a \in Span(d, n) <=> a \in Span(d, w) \/ a \in Span(d + w, n - w)
      BY <1>2, <2>1 DEF Span
    <2>3. a \in Span(d + w, n - w) => a \notin Span(d, w) /\ s + a - d \in Span(s, n) /\ s + a - d \notin Span(d, w)
      BY <1>2, <1>5, <2>1 DEF Span
    <2>4. a \in Span(d + w, n - w) => half[s + a - d] = m[s + a - d]
      BY <1>5, <2>3 DEF Moved
    <2>5. half[a] = IF a \in Span(d, w) THEN m[s + a - d] ELSE m[a]
      BY DEF Moved
    <2> HIDE DEF half
    <2>6. QED
      BY <2>1, <2>2, <2>3, <2>4, <2>5
  <1>15. Moved(half, d + w, s + w, n - w) = Moved(m, d, s, n)
    <2> HIDE DEF half
    <2>1. QED
      BY <1>14 DEF Moved
  <1>16. QED
    BY <1>3, <1>11, <1>13, <1>15

LEMMA ModQuotient ==
  ASSUME NEW n \in Nat, n > 0, NEW a \in Int
  PROVE  \E q \in Int : a = q * n + (a % n)
  OBVIOUS

LEMMA ModRange ==
  ASSUME NEW n \in Nat, n > 0, NEW a \in Int
  PROVE  a % n \in 0 .. n - 1
  OBVIOUS

LEMMA DivUnique ==
  ASSUME NEW n \in Nat, n > 0, NEW a \in Int, NEW q \in Int, NEW r \in 0 .. n - 1,
         a = q * n + r
  PROVE  a \div n = q
  OBVIOUS

(* Stores of a unit whose bytes are all the same, one behind the other,    *)
(* fill the block that they make up.                                       *)
Filling(m, d, v, k) == [a \in Addrs |-> IF a \in Span(d, k) THEN v ELSE m[a]]

LEMMA StoreFills ==
  ASSUME NEW m \in Memories, NEW d \in Nat
  PROVE  \A size, n \in Nat : \A unit, v :
           (\A i \in 0 .. size - 1 : unit[i] = v)
             => Store(m, d, unit, size, n) = Filling(m, d, v, size * n)
  <1> SUFFICES ASSUME NEW size \in Nat, NEW n \in Nat, NEW unit, NEW v,
                      \A i \in 0 .. size - 1 : unit[i] = v
               PROVE  Store(m, d, unit, size, n) = Filling(m, d, v, size * n)
    OBVIOUS
  <1> DEFINE Put(old, i) ==
               LET at == d + size * (i - 1)
               IN  [a \in Addrs |-> IF a - at \in 0 .. size - 1 THEN unit[a - at] ELSE old[a]]
             D(f) == [i \in 0 .. n |-> IF i = 0 THEN m ELSE Put(f[i - 1], i)]
             f == CHOOSE f : f = D(f)
             g == [i \in 0 .. n |-> Filling(m, d, v, size * i)]
  <1>1. Store(m, d, unit, size, n) = f[n]
    BY DEF Store
  <1>2. SIZE \in Nat
    BY MemoryAssumption
  <1>3. Filling(m, d, v, size * 0) = m
    <2>1. Span(d, size * 0) = {}
      BY DEF Span
    <2>2. Filling(m, d, v, size * 0) = [a \in Addrs |-> m[a]]
      BY <2>1 DEF Filling
    <2>3. QED
      BY <2>2 DEF Memories
  <1>4. ASSUME NEW i \in 0 .. n, i # 0
        PROVE  Filling(m, d, v, size * i) = Put(Filling(m, d, v, size * (i - 1)), i)
    <2> DEFINE at  == d + size * (i - 1)
               old == Filling(m, d, v, size * (i - 1))
    <2>1. i - 1 \in Nat /\ size * (i - 1) \in Nat /\ size * i = size * (i - 1) + size
      BY <1>4
    <2>2. at \in Nat /\ d <= at
      BY <2>1
    <2>3. ASSUME NEW a \in Addrs
          PROVE  (IF a \in Span(d, size * i) THEN v ELSE m[a])
                   = IF a - at \in 0 .. size - 1 THEN unit[a - at] ELSE old[a]
      <3>1. a \in Int
        BY <1>2 DEF Addrs
      <3>2. a \in Span(d, size * (i - 1)) <=> d <= a /\ a < at
        BY <2>1, <3>1 DEF Span
      <3>3. a \in Span(d, size * i) <=> d <= a /\ a < at + size
        <4>1. d + size * i = at + size /\ size * i \in Nat
          BY <2>1
        <4>2. QED
          BY <2>2, <3>1, <4>1 DEF Span
      <3>4. a - at \in 0 .. size - 1 <=> at <= a /\ a < at + size
        BY <2>2, <3>1
      <3>5. a - at \in 0 .. size - 1 => unit[a - at] = v
        OBVIOUS
      <3>6. old[a] = IF a \in Span(d, size * (i - 1)) THEN v ELSE m[a]
        BY DEF Filling
      <3> HIDE DEF at, old
      <3>7. QED
        BY <2>2, <3>1, <3>2, <3>3, <3>4, <3>5, <3>6
    <2>4. Put(old, i) = [a \in Addrs |-> IF a - at \in 0 .. size - 1 THEN unit[a - at] ELSE old[a]]
      OBVIOUS
    <2> HIDE DEF at, old
    <2>5. Filling(m, d, v, size * i) = Put(old, i)
      BY <2>3, <2>4 DEF Filling
    <2>6. QED
      BY <2>5 DEF old
  <1> HIDE DEF Put
  <1>5. g = D(g)
    <2>1. ASSUME NEW i \in 0 .. n
          PROVE  g[i] = IF i = 0 THEN m ELSE Put(g[i - 1], i)
      <3>1. i # 0 => i - 1 \in 0 .. n
        OBVIOUS
      <3>2. g[i] = Filling(m, d, v, size * i)
            /\ (i # 0 => g[i - 1] = Filling(m, d, v, size * (i - 1)))
        BY <3>1
      <3> HIDE DEF g
      <3>3. CASE i = 0
        BY <1>3, <3>2, <3>3, Zenon
      <3>4. CASE i # 0
        BY <1>4, <3>2, <3>4, Zenon
      <3>5. QED
        BY <3>3, <3>4, Zenon
    <2>2. g = [i \in 0 .. n |-> g[i]]
      OBVIOUS
    <2> HIDE DEF g
    <2>3. QED
      BY <2>1, <2>2
  <1> HIDE DEF g
  <1>6. f = D(f)
    BY <1>5, Zenon
  <1>7. \A i \in 0 .. n : f[i] = IF i = 0 THEN m ELSE Put(f[i - 1], i)
    <2>1. \A h : h = D(h) => \A i \in 0 .. n : h[i] = IF i = 0 THEN m ELSE Put(h[i - 1], i)
      OBVIOUS
    <2>2. QED
      BY <1>6, <2>1, Zenon
  <1> HIDE DEF f
  <1> DEFINE S == { i \in Nat : i <= n => f[i] = Filling(m, d, v, size * i) }
  <1>8. 0 \in S
    <2>1. 0 \in 0 .. n
      OBVIOUS
    <2>2. f[0] = m
      BY <1>7, <2>1, Zenon
    <2>3. f[0] = Filling(m, d, v, size * 0)
      BY <1>3, <2>2, Zenon
    <2>4. QED
      BY <2>3
  <1>9. ASSUME NEW i \in S PROVE i + 1 \in S
    <2> SUFFICES ASSUME i + 1 <= n PROVE f[i + 1] = Filling(m, d, v, size * (i + 1))
      OBVIOUS
    <2>1. i + 1 \in 0 .. n /\ i + 1 # 0 /\ i + 1 - 1 = i /\ i <= n
      OBVIOUS
    <2>2. f[i] = Filling(m, d, v, size * i)
      BY <2>1
    <2>3. f[i + 1] = Put(f[i], i + 1)
      BY <1>7, <2>1
    <2>4. Filling(m, d, v, size * (i + 1)) = Put(Filling(m, d, v, size * i), i + 1)
      <3> DEFINE j == i + 1
      <3>1. j \in 0 .. n /\ j # 0
        BY <2>1
      <3>2. j - 1 = i
        OBVIOUS
      <3> HIDE DEF j
      <3>3. Filling(m, d, v, size * j) = Put(Filling(m, d, v, size * (j - 1)), j)
        BY <1>4, <3>1
      <3>4. Filling(m, d, v, size * j) = Put(Filling(m, d, v, size * i), j)
        BY <3>2, <3>3
      <3>5. QED
        BY <3>4 DEF j
    <2>5. QED
      BY <2>2, <2>3, <2>4, Zenon
  <1>10. \A i \in Nat : i \in S
    <2>1. S \in SUBSET Nat
      OBVIOUS
    <2> HIDE DEF S
    <2>2. QED
      BY <1>8, <1>9, <2>1, SetInduction
  <1>11. f[n] = Filling(m, d, v, size * n)
    BY <1>10
  <1>12. QED
    BY <1>1, <1>11, Zenon

(* Three shifts, by one, two and four bytes, reach every byte of a word.   *)
LEMMA ReplicatedIs ==
  ASSUME NEW b \in Int
  PROVE  \A i \in 0 .. WORD - 1 : Replicated(b)[i] = b % BYTE
  <1> DEFINE v == b % BYTE
             w1 == [i \in 0 .. WORD - 1 |-> IF i = 0 THEN v ELSE 0]
             w2 == OrShifted(w1, 1)
             w4 == OrShifted(w2, 2)
             w8 == OrShifted(w4, 4)
  <1>1. WORD \in Nat /\ WORD > 0 /\ WORD <= 8
    BY MemoryAssumption
  <1>2. Replicated(b) = w8
    BY DEF Replicated
  <1> HIDE DEF v
  <1>3. \A i \in 0 .. WORD - 1 : w1[i] = IF i = 0 THEN v ELSE 0
    OBVIOUS
  <1> HIDE DEF w1
  <1>4. \A i \in 0 .. WORD - 1 : w2[i] = IF i <= 1 THEN v ELSE 0
    BY <1>1, <1>3 DEF OrShifted
  <1> HIDE DEF w2
  <1>5. \A i \in 0 .. WORD - 1 : w4[i] = IF i <= 3 THEN v ELSE 0
    BY <1>1, <1>4 DEF OrShifted
  <1> HIDE DEF w4
  <1>6. \A i \in 0 .. WORD - 1 : w8[i] = v
    BY <1>1, <1>5 DEF OrShifted
  <1> HIDE DEF w8
  <1>7. QED
    BY <1>2, <1>6 DEF v

(* memset by words fills no more than the block when its length is a       *)
(* multiple of a word.                                                     *)
LEMMA memsetFills ==
  ASSUME NEW m \in Memories, NEW d \in Nat, NEW b \in Int, NEW n \in Nat
  PROVE  memset(m, d, b, n) = Filling(m, d, b % BYTE, n)
  <1> DEFINE words == (n + WORD - 1) \div WORD
             v == b % BYTE
  <1>1. WORD \in Nat /\ WORD > 0
    BY MemoryAssumption
  <1>2. ASSUME Aligned(n) PROVE WORD * words = n /\ words \in Nat
    <2>1. n % WORD = 0
      BY <1>2 DEF Aligned
    <2>2. PICK q \in Int : n = q * WORD + (n % WORD)
      BY <1>1, ModQuotient
    <2>3. n + WORD - 1 = q * WORD + (WORD - 1) /\ n = q * WORD /\ n = WORD * q
      BY <1>1, <2>1, <2>2
    <2>4. n + WORD - 1 \in Int /\ WORD - 1 \in 0 .. WORD - 1
      BY <1>1
    <2>5. words = q
      BY <1>1, <2>3, <2>4, DivUnique
    <2>6. q >= 0
      <3>1. q < 0 => WORD * q < 0
        BY <1>1
      <3>2. QED
        BY <2>3, <3>1
    <2> HIDE DEF words
    <2>7. QED
      BY <2>3, <2>5, <2>6
  <1> HIDE DEF v
  <1>3. \A size, k \in Nat : \A unit, w :
          (\A i \in 0 .. size - 1 : unit[i] = w)
            => Store(m, d, unit, size, k) = Filling(m, d, w, size * k)
    BY StoreFills, Zenon
  <1>4. CASE Aligned(d) /\ Aligned(n)
    <2>1. memset(m, d, b, n) = Store(m, d, Replicated(b), WORD, words)
      BY <1>4 DEF memset
    <2> HIDE DEF words
    <2>2. Store(m, d, Replicated(b), WORD, words) = Filling(m, d, v, WORD * words)
      <3>1. \A i \in 0 .. WORD - 1 : Replicated(b)[i] = v
        BY ReplicatedIs DEF v
      <3>2. WORD \in Nat /\ words \in Nat
        BY <1>1, <1>2, <1>4
      <3>3. QED
        BY <1>3, <3>1, <3>2, Zenon
    <2>3. QED
      <3>1. WORD * words = n
        BY <1>2, <1>4
      <3>2. QED
        BY <2>1, <2>2, <3>1, Zenon DEF v
  <1>5. CASE ~(Aligned(d) /\ Aligned(n))
    <2> DEFINE unit == [i \in {0} |-> v]
    <2>1. memset(m, d, b, n) = Store(m, d, unit, 1, n)
      BY <1>5 DEF memset, v
    <2>2. \A i \in 0 .. 1 - 1 : unit[i] = v
      OBVIOUS
    <2> HIDE DEF unit
    <2>3. Store(m, d, unit, 1, n) = Filling(m, d, v, 1 * n)
      <3>1. 1 \in Nat
        OBVIOUS
      <3>2. QED
        BY <1>3, <2>2, <3>1, Zenon
    <2>4. 1 * n = n
      OBVIOUS
    <2>5. QED
      BY <2>1, <2>3, <2>4 DEF v
  <1>6. QED
    BY <1>4, <1>5

LEMMA BlockOfMoved ==
  ASSUME NEW m \in Memories, NEW d \in Nat, NEW s \in Nat, NEW n \in Int, Span(d, n) \subseteq Addrs
  PROVE  /\ Block(Moved(m, d, s, n), d, n) = Block(m, s, n)
         /\ \A b \in Addrs \ Span(d, n) : Moved(m, d, s, n)[b] = m[b]
  <1>1. ASSUME NEW i \in 1 .. n PROVE Moved(m, d, s, n)[d + i - 1] = m[s + i - 1]
    <2>1. d + i - 1 \in Span(d, n) /\ s + (d + i - 1) - d = s + i - 1
      BY DEF Span
    <2>2. d + i - 1 \in Addrs
      BY <2>1
    <2>3. Moved(m, d, s, n)[d + i - 1] = m[s + (d + i - 1) - d]
      BY <2>1, <2>2, Zenon DEF Moved
    <2>4. QED
      BY <2>1, <2>3
  <1>2. \A b \in Addrs \ Span(d, n) : Moved(m, d, s, n)[b] = m[b]
    BY DEF Moved
  <1>3. QED
    BY <1>1, <1>2 DEF Block

-----------------------------------------------------------------------------
(* The one call of a behaviour finds memory as before has it. *)
CallInv ==
  /\ before \in [Addrs -> Bytes]
  /\ call = NoCall => mem = before

LEMMA InitCallInv == Init => CallInv
  BY DEF Init, CallInv

(* A step makes a call, and leaves before alone. *)
LEMMA CallsMade ==
  ASSUME PrintNext
  PROVE  /\ call = NoCall /\ before' = before
         /\ \/ \E d \in Addrs, s \in Addrs, n \in 0 .. SIZE : CopyBlock(d, s, n)
            \/ \E d \in Addrs, s \in Addrs, n \in Ints : CopyBounded(d, s, n)
            \/ \E d \in Addrs, s \in Addrs : CopyString(d, s) \/ Compare(d, s)
            \/ \E d \in Addrs, b \in Ints, n \in 0 .. SIZE : FillBlock(d, b, n)
            \/ \E d \in Addrs, ch \in Ints : FindChar(d, ch)
            \/ \E pieces : CallPrintf(pieces)
  <1>1. call = NoCall
    BY DEF PrintNext, Next
  <1>2. CASE Next
    <2>1. before' = before
      BY <1>2 DEF Next, CopyBlock, FillBlock, CopyString, CopyBounded, Compare, FindChar, Call
    <2>2. QED
      BY <1>1, <1>2, <2>1 DEF Next
  <1>3. CASE \E pieces : CallPrintf(pieces)
    BY <1>1, <1>3 DEF CallPrintf
  <1>4. QED
    BY <1>2, <1>3 DEF PrintNext

(* The operation of each. *)
LEMMA OpOf ==
  /\ \A d, s, n : CopyBlock(d, s, n) => call'.op \in {"memcpy", "memmove"}
  /\ \A d, s, n : CopyBounded(d, s, n) => call'.op = "safestrcpy"
  /\ \A d, s : CopyString(d, s) => call'.op \in {"strcpy", "strcat"}
  /\ \A d, s : Compare(d, s) => call'.op = "strcmp"
  /\ \A d, b, n : FillBlock(d, b, n) => call'.op = "memset"
  /\ \A d, ch : FindChar(d, ch) => call'.op = "strchr"
  /\ \A pieces : CallPrintf(pieces) => call'.op = "printf"
  BY DEF CopyBlock, FillBlock, CopyString, CopyBounded, Compare, FindChar, Call, CallPrintf

LEMMA MadeOnce ==
  ASSUME CallInv, [PrintNext]_vars
  PROVE  CallInv'
  <1>1. CASE PrintNext
    <2>1. call'.op # "none" /\ before' = before
      BY <1>1, CallsMade, OpOf
    <2>2. NoCall.op = "none"
      BY DEF NoCall
    <2>3. QED
      BY <2>1, <2>2 DEF CallInv
  <1>2. CASE UNCHANGED vars
    BY <1>2 DEF CallInv, vars
  <1>3. QED
    BY <1>1, <1>2

(* What a call works on: addresses and bytes are natural numbers. *)
LEMMA BeforeIsMemory ==
  ASSUME CallInv
  PROVE  before \in Memories /\ Addrs \subseteq Nat /\ SIZE \in Nat
  <1>1. Bytes \subseteq Nat
    BY MemoryAssumption
  <1>2. SIZE \in Nat
    BY MemoryAssumption
  <1>3. before \in Memories
    BY <1>1 DEF CallInv, Memories
  <1>4. QED
    BY <1>2, <1>3 DEF Addrs

LEMMA CopiesAreWritten ==
  ASSUME CallInv, call = NoCall, NEW d \in Addrs, NEW s \in Addrs, NEW n \in 0 .. SIZE,
         CopyBlock(d, s, n)
  PROVE  BlocksAreWritten'
  <1>1. /\ before \in Memories /\ d \in Nat /\ s \in Nat /\ n \in Nat /\ mem = before
        /\ before' = before
    BY BeforeIsMemory DEF CallInv, CopyBlock, Call
  <1>2. /\ Span(d, n) \subseteq Addrs
        /\ mem' = Moved(before, d, s, n)
        /\ \E op \in {"memcpy", "memmove"} : call' = [op |-> op, d |-> d, s |-> s, n |-> n, ret |-> d]
    <2>1. CASE Apart(d, n, s, n) /\ Call("memcpy", d, s, n, memcpy(mem, d, s, n), d)
      <3>1. Span(d, n) \subseteq Addrs
        BY <2>1 DEF Apart
      <3>2. memcpy(before, d, s, n) = Moved(before, d, s, n)
        BY <1>1, <2>1, memcpyMoves
      <3>3. QED
        BY <1>1, <2>1, <3>1, <3>2 DEF Call
    <2>2. CASE /\ Span(d, n) \cup Span(s, n) \subseteq Addrs
               /\ Call("memmove", d, s, n, memmove(mem, d, s, n), d)
      <3>1. Span(d, n) \subseteq Addrs /\ Span(s, n) \subseteq Addrs
        BY <2>2
      <3>2. memmove(before, d, s, n) = Moved(before, d, s, n)
        BY <1>1, <3>1, memmoveMoves
      <3>3. QED
        BY <1>1, <2>2, <3>1, <3>2 DEF Call
    <2>3. QED
      BY <2>1, <2>2 DEF CopyBlock
  <1>3. /\ Block(mem', d, n) = Block(before, s, n)
        /\ \A b \in Addrs \ Span(d, n) : mem'[b] = before[b]
    BY <1>1, <1>2, BlockOfMoved
  <1>4. call'.op \in {"memcpy", "memmove"} /\ call'.d = d /\ call'.s = s /\ call'.n = n
    BY <1>2
  <1>5. QED
    BY <1>1, <1>3, <1>4 DEF BlocksAreWritten, ChangedWithin

LEMMA FillsAreWritten ==
  ASSUME CallInv, call = NoCall, NEW d \in Addrs, NEW b \in Ints, NEW n \in 0 .. SIZE,
         FillBlock(d, b, n)
  PROVE  BlocksAreWritten'
  <1> DEFINE new == [a \in Addrs |-> IF a \in Span(d, n) THEN b % BYTE ELSE before[a]]
  <1>1. /\ d \in Nat /\ n \in Nat /\ mem = before /\ before' = before
        /\ Span(d, n) \subseteq Addrs /\ mem' = memset(mem, d, b, n)
        /\ call'.op = "memset" /\ call'.d = d /\ call'.s = b /\ call'.n = n
    BY BeforeIsMemory DEF CallInv, FillBlock, Call
  <1>2. mem' = new
    <2>1. d \in Nat /\ n \in Nat /\ b \in Int /\ before \in Memories
      BY <1>1, BeforeIsMemory, MemoryAssumption
    <2>2. memset(before, d, b, n) = new
      BY <2>1, memsetFills DEF Filling
    <2> HIDE DEF new
    <2>3. QED
      BY <1>1, <2>2
  <1>3. \A a \in Addrs \ Span(d, n) : new[a] = before[a]
    OBVIOUS
  <1>4. ASSUME NEW i \in 1 .. n PROVE new[d + i - 1] = b % BYTE
    <2>1. d + i - 1 \in Span(d, n)
      BY <1>1 DEF Span
    <2>2. QED
      BY <1>1, <2>1
  <1> HIDE DEF new
  <1>5. Block(mem', d, n) = [i \in 1 .. n |-> b % BYTE]
    BY <1>2, <1>4 DEF Block
  <1>6. QED
    BY <1>1, <1>2, <1>3, <1>5 DEF BlocksAreWritten, ChangedWithin

LEMMA StepWrites ==
  ASSUME CallInv, BlocksAreWritten, [PrintNext]_vars
  PROVE  BlocksAreWritten'
  <1>1. CASE PrintNext
    <2>1. CASE \E d \in Addrs, s \in Addrs, n \in 0 .. SIZE : CopyBlock(d, s, n)
      BY <1>1, <2>1, CallsMade, CopiesAreWritten
    <2>2. CASE \E d \in Addrs, b \in Ints, n \in 0 .. SIZE : FillBlock(d, b, n)
      BY <1>1, <2>2, CallsMade, FillsAreWritten
    <2>3. CASE call'.op \notin {"memcpy", "memmove", "memset"}
      BY <2>3 DEF BlocksAreWritten
    <2>4. QED
      BY <1>1, <2>1, <2>2, <2>3, CallsMade, OpOf
  <1>2. CASE UNCHANGED vars
    BY <1>2 DEF BlocksAreWritten, vars, ChangedWithin, Block
  <1>3. QED
    BY <1>1, <1>2

(* Until the first call nothing of memory has changed, and what every      *)
(* function is compared with, before, is bytes: the functions of           *)
(* string.cpp and kernel_print.cpp keep no state of their own.             *)
THEOREM CallsFindMemory == PrintSpec => []CallInv
  BY InitCallInv, MadeOnce, PTL DEF PrintSpec

(* memcpy, memmove and memset write exactly the bytes they should and no   *)
(* others, at every alignment and overlap their callers may use: copying   *)
(* by words and by bytes, forwards or backwards, none reads a byte it has  *)
(* already overwritten.                                                    *)
THEOREM BlocksWritten == PrintSpec => []BlocksAreWritten
  <1>1. Init => BlocksAreWritten
    BY DEF Init, NoCall, BlocksAreWritten
  <1>2. QED
    BY <1>1, InitCallInv, MadeOnce, StepWrites, PTL DEF PrintSpec

-----------------------------------------------------------------------------
(* Strings.  e is where the string at a ends. *)
IsEnd(m, a, e) == e \in a .. SIZE - 1 /\ m[e] = 0 /\ \A b \in a .. e - 1 : m[b] # 0

LEMMA StringEnds ==
  ASSUME NEW m, NEW a \in Nat, IsString(m, a)
  PROVE  \E e \in Nat : IsEnd(m, a, e)
  <1> DEFINE S == { e \in a .. SIZE - 1 : m[e] = 0 }
  <1>1. SIZE \in Nat
    BY MemoryAssumption
  <1>2. S \in SUBSET Nat /\ S # {}
    BY <1>1 DEF IsString
  <1>3. Min(S) \in S /\ \A y \in S : Min(S) <= y
    <2> HIDE DEF S
    <2>1. QED
      BY <1>2, MinExists
  <1>4. PICK e \in S : \A y \in S : e <= y
    BY <1>3
  <1>5. e \in Nat /\ e \in a .. SIZE - 1 /\ m[e] = 0
    BY <1>2, <1>4
  <1>6. ASSUME NEW b \in a .. e - 1 PROVE m[b] # 0
    <2>1. b \in a .. SIZE - 1 /\ ~(e <= b)
      BY <1>1, <1>5
    <2>2. QED
      BY <1>4, <2>1
  <1>7. QED
    BY <1>5, <1>6 DEF IsEnd

LEMMA EndIsMin ==
  ASSUME NEW m, NEW a \in Nat, NEW e \in Nat, IsEnd(m, a, e)
  PROVE  Min({ b \in a .. SIZE - 1 : m[b] = 0 }) = e
  <1> DEFINE S == { b \in a .. SIZE - 1 : m[b] = 0 }
  <1>1. SIZE \in Nat
    BY MemoryAssumption
  <1>2. S \in SUBSET Int /\ e \in S
    BY <1>1 DEF IsEnd
  <1>3. ASSUME NEW y \in S PROVE e <= y
    <2>1. y \in a .. SIZE - 1 /\ m[y] = 0 /\ y \in Int
      BY <1>1
    <2>2. y \notin a .. e - 1
      BY <2>1 DEF IsEnd
    <2>3. QED
      BY <1>1, <2>1, <2>2
  <1> HIDE DEF S
  <1>4. Min(S) = e
    BY <1>2, <1>3, MinIs
  <1>5. QED
    BY <1>4 DEF S

LEMMA BlockIsSeq ==
  ASSUME NEW m \in Memories, NEW a \in Nat, NEW k \in Nat, Span(a, k) \subseteq Addrs
  PROVE  /\ Block(m, a, k) \in Seq(Nat) /\ Len(Block(m, a, k)) = k
         /\ \A i \in 1 .. k : Block(m, a, k)[i] = m[a + i - 1]
  <1>1. ASSUME NEW i \in 1 .. k PROVE m[a + i - 1] \in Nat
    <2>1. a + i - 1 \in Span(a, k)
      BY DEF Span
    <2>2. a + i - 1 \in Addrs
      BY <2>1
    <2>3. QED
      BY <2>2 DEF Memories
  <1>2. Block(m, a, k) \in [1 .. k -> Nat]
    BY <1>1 DEF Block
  <1>3. \A i \in 1 .. k : Block(m, a, k)[i] = m[a + i - 1]
    BY DEF Block
  <1>4. QED
    BY <1>2, <1>3

(* A string with its terminator is the block that ends with it. *)
LEMMA StringIsBlock ==
  ASSUME NEW m \in Memories, NEW a \in Nat, NEW e \in Nat, IsEnd(m, a, e)
  PROVE  /\ StringAt(m, a) = Block(m, a, e - a)
         /\ Append(StringAt(m, a), 0) = Block(m, a, e - a + 1)
         /\ Span(a, e - a + 1) \subseteq Addrs /\ Span(a, e - a) \subseteq Addrs
         /\ e - a \in Nat /\ a <= e /\ e < SIZE
  <1> DEFINE s == Block(m, a, e - a)
             z == Block(m, a, e - a + 1)
  <1>1. SIZE \in Nat
    BY MemoryAssumption
  <1>2. StringAt(m, a) = s
    BY EndIsMin, Zenon DEF StringAt
  <1>3. e - a \in Nat /\ a <= e /\ e < SIZE /\ m[e] = 0
    BY <1>1 DEF IsEnd
  <1>4. Span(a, e - a + 1) \subseteq Addrs /\ Span(a, e - a) \subseteq Addrs
    BY <1>1, <1>3 DEF Span, Addrs
  <1>5. s \in Seq(Nat) /\ Len(s) = e - a /\ \A i \in 1 .. e - a : s[i] = m[a + i - 1]
    BY <1>3, <1>4, BlockIsSeq
  <1>6. /\ z \in Seq(Nat) /\ Len(z) = e - a + 1
        /\ \A i \in 1 .. e - a + 1 : z[i] = m[a + i - 1]
    <2>1. e - a + 1 \in Nat
      BY <1>3
    <2>2. QED
      BY <1>4, <2>1, BlockIsSeq
  <1> HIDE DEF s, z
  <1>7. Append(s, 0) = z
    <2>1. /\ Append(s, 0) \in Seq(Nat) /\ Len(Append(s, 0)) = e - a + 1
          /\ \A i \in 1 .. e - a + 1 : Append(s, 0)[i] = IF i <= e - a THEN s[i] ELSE 0
      BY <1>3, <1>5
    <2>2. ASSUME NEW i \in 1 .. e - a + 1 PROVE Append(s, 0)[i] = z[i]
      <3>1. CASE i <= e - a
        <4>1. i \in 1 .. e - a
          BY <3>1
        <4>2. QED
          BY <1>5, <1>6, <2>1, <3>1, <4>1
      <3>2. CASE ~(i <= e - a)
        <4>1. a + i - 1 = e
          BY <1>3, <3>2
        <4>2. QED
          BY <1>3, <1>6, <2>1, <3>2, <4>1
      <3>3. QED
        BY <3>1, <3>2
    <2> DEFINE t == Append(s, 0)
    <2>3. t \in Seq(Nat) /\ Len(t) = Len(z) /\ \A i \in 1 .. Len(t) : t[i] = z[i]
      BY <1>6, <2>1, <2>2
    <2> HIDE DEF t
    <2>4. t = z
      BY <1>6, <2>3, SeqEqual
    <2>5. QED
      BY <2>4 DEF t
  <1>8. QED
    BY <1>2, <1>3, <1>4, <1>7 DEF s, z

(* What the three walks give. *)
LEMMA strlenIs ==
  ASSUME NEW m, NEW s \in Nat, NEW e \in Nat, IsEnd(m, s, e)
  PROVE  strlen(m, s) = e - s
  <1> DEFINE Go == { a \in Addrs : m[a] # 0 }
             v == [a \in 0 .. SIZE |-> a]
             D(p) == [a \in 0 .. SIZE |-> IF a \in Addrs /\ m[a] # 0 THEN p[a + 1] ELSE a]
             p == CHOOSE p : p = D(p)
  <1>1. SIZE \in Nat
    BY MemoryAssumption
  <1>2. strlen(m, s) = p[s] - s
    BY DEF strlen
  <1>3. \A f : D(f) = Walk(Go, v, f)
    BY DEF Walk
  <1>4. Go \in SUBSET Addrs
    OBVIOUS
  <1>5. e \notin Go /\ s .. e - 1 \subseteq Go
    BY <1>1 DEF IsEnd, Addrs
  <1>6. s \in 0 .. SIZE /\ e \in s .. SIZE /\ e \in 0 .. SIZE
    BY <1>1 DEF IsEnd
  <1>7. v[e] = e
    BY <1>6
  <1> HIDE DEF Go, v, D
  <1>8. \E f : f = D(f)
    BY <1>3, <1>4, WalkExists
  <1>9. p = Walk(Go, v, p)
    BY <1>3, <1>8, Zenon
  <1> HIDE DEF p
  <1>10. p[s] = v[e]
    BY <1>4, <1>5, <1>6, <1>9, WalkEnds
  <1>11. QED
    BY <1>2, <1>7, <1>10

(* strcmp stops at the first place where the strings differ or both end. *)
DecidedAt(m, s, e, t, u, i) ==
  /\ s + i <= e /\ t + i <= u
  /\ \A j \in Nat : j < i => m[s + j] = m[t + j]
  /\ m[s + i] # m[t + i] \/ (m[s + i] = 0 /\ m[t + i] = 0)

LEMMA strcmpIs ==
  ASSUME NEW m \in Memories, NEW s \in Nat, NEW t \in Nat, NEW e \in Nat, NEW u \in Nat,
         IsEnd(m, s, e), IsEnd(m, t, u)
  PROVE  \E i \in Nat : DecidedAt(m, s, e, t, u, i) /\ strcmp(m, s, t) = m[s + i] - m[t + i]
  <1> DEFINE Go == { i \in Addrs : i < SIZE /\ m[s + i] # 0 /\ m[s + i] = m[t + i] }
             v == [i \in 0 .. SIZE |-> m[s + i] - m[t + i]]
             D(f) == [i \in 0 .. SIZE |->
                       IF i < SIZE /\ m[s + i] # 0 /\ m[s + i] = m[t + i]
                       THEN f[i + 1] ELSE m[s + i] - m[t + i]]
             f == CHOOSE f : f = D(f)
             Stops == { i \in 0 .. SIZE : i \notin Go }
  <1>1. SIZE \in Nat
    BY MemoryAssumption
  <1>2. strcmp(m, s, t) = f[0]
    BY DEF strcmp
  <1>3. \A i \in 0 .. SIZE : i \in Go <=> i < SIZE /\ m[s + i] # 0 /\ m[s + i] = m[t + i]
    BY <1>1 DEF Addrs
  <1>4. ASSUME NEW h PROVE D(h) = Walk(Go, v, h)
    <2>1. \A i \in 0 .. SIZE : v[i] = m[s + i] - m[t + i]
      OBVIOUS
    <2> HIDE DEF Go, v
    <2>2. QED
      BY <1>3, <2>1 DEF Walk
  <1>5. Go \in SUBSET Addrs
    OBVIOUS
  <1>6. e - s \in Stops /\ u - t \in Stops
    <2>1. e - s \in 0 .. SIZE /\ s + (e - s) = e /\ m[e] = 0
      BY <1>1 DEF IsEnd
    <2>2. u - t \in 0 .. SIZE /\ t + (u - t) = u /\ m[u] = 0
      BY <1>1 DEF IsEnd
    <2>3. e - s \notin Go
      BY <1>3, <2>1
    <2>4. u - t \notin Go
      BY <1>3, <2>2
    <2>5. QED
      BY <2>1, <2>2, <2>3, <2>4
  <1> DEFINE i == Min(Stops)
  <1>7. i \in Stops /\ \A j \in Stops : i <= j
    <2>1. Stops \in SUBSET Nat
      BY <1>1
    <2> HIDE DEF Stops
    <2>2. Stops # {}
      BY <1>6
    <2>3. QED
      BY <2>1, <2>2, MinExists
  <1>8. v[i] = m[s + i] - m[t + i]
    BY <1>7
  <1>9. i \in 0 .. SIZE /\ i \notin Go /\ i <= e - s /\ i <= u - t
    BY <1>6, <1>7
  <1>10. 0 .. i - 1 \subseteq Go
    <2>1. ASSUME NEW j \in 0 .. i - 1 PROVE j \in Go
      <3>1. j \in 0 .. SIZE /\ ~(i <= j)
        BY <1>1, <1>9
      <3>2. QED
        BY <1>7, <3>1
    <2>2. QED
      BY <2>1
  <1> HIDE DEF i, Stops, Go, v, D
  <1>11. \E h : h = D(h)
    BY <1>4, <1>5, WalkExists
  <1>12. f = Walk(Go, v, f)
    BY <1>4, <1>11, Zenon
  <1> HIDE DEF f
  <1>13. f[0] = v[i]
    <2>1. 0 \in 0 .. SIZE /\ i \in 0 .. SIZE
      BY <1>1, <1>9
    <2>2. QED
      BY <1>5, <1>9, <1>10, <1>12, <2>1, WalkEnds
  <1>14. i \in Nat /\ s + i <= e /\ t + i <= u /\ i < SIZE
    BY <1>1, <1>9 DEF IsEnd
  <1>15. \A j \in Nat : j < i => m[s + j] = m[t + j]
    <2>1. ASSUME NEW j \in Nat, j < i PROVE m[s + j] = m[t + j]
      <3>1. j \in 0 .. i - 1 /\ j \in 0 .. SIZE
        BY <1>1, <1>9, <2>1
      <3>2. j \in Go
        BY <1>10, <3>1
      <3>3. QED
        BY <1>3, <3>1, <3>2
    <2>2. QED
      BY <2>1
  <1>16. m[s + i] # m[t + i] \/ (m[s + i] = 0 /\ m[t + i] = 0)
    BY <1>3, <1>9, <1>14
  <1>17. QED
    BY <1>2, <1>8, <1>13, <1>14, <1>15, <1>16 DEF DecidedAt

(* strchr stops at the first such byte, or at the end of the string. *)
FoundAt(m, p, e, c, i, ret) ==
  /\ p <= i /\ i <= e
  /\ \A b \in Nat : p <= b /\ b < i => m[b] # c
  /\ \/ m[i] = c /\ ret = i
     \/ i = e /\ m[i] # c /\ ret = NULL

LEMMA strchrIs ==
  ASSUME NEW m \in Memories, NEW p \in Nat, NEW e \in Nat, NEW ch, IsEnd(m, p, e)
  PROVE  \E i \in Nat : FoundAt(m, p, e, ch % BYTE, i, strchr(m, p, ch))
  <1> DEFINE c == ch % BYTE
             Go == { a \in Addrs : m[a] # c /\ m[a] # 0 }
             v == [a \in 0 .. SIZE |-> IF a \in Addrs /\ m[a] = c THEN a ELSE NULL]
             D(f) == [a \in 0 .. SIZE |->
                       IF a \in Addrs /\ m[a] = c THEN a
                       ELSE IF a \in Addrs /\ m[a] # 0 THEN f[a + 1] ELSE NULL]
             f == CHOOSE f : f = D(f)
             Stops == { a \in p .. SIZE : a \notin Go }
             i == Min(Stops)
  <1>1. SIZE \in Nat
    BY MemoryAssumption
  <1>2. strchr(m, p, ch) = f[p]
    BY DEF strchr
  <1>3. \A h : D(h) = Walk(Go, v, h)
    <2> HIDE DEF c
    <2>1. QED
      BY DEF Walk
  <1>4. Go \in SUBSET Addrs
    OBVIOUS
  <1>5. e \in Stops
    BY <1>1 DEF IsEnd
  <1>6. i \in Stops /\ \A j \in Stops : i <= j
    <2>1. Stops \in SUBSET Nat /\ Stops # {}
      BY <1>1, <1>5
    <2> HIDE DEF Stops
    <2>2. QED
      BY <2>1, MinExists
  <1>7. i \in p .. SIZE /\ i \notin Go /\ i <= e
    BY <1>5, <1>6
  <1>8. p .. i - 1 \subseteq Go
    <2>1. ASSUME NEW j \in p .. i - 1 PROVE j \in Go
      <3>1. j \in p .. SIZE /\ ~(i <= j)
        BY <1>1, <1>7
      <3> HIDE DEF Go
      <3>2. QED
        BY <1>6, <3>1
    <2>2. QED
      BY <2>1
  <1> HIDE DEF i
  <1>9. i \in Addrs /\ i \in Nat /\ p <= i
    BY <1>1, <1>7 DEF IsEnd, Addrs
  <1>10. v[i] = IF m[i] = c THEN i ELSE NULL
    BY <1>7, <1>9
  <1>11. \A b \in Nat : p <= b /\ b < i => m[b] # c
    <2>1. ASSUME NEW b \in Nat, p <= b, b < i PROVE m[b] # c
      <3>1. b \in p .. i - 1
        BY <1>9, <2>1
      <3>2. b \in Go
        BY <1>8, <3>1
      <3> HIDE DEF c
      <3>3. QED
        BY <3>2
    <2>2. QED
      BY <2>1
  <1>12. m[i] # c => i = e
    <2>1. ASSUME m[i] # c PROVE m[i] = 0
      <3> HIDE DEF c
      <3>1. QED
        BY <1>7, <1>9, <2>1
    <2>2. ASSUME m[i] = 0 PROVE i = e
      <3>1. ~(i \in p .. e - 1)
        BY <2>2 DEF IsEnd
      <3>2. QED
        BY <1>7, <1>9, <3>1
    <2>3. QED
      BY <2>1, <2>2
  <1> HIDE DEF Stops, Go, v, D
  <1>13. \E h : h = D(h)
    BY <1>3, <1>4, WalkExists
  <1>14. f = Walk(Go, v, f)
    BY <1>3, <1>13, Zenon
  <1> HIDE DEF f
  <1>15. f[p] = v[i]
    <2>1. p \in 0 .. SIZE
      BY <1>1, <1>7
    <2>2. i \in p .. SIZE /\ i \notin Go
      BY <1>7
    <2>3. \A a \in 0 .. SIZE : \A b \in a .. SIZE : b \notin Go /\ a .. b - 1 \subseteq Go => f[a] = v[b]
      BY <1>4, <1>14, WalkEnds
    <2>4. QED
      BY <1>8, <2>1, <2>2, <2>3
  <1>16. \/ m[i] = c /\ strchr(m, p, ch) = i
         \/ i = e /\ m[i] # c /\ strchr(m, p, ch) = NULL
    <2> HIDE DEF c
    <2>1. QED
      BY <1>2, <1>10, <1>12, <1>15
  <1>17. QED
    BY <1>7, <1>9, <1>11, <1>16 DEF FoundAt

(* The terminated string as a sequence, byte by byte. *)
LEMMA StringBytes ==
  ASSUME NEW m \in Memories, NEW a \in Nat, NEW e \in Nat, IsEnd(m, a, e)
  PROVE  \E s \in Seq(Nat) :
           /\ Append(StringAt(m, a), 0) = s
           /\ e - a \in Nat /\ Len(s) = e - a + 1
           /\ \A i \in 1 .. e - a + 1 : s[i] = m[a + i - 1] /\ s[i] \in Nat
  <1> DEFINE k == e - a + 1
             s == Block(m, a, k)
  <1>1. Append(StringAt(m, a), 0) = s /\ Span(a, k) \subseteq Addrs /\ e - a \in Nat
    BY StringIsBlock
  <1>2. k \in Nat
    BY <1>1
  <1>3. s \in Seq(Nat) /\ Len(s) = k /\ \A i \in 1 .. k : s[i] = m[a + i - 1]
    <2> HIDE DEF k
    <2>1. QED
      BY <1>1, <1>2, BlockIsSeq
  <1> HIDE DEF s
  <1>4. \A i \in 1 .. k : s[i] \in Nat
    BY <1>3, ElementOfSeq
  <1>5. QED
    BY <1>1, <1>3, <1>4

(* The dictionary's order, of two strings with their terminators, is known *)
(* at the first place where they differ or both end.                       *)
Ordered(s, t, ret) ==
  LET differ == { x \in DOMAIN s \cap DOMAIN t : s[x] # t[x] }
  IN  /\ (ret = 0) = (s = t)
      /\ s # t => (ret < 0) = (s[Min(differ)] < t[Min(differ)])

LEMMA PastPrefix ==
  ASSUME NEW n \in Nat, NEW i \in Nat, NEW y \in 1 .. n, y \notin 1 .. i
  PROVE  i + 1 <= y
  OBVIOUS

LEMMA DictionaryOrder ==
  ASSUME NEW m, NEW a \in Nat, NEW b \in Nat, NEW e \in Nat, NEW u \in Nat,
         IsEnd(m, a, e), IsEnd(m, b, u),
         NEW s \in Seq(Nat), NEW t \in Seq(Nat), NEW ret,
         e - a \in Nat, Len(s) = e - a + 1,
         \A i \in 1 .. e - a + 1 : s[i] = m[a + i - 1] /\ s[i] \in Nat,
         u - b \in Nat, Len(t) = u - b + 1,
         \A i \in 1 .. u - b + 1 : t[i] = m[b + i - 1] /\ t[i] \in Nat,
         NEW i \in Nat, DecidedAt(m, a, e, b, u, i), ret = m[a + i] - m[b + i]
  PROVE  Ordered(s, t, ret)
  <1> DEFINE differ == { x \in DOMAIN s \cap DOMAIN t : s[x] # t[x] }
             k == e - a + 1
             l == u - b + 1
  <1>3. k \in Nat /\ l \in Nat /\ k >= 1 /\ l >= 1
    OBVIOUS
  <1>4. Len(s) = k /\ DOMAIN s = 1 .. k /\ \A x \in 1 .. k : s[x] = m[a + x - 1] /\ s[x] \in Nat
    BY LenProperties
  <1>5. Len(t) = l /\ DOMAIN t = 1 .. l /\ \A x \in 1 .. l : t[x] = m[b + x - 1] /\ t[x] \in Nat
    BY LenProperties
  <1>6. /\ a + i <= e /\ b + i <= u
        /\ \A j \in Nat : j < i => m[a + j] = m[b + j]
        /\ m[a + i] # m[b + i] \/ (m[a + i] = 0 /\ m[b + i] = 0)
        /\ ret = m[a + i] - m[b + i]
    BY DEF DecidedAt
  <1>7. i + 1 \in 1 .. k /\ i + 1 \in 1 .. l /\ a + (i + 1) - 1 = a + i /\ b + (i + 1) - 1 = b + i
    BY <1>6
  <1>8. s[i + 1] = m[a + i] /\ t[i + 1] = m[b + i] /\ s[i + 1] \in Nat /\ t[i + 1] \in Nat
    BY <1>4, <1>5, <1>7
  <1>9. ASSUME NEW j \in 1 .. i PROVE s[j] = t[j]
    <2>1. j - 1 \in Nat /\ j - 1 < i /\ j \in 1 .. k /\ j \in 1 .. l
      BY <1>7
    <2>2. a + (j - 1) = a + j - 1 /\ b + (j - 1) = b + j - 1
      BY <1>6
    <2>3. m[a + (j - 1)] = m[b + (j - 1)]
      BY <1>6, <2>1
    <2>4. QED
      BY <1>4, <1>5, <2>1, <2>2, <2>3
  <1>10. CASE m[a + i] # m[b + i]
    <2> DEFINE p == m[a + i]
               q == m[b + i]
    <2>0. p \in Nat /\ q \in Nat /\ ret = p - q /\ p # q /\ s[i + 1] = p /\ t[i + 1] = q
      BY <1>6, <1>8, <1>10
    <2> HIDE DEF p, q
    <2>1. s # t /\ ret # 0
      <3>1. s[i + 1] # t[i + 1] => s # t
        OBVIOUS
      <3>2. QED
        BY <2>0, <3>1
    <2>2. i + 1 \in differ
      <3>1. i + 1 \in DOMAIN s /\ i + 1 \in DOMAIN t
        BY <1>4, <1>5, <1>7
      <3>2. QED
        BY <1>8, <1>10, <3>1
    <2>3. ASSUME NEW y \in differ PROVE i + 1 <= y
      <3>1. y \in DOMAIN s /\ s[y] # t[y]
        OBVIOUS
      <3>2. y \in 1 .. k
        BY <1>4, <3>1
      <3>3. y \notin 1 .. i
        BY <1>9, <3>1
      <3>4. QED
        <4>1. k \in Nat
          BY <1>3
        <4> HIDE DEF k
        <4>2. QED
          BY <3>2, <3>3, <4>1, PastPrefix
    <2>4. differ \in SUBSET Int
      BY <1>4
    <2> HIDE DEF differ
    <2>5. Min(differ) = i + 1
      BY <2>2, <2>3, <2>4, MinIs
    <2>6. ret < 0 <=> p < q
      <3>1. p \in Nat /\ q \in Nat
        BY <2>0
      <3>2. p - q < 0 <=> p < q
        BY <3>1
      <3>3. QED
        BY <2>0, <3>2, Zenon
    <2>7. ret < 0 <=> s[Min(differ)] < t[Min(differ)]
      BY <2>0, <2>5, <2>6, Zenon
    <2>8. QED
      BY <2>1, <2>7 DEF Ordered, differ
  <1>11. CASE m[a + i] = 0 /\ m[b + i] = 0
    <2>1. a + i = e
      <3>1. ~(a + i \in a .. e - 1)
        BY <1>11 DEF IsEnd
      <3>2. QED
        BY <1>6, <3>1
    <2>2. b + i = u
      <3>1. ~(b + i \in b .. u - 1)
        BY <1>11 DEF IsEnd
      <3>2. QED
        BY <1>6, <3>1
    <2>3. Len(s) = i + 1 /\ Len(t) = i + 1
      BY <1>4, <1>5, <2>1, <2>2
    <2>4. ASSUME NEW j \in 1 .. Len(s) PROVE s[j] = t[j]
      <3>1. j \in 1 .. i \/ j = i + 1
        BY <1>6, <2>3
      <3>2. QED
        BY <1>8, <1>9, <1>11, <3>1
    <2>5. s = t
      BY <1>4, <1>5, <2>3, <2>4, SeqEqual
    <2>6. ret = 0
      BY <1>6, <1>11
    <2>7. QED
      BY <2>5, <2>6 DEF Ordered
  <1>12. QED
    BY <1>6, <1>10, <1>11

LEMMA strcmpOrders ==
  ASSUME NEW m \in Memories, NEW a \in Nat, NEW b \in Nat, NEW e \in Nat, NEW u \in Nat,
         IsEnd(m, a, e), IsEnd(m, b, u)
  PROVE  Ordered(Append(StringAt(m, a), 0), Append(StringAt(m, b), 0), strcmp(m, a, b))
  <1>1. PICK i \in Nat : DecidedAt(m, a, e, b, u, i) /\ strcmp(m, a, b) = m[a + i] - m[b + i]
    BY strcmpIs
  <1>2. PICK s \in Seq(Nat) : /\ Append(StringAt(m, a), 0) = s
                              /\ e - a \in Nat /\ Len(s) = e - a + 1
                              /\ \A x \in 1 .. e - a + 1 : s[x] = m[a + x - 1] /\ s[x] \in Nat
    BY StringBytes, Zenon
  <1>3. PICK t \in Seq(Nat) : /\ Append(StringAt(m, b), 0) = t
                              /\ u - b \in Nat /\ Len(t) = u - b + 1
                              /\ \A x \in 1 .. u - b + 1 : t[x] = m[b + x - 1] /\ t[x] \in Nat
    BY StringBytes, Zenon
  <1>4. /\ e - a \in Nat /\ Len(s) = e - a + 1
        /\ \A x \in 1 .. e - a + 1 : s[x] = m[a + x - 1] /\ s[x] \in Nat
        /\ u - b \in Nat /\ Len(t) = u - b + 1
        /\ \A x \in 1 .. u - b + 1 : t[x] = m[b + x - 1] /\ t[x] \in Nat
    BY <1>2, <1>3, Zenon
  <1>5. Ordered(s, t, strcmp(m, a, b))
    BY <1>1, <1>4, DictionaryOrder, Zenon
  <1>6. QED
    BY <1>2, <1>3, <1>5, Zenon

LEMMA ComparesAreRead ==
  ASSUME CallInv, call = NoCall, NEW s \in Addrs, NEW t \in Addrs, Compare(s, t)
  PROVE  StringsAreRead'
  <1>1. /\ before \in Memories /\ s \in Nat /\ t \in Nat /\ mem = before /\ before' = before
        /\ call'.op = "strcmp" /\ call'.d = s /\ call'.s = t /\ call'.ret = strcmp(before, s, t)
    BY BeforeIsMemory DEF CallInv, Compare, Call
  <1>2. IsString(before, s) /\ IsString(before, t)
    BY <1>1 DEF Compare
  <1>3. PICK e \in Nat, u \in Nat : IsEnd(before, s, e) /\ IsEnd(before, t, u)
    BY <1>1, <1>2, StringEnds
  <1>4. Ordered(Append(StringAt(before, s), 0), Append(StringAt(before, t), 0), strcmp(before, s, t))
    BY <1>1, <1>3, strcmpOrders, Zenon
  <1>5. call'.op # "strchr"
    BY <1>1
  <1>6. Ordered(Append(StringAt(before', call'.d), 0), Append(StringAt(before', call'.s), 0), call'.ret)
    BY <1>1, <1>4, Zenon
  <1>7. QED
    BY <1>5, <1>6, Zenon DEF StringsAreRead, Ordered

(* The first such byte, of a string with its terminator. *)
FirstOf(s, c, a, ret) ==
  LET found == { i \in DOMAIN s : s[i] = c }
  IN  ret = IF found = {} THEN NULL ELSE a + Min(found) - 1

LEMMA PlaceIsNat ==
  ASSUME NEW n \in Int, NEW y \in 1 .. n
  PROVE  y \in Nat /\ y >= 1
  OBVIOUS

LEMMA PlacePast ==
  ASSUME NEW a \in Nat, NEW y \in Nat, y >= 1
  PROVE  a + y - 1 \in Nat /\ a <= a + y - 1
  OBVIOUS

LEMMA PlacesInOrder ==
  ASSUME NEW a \in Nat, NEW i \in Nat, NEW y \in Nat, ~(a + y - 1 < i)
  PROVE  i - a + 1 <= y /\ y \in Int
  OBVIOUS

LEMMA FirstFound ==
  ASSUME NEW m, NEW a \in Nat, NEW e \in Nat, NEW c, NEW s \in Seq(Nat),
         e - a \in Nat, Len(s) = e - a + 1,
         \A x \in 1 .. e - a + 1 : s[x] = m[a + x - 1] /\ s[x] \in Nat,
         NEW i \in Nat, NEW ret, FoundAt(m, a, e, c, i, ret)
  PROVE  FirstOf(s, c, a, ret)
  <1> DEFINE found == { x \in DOMAIN s : s[x] = c }
             at == i - a + 1
  <1>1. DOMAIN s = 1 .. e - a + 1
    BY LenProperties
  <1>2. \A x \in 1 .. e - a + 1 : s[x] = m[a + x - 1]
    OBVIOUS
  <1>3. a <= i /\ i <= e /\ \A b \in Nat : a <= b /\ b < i => m[b] # c
    BY DEF FoundAt
  <1>4. at \in 1 .. e - a + 1 /\ a + at - 1 = i
    BY <1>3
  <1>5. s[at] = m[i]
    <2> HIDE DEF at
    <2>1. QED
      BY <1>2, <1>4
  <1>6. ASSUME NEW y \in found PROVE at <= y /\ y \in Int
    <2>1. y \in 1 .. e - a + 1 /\ s[y] = c
      BY <1>1
    <2>2. m[a + y - 1] = c
      BY <1>2, <2>1
    <2>3. y \in Nat /\ y >= 1
      BY <2>1, PlaceIsNat
    <2>4. a + y - 1 \in Nat /\ a <= a + y - 1
      BY <2>3, PlacePast
    <2>5. ~(a + y - 1 < i)
      BY <1>3, <2>2, <2>4, Zenon
    <2>6. QED
      BY <2>3, <2>5, PlacesInOrder
  <1>7. CASE m[i] = c /\ ret = i
    <2>1. at \in found
      <3> HIDE DEF at
      <3>1. QED
        BY <1>1, <1>4, <1>5, <1>7
    <2>2. found \in SUBSET Int
      BY <1>6
    <2> HIDE DEF found
    <2>3. Min(found) = at
      <3> HIDE DEF at
      <3>1. QED
        BY <1>6, <2>1, <2>2, MinIs
    <2>4. a + Min(found) - 1 = ret
      BY <1>4, <1>7, <2>3, Zenon
    <2>5. found # {}
      BY <2>1
    <2>6. QED
      BY <2>4, <2>5, Zenon DEF FirstOf, found
  <1>8. CASE i = e /\ m[i] # c /\ ret = NULL
    <2>1. ASSUME NEW y \in found PROVE FALSE
      <3>1. at <= y /\ y \in 1 .. e - a + 1 /\ s[y] = c
        BY <1>1, <1>6
      <3>2. y = at
        <4>1. y \in 1 .. at /\ at \in Int
          <5>1. at = e - a + 1
            BY <1>8
          <5>2. QED
            BY <3>1, <5>1
        <4> HIDE DEF at
        <4>2. QED
          BY <3>1, <4>1
      <3> HIDE DEF at
      <3>3. QED
        BY <1>5, <1>8, <3>1, <3>2
    <2>2. found = {}
      <3> HIDE DEF found
      <3>1. QED
        BY <2>1
    <2> HIDE DEF found
    <2>3. QED
      BY <1>8, <2>2, Zenon DEF FirstOf, found
  <1>9. QED
    BY <1>7, <1>8 DEF FoundAt

LEMMA strchrFinds ==
  ASSUME NEW m \in Memories, NEW a \in Nat, NEW e \in Nat, NEW ch, IsEnd(m, a, e)
  PROVE  FirstOf(Append(StringAt(m, a), 0), ch % BYTE, a, strchr(m, a, ch))
  <1>1. PICK i \in Nat : FoundAt(m, a, e, ch % BYTE, i, strchr(m, a, ch))
    BY strchrIs
  <1>2. PICK s \in Seq(Nat) : /\ Append(StringAt(m, a), 0) = s
                              /\ e - a \in Nat /\ Len(s) = e - a + 1
                              /\ \A x \in 1 .. e - a + 1 : s[x] = m[a + x - 1] /\ s[x] \in Nat
    BY StringBytes, Zenon
  <1>3. FirstOf(s, ch % BYTE, a, strchr(m, a, ch))
    BY <1>1, <1>2, FirstFound, Zenon
  <1>4. QED
    BY <1>2, <1>3, Zenon

LEMMA FindsAreRead ==
  ASSUME CallInv, call = NoCall, NEW s \in Addrs, NEW ch \in Ints, FindChar(s, ch)
  PROVE  StringsAreRead'
  <1>1. /\ before \in Memories /\ s \in Nat /\ mem = before /\ before' = before
        /\ call'.op = "strchr" /\ call'.d = s /\ call'.s = ch /\ call'.ret = strchr(before, s, ch)
    BY BeforeIsMemory DEF CallInv, FindChar, Call
  <1>2. IsString(before, s)
    BY <1>1 DEF FindChar
  <1>3. PICK e \in Nat : IsEnd(before, s, e)
    BY <1>1, <1>2, StringEnds
  <1>4. FirstOf(Append(StringAt(before, s), 0), ch % BYTE, s, strchr(before, s, ch))
    BY <1>1, <1>3, strchrFinds, Zenon
  <1>5. call'.op # "strcmp"
    BY <1>1
  <1>6. FirstOf(Append(StringAt(before', call'.d), 0), call'.s % BYTE, call'.d, call'.ret)
    BY <1>1, <1>4, Zenon
  <1>7. QED
    BY <1>5, <1>6, Zenon DEF StringsAreRead, FirstOf

LEMMA StepReads ==
  ASSUME CallInv, StringsAreRead, [PrintNext]_vars
  PROVE  StringsAreRead'
  <1>1. CASE PrintNext
    <2>1. CASE \E s \in Addrs, t \in Addrs : Compare(s, t)
      BY <1>1, <2>1, CallsMade, ComparesAreRead
    <2>2. CASE \E s \in Addrs, ch \in Ints : FindChar(s, ch)
      BY <1>1, <2>2, CallsMade, FindsAreRead
    <2>3. CASE call'.op \notin {"strcmp", "strchr"}
      BY <2>3, Zenon DEF StringsAreRead
    <2>4. QED
      BY <1>1, <2>1, <2>2, <2>3, CallsMade, OpOf
  <1>2. CASE UNCHANGED vars
    <2>1. before' = before /\ call' = call
      BY <1>2 DEF vars
    <2>2. QED
      BY <2>1 DEF StringsAreRead
  <1>3. QED
    BY <1>1, <1>2

(* strcmp tells two strings apart, by sign, at the first byte in which     *)
(* they differ, and strchr finds the first occurrence of a character or    *)
(* NULL; the walks of both stop at the terminator.                         *)
THEOREM StringsRead == PrintSpec => []StringsAreRead
  <1>1. Init => StringsAreRead
    BY DEF Init, NoCall, StringsAreRead
  <1>2. QED
    BY <1>1, InitCallInv, MadeOnce, StepReads, PTL DEF PrintSpec

-----------------------------------------------------------------------------
(* Strings made in memory. *)
LEMMA StringSeq ==
  ASSUME NEW m \in Memories, NEW a \in Nat, NEW e \in Nat, IsEnd(m, a, e)
  PROVE  /\ StringAt(m, a) \in Seq(Nat) /\ e - a \in Nat /\ Len(StringAt(m, a)) = e - a
         /\ \A i \in 1 .. e - a : StringAt(m, a)[i] = m[a + i - 1]
  <1> DEFINE k == e - a
  <1>1. StringAt(m, a) = Block(m, a, k) /\ Span(a, k) \subseteq Addrs /\ k \in Nat
    BY StringIsBlock
  <1> HIDE DEF k
  <1>2. /\ Block(m, a, k) \in Seq(Nat) /\ Len(Block(m, a, k)) = k
        /\ \A i \in 1 .. k : Block(m, a, k)[i] = m[a + i - 1]
    BY <1>1, BlockIsSeq
  <1>3. /\ StringAt(m, a) \in Seq(Nat) /\ Len(StringAt(m, a)) = k
        /\ \A i \in 1 .. k : StringAt(m, a)[i] = m[a + i - 1]
    BY <1>1, <1>2, Zenon
  <1>4. QED
    BY <1>1, <1>3, Zenon DEF k

(* A sequence in memory, ended. *)
LEMMA EndedBlock ==
  ASSUME NEW m, NEW d \in Nat, NEW q \in Seq(Nat),
         \A i \in 1 .. Len(q) : m[d + i - 1] = q[i], m[d + Len(q)] = 0
  PROVE  Block(m, d, Len(q) + 1) = Append(q, 0)
  <1> DEFINE n == Len(q)
             r == Append(q, 0)
             b == Block(m, d, n + 1)
  <1>1. n \in Nat
    BY LenProperties
  <1>2. r \in Seq(Nat) /\ Len(r) = n + 1 /\ \A i \in 1 .. n + 1 : r[i] = IF i = n + 1 THEN 0 ELSE q[i]
    BY AppendProperties
  <1>3. DOMAIN r = 1 .. n + 1 /\ r \in [1 .. n + 1 -> Nat]
    BY <1>2, LenProperties
  <1> HIDE DEF r
  <1>4. ASSUME NEW i \in 1 .. n + 1 PROVE m[d + i - 1] = r[i]
    <2>1. CASE i = n + 1
      <3>1. d + i - 1 = d + n
        BY <1>1, <2>1
      <3>2. QED
        BY <1>2, <2>1, <3>1
    <2>2. CASE i # n + 1
      <3>1. i \in 1 .. n
        BY <1>1, <2>2
      <3>2. QED
        BY <1>2, <2>2, <3>1
    <2>3. QED
      BY <2>1, <2>2
  <1>5. r = [i \in 1 .. n + 1 |-> r[i]]
    BY <1>3
  <1>6. b = [i \in 1 .. n + 1 |-> m[d + i - 1]]
    BY DEF Block
  <1> HIDE DEF n, b
  <1>7. b = r
    BY <1>4, <1>5, <1>6
  <1>8. QED
    BY <1>7 DEF n, b, r

(* What a call must have done when the sequence q, ended, was to be made   *)
(* at d in a block of n bytes.                                             *)
Made(new, m, d, q, n) ==
  /\ Block(new, d, Len(q) + 1) = Append(q, 0)
  /\ \A b \in Addrs \ Span(d, n) : new[b] = m[b]

LEMMA strcpyMakes ==
  ASSUME NEW m \in Memories, NEW d \in Nat, NEW s \in Nat, NEW e \in Nat, IsEnd(m, s, e),
         Apart(d, strlen(m, s) + 1, s, strlen(m, s) + 1)
  PROVE  Made(strcpy(m, d, s), m, d, StringAt(m, s), Len(StringAt(m, s)) + 1)
  <1> DEFINE k == e - s + 1
             q == StringAt(m, s)
  <1>1. strlen(m, s) + 1 = k /\ k \in Nat
    <2>1. strlen(m, s) = e - s
      BY strlenIs
    <2>2. e - s \in Nat
      BY StringSeq
    <2>3. QED
      BY <2>1, <2>2
  <1>2. Append(q, 0) = Block(m, s, k) /\ Len(q) + 1 = k
    BY StringIsBlock, StringSeq
  <1> HIDE DEF k, q
  <1>3. Apart(d, k, s, k)
    BY <1>1
  <1>4. Span(d, k) \subseteq Addrs /\ Span(s, k) \subseteq Addrs /\ (d <= s \/ s + k <= d)
    BY <1>1, <1>3, ApartBlocks
  <1>5. Forward(m, d, s, k) = Moved(m, d, s, k)
    BY <1>1, <1>4, ForwardMoves
  <1>6. strcpy(m, d, s) = Moved(m, d, s, k)
    BY <1>1, <1>5, Zenon DEF strcpy
  <1>7. /\ Block(Moved(m, d, s, k), d, k) = Block(m, s, k)
        /\ \A b \in Addrs \ Span(d, k) : Moved(m, d, s, k)[b] = m[b]
    <2>1. k \in Int
      BY <1>1
    <2>2. QED
      BY <1>4, <2>1, BlockOfMoved
  <1>8. Made(strcpy(m, d, s), m, d, q, Len(q) + 1)
    BY <1>2, <1>6, <1>7, Zenon DEF Made
  <1>9. QED
    BY <1>8 DEF q

LEMMA strcatMakes ==
  ASSUME NEW m \in Memories, NEW d \in Nat, NEW s \in Nat, NEW e \in Nat, NEW f \in Nat,
         IsEnd(m, s, e), IsEnd(m, d, f),
         Apart(d, strlen(m, d) + (strlen(m, s) + 1), s, strlen(m, s) + 1)
  PROVE  LET made == StringAt(m, d) \o StringAt(m, s)
         IN  Made(strcat(m, d, s), m, d, made, Len(made) + 1)
  <1> DEFINE k == e - s + 1
             j == f - d
             p == StringAt(m, d)
             q == StringAt(m, s)
             made == p \o q
             new == Moved(m, f, s, k)
  <1>1. strlen(m, s) + 1 = k /\ k \in Nat /\ k >= 1 /\ strlen(m, d) = j /\ j \in Nat /\ d + j = f
    <2>1. strlen(m, s) = e - s /\ strlen(m, d) = f - d
      BY strlenIs
    <2>2. e - s \in Nat /\ f - d \in Nat
      BY StringSeq
    <2>3. QED
      BY <2>1, <2>2
  <1>2. q \in Seq(Nat) /\ Len(q) = k - 1 /\ \A i \in 1 .. k - 1 : q[i] = m[s + i - 1]
    <2>1. e - s = k - 1
      OBVIOUS
    <2>2. /\ StringAt(m, s) \in Seq(Nat) /\ Len(StringAt(m, s)) = e - s
          /\ \A i \in 1 .. e - s : StringAt(m, s)[i] = m[s + i - 1]
      BY StringSeq, SMTT(30)
    <2>3. QED
      BY <2>1, <2>2, Zenon
  <1>3. p \in Seq(Nat) /\ Len(p) = j /\ \A i \in 1 .. j : p[i] = m[d + i - 1]
    BY StringSeq, SMTT(30)
  <1>4. s + (k - 1) = e /\ m[e] = 0
    BY DEF IsEnd
  <1> HIDE DEF k, j, p, q
  <1>5. /\ made \in Seq(Nat) /\ Len(made) = j + (k - 1)
        /\ \A i \in 1 .. j + (k - 1) : made[i] = IF i <= j THEN p[i] ELSE q[i - j]
    <2>1. p \in Seq(Nat) /\ q \in Seq(Nat) /\ Len(p) = j /\ Len(q) = k - 1
      BY <1>2, <1>3
    <2>2. /\ made \in Seq(Nat) /\ Len(made) = Len(p) + Len(q)
          /\ \A i \in 1 .. Len(p) + Len(q) : made[i] = IF i <= Len(p) THEN p[i] ELSE q[i - Len(p)]
      BY <2>1, ConcatProperties
    <2> HIDE DEF made
    <2>3. QED
      BY <2>1, <2>2, Zenon
  <1> HIDE DEF made
  <1>6. Apart(d, j + k, s, k)
    BY <1>1
  <1>7. Span(f, k) \subseteq Span(d, j + k)
    BY <1>1 DEF Span
  <1>8. Apart(f, k, s, k) /\ Span(f, k) \subseteq Addrs
    BY <1>6, <1>7 DEF Apart
  <1>9. Span(s, k) \subseteq Addrs /\ (f <= s \/ s + k <= f)
    BY <1>1, <1>8, ApartBlocks
  <1>10. strcat(m, d, s) = new
    <2>1. Forward(m, f, s, k) = Moved(m, f, s, k)
      BY <1>1, <1>8, <1>9, ForwardMoves
    <2>2. QED
      BY <1>1, <2>1, Zenon DEF strcat, strcpy
  <1>11. ASSUME NEW b \in Addrs PROVE new[b] = IF b \in Span(f, k) THEN m[s + b - f] ELSE m[b]
    BY DEF Moved
  <1> HIDE DEF new
  <1>12. SIZE \in Nat /\ Addrs \subseteq Int
    BY MemoryAssumption DEF Addrs
  <1>13. ASSUME NEW i \in 1 .. Len(made) PROVE new[d + i - 1] = made[i]
    <2>1. i \in 1 .. j + (k - 1) /\ d + i - 1 \in Span(d, j + k)
      BY <1>1, <1>5 DEF Span
    <2>2. d + i - 1 \in Addrs
      BY <1>6, <2>1 DEF Apart
    <2>3. CASE i <= j
      <3>1. d + i - 1 \notin Span(f, k) /\ i \in 1 .. j
        BY <1>1, <2>1, <2>3 DEF Span
      <3>2. QED
        BY <1>3, <1>5, <1>11, <2>1, <2>2, <2>3, <3>1
    <2>4. CASE ~(i <= j)
      <3>1. d + i - 1 \in Span(f, k) /\ i - j \in 1 .. k - 1 /\ s + (d + i - 1) - f = s + (i - j) - 1
        BY <1>1, <2>1, <2>4 DEF Span
      <3>2. new[d + i - 1] = m[s + (i - j) - 1]
        BY <1>11, <2>2, <3>1
      <3>3. made[i] = q[i - j]
        BY <1>5, <2>1, <2>4
      <3>4. QED
        BY <1>2, <3>1, <3>2, <3>3
    <2>5. QED
      BY <2>3, <2>4
  <1>14. new[d + Len(made)] = 0
    <2>1. d + Len(made) \in Span(f, k) /\ s + (d + Len(made)) - f = s + (k - 1)
      BY <1>1, <1>5 DEF Span
    <2>2. d + Len(made) \in Addrs
      BY <1>8, <2>1
    <2>3. QED
      BY <1>4, <1>11, <2>1, <2>2
  <1>15. Block(new, d, Len(made) + 1) = Append(made, 0)
    BY <1>5, <1>13, <1>14, EndedBlock
  <1>16. ASSUME NEW b \in Addrs \ Span(d, Len(made) + 1) PROVE new[b] = m[b]
    <2>1. Len(made) + 1 = j + k
      BY <1>1, <1>5
    <2>2. b \notin Span(f, k)
      BY <1>7, <2>1
    <2>3. QED
      BY <1>11, <2>2
  <1>17. Made(new, m, d, made, Len(made) + 1)
    BY <1>15, <1>16 DEF Made
  <1>18. QED
    BY <1>10, <1>17 DEF made, p, q

(* n bytes hold a string and its terminator: the whole source, when the    *)
(* terminator is copied with it, or the n - 1 bytes before the one that is *)
(* cleared.                                                                *)
LEMMA safestrcpyMakes ==
  ASSUME NEW m \in Memories, NEW d \in Nat, NEW s \in Nat, NEW n \in Nat, n > 0,
         Apart(d, n, s, n)
  PROVE  LET source == Block(m, s, n - 1)
             ends   == { i \in DOMAIN source : source[i] = 0 }
             made   == IF ends = {} THEN source ELSE SubSeq(source, 1, Min(ends) - 1)
         IN  Made(safestrcpy(m, d, s, n), m, d, made, n)
  <1> DEFINE source == Block(m, s, n - 1)
             ends == { i \in DOMAIN source : source[i] = 0 }
             made == IF ends = {} THEN source ELSE SubSeq(source, 1, Min(ends) - 1)
             zeros == { j \in 1 .. n - 1 : m[s + j - 1] = 0 }
             k == IF zeros = {} THEN n - 1 ELSE Min(zeros)
             half == Moved(m, d, s, k)
             new == [half EXCEPT ![d + k] = 0]
  <1>1. Span(d, n) \subseteq Addrs /\ Span(s, n) \subseteq Addrs /\ (d <= s \/ s + n <= d)
    BY ApartBlocks
  <1>2. SIZE \in Nat /\ Addrs \subseteq Int
    BY MemoryAssumption DEF Addrs
  <1>3. /\ source \in Seq(Nat) /\ Len(source) = n - 1 /\ DOMAIN source = 1 .. n - 1
        /\ \A i \in 1 .. n - 1 : source[i] = m[s + i - 1]
    <2>1. n - 1 \in Nat
      OBVIOUS
    <2>2. Span(s, n - 1) \subseteq Addrs
      BY <1>1 DEF Span
    <2>3. /\ source \in Seq(Nat) /\ Len(source) = n - 1
          /\ \A i \in 1 .. n - 1 : source[i] = m[s + i - 1]
      BY <2>1, <2>2, BlockIsSeq
    <2> HIDE DEF source
    <2>4. DOMAIN source = 1 .. n - 1
      BY <2>3, LenProperties
    <2>5. QED
      BY <2>3, <2>4
  <1> HIDE DEF source
  <1>4. ends = zeros
    BY <1>3
  <1>5. zeros # {} => k \in zeros /\ \A y \in zeros : k <= y
    <2>1. zeros \in SUBSET Nat
      OBVIOUS
    <2> HIDE DEF zeros
    <2>2. QED
      BY <2>1, MinExists
  <1>6. k \in 0 .. n - 1
    <2>1. CASE zeros = {}
      BY <2>1
    <2>2. CASE zeros # {}
      BY <1>5, <2>2
    <2>3. QED
      BY <2>1, <2>2
  <1>7. zeros # {} => k \in 1 .. n - 1 /\ m[s + k - 1] = 0
    BY <1>5
  <1>8. zeros = {} => k = n - 1
    OBVIOUS
  <1>9. safestrcpy(m, d, s, n) = [Forward(m, d, s, k) EXCEPT ![d + k] = 0]
    BY DEF safestrcpy
  <1>10. made = IF zeros = {} THEN source ELSE SubSeq(source, 1, k - 1)
    BY <1>4
  <1> HIDE DEF k, zeros, ends, made
  <1>11. Span(d, k) \subseteq Addrs /\ Span(s, k) \subseteq Addrs /\ (d <= s \/ s + k <= d) /\ d + k \in Span(d, n)
    BY <1>1, <1>6 DEF Span
  <1>12. k \in Nat /\ d + k \in Addrs
    BY <1>1, <1>6, <1>11
  <1>13. safestrcpy(m, d, s, n) = new
    <2>1. Forward(m, d, s, k) = half
      BY <1>11, <1>12, ForwardMoves
    <2>2. QED
      BY <1>9, <2>1, Zenon
  <1>14. ASSUME NEW b \in Addrs
         PROVE  new[b] = IF b = d + k THEN 0 ELSE IF b \in Span(d, k) THEN m[s + b - d] ELSE m[b]
    <2>1. half[b] = IF b \in Span(d, k) THEN m[s + b - d] ELSE m[b]
      BY DEF Moved
    <2>2. DOMAIN half = Addrs
      BY DEF Moved
    <2> HIDE DEF half
    <2>3. QED
      BY <2>1, <2>2
  <1> HIDE DEF half, new
  <1>15. made \in Seq(Nat) /\ Len(made) <= n - 1 /\ \A i \in 1 .. Len(made) : made[i] = m[s + i - 1]
    <2>1. CASE zeros = {}
      BY <1>3, <1>10, <2>1
    <2>2. CASE zeros # {}
      <3>1. k - 1 \in Nat /\ 1 \in 1 .. Len(source) + 1 /\ k - 1 \in 1 - 1 .. Len(source)
        BY <1>3, <1>7, <2>2
      <3> DEFINE t == SubSeq(source, 1, k - 1)
      <3>2. /\ t \in Seq(Nat) /\ Len(t) = (k - 1) - 1 + 1
            /\ \A i \in 1 .. (k - 1) - 1 + 1 : t[i] = source[1 + i - 1]
        <4> DEFINE j == k - 1
        <4>1. j \in Nat /\ 1 \in Int
          BY <3>1
        <4>2. ASSUME NEW i \in 1 .. j PROVE source[i] \in Nat
          <5>1. i \in 1 .. Len(source)
            BY <1>3, <1>6
          <5>2. QED
            BY <1>3, <5>1, ElementOfSeq
        <4> HIDE DEF j
        <4>3. /\ SubSeq(source, 1, j) \in Seq(Nat)
              /\ Len(SubSeq(source, 1, j)) = IF 1 <= j THEN j - 1 + 1 ELSE 0
              /\ \A i \in 1 .. j - 1 + 1 : SubSeq(source, 1, j)[i] = source[1 + i - 1]
          BY <4>1, <4>2, SubSeqProperties
        <4>4. (IF 1 <= j THEN j - 1 + 1 ELSE 0) = j - 1 + 1
          BY <4>1
        <4>5. QED
          BY <4>3, <4>4 DEF j
      <3> HIDE DEF t
      <3>3. made = t
        BY <1>10, <2>2 DEF t
      <3>4. Len(made) = k - 1 /\ k - 1 <= n - 1
        BY <1>6, <3>1, <3>2, <3>3
      <3>5. ASSUME NEW i \in 1 .. Len(made) PROVE made[i] = m[s + i - 1]
        <4>1. i \in 1 .. (k - 1) - 1 + 1 /\ 1 + i - 1 = i /\ i \in 1 .. n - 1
          BY <1>12, <3>4
        <4>2. made[i] = source[i]
          BY <3>2, <3>3, <4>1
        <4>3. QED
          BY <1>3, <4>1, <4>2
      <3>6. QED
        BY <3>2, <3>3, <3>4, <3>5
    <2>3. QED
      BY <2>1, <2>2
  <1>16. (zeros = {} => Len(made) = k) /\ (zeros # {} => Len(made) = k - 1)
    <2>1. CASE zeros = {}
      BY <1>3, <1>8, <1>10, <2>1
    <2>2. CASE zeros # {}
      <3>1. k - 1 \in Nat /\ k - 1 <= Len(source)
        BY <1>3, <1>7, <2>2
      <3>2. Len(SubSeq(source, 1, k - 1)) = k - 1
        BY <1>3, <3>1
      <3>3. QED
        BY <1>10, <2>2, <3>2, Zenon
    <2>3. QED
      BY <2>1, <2>2
  <1>17. ASSUME NEW i \in 1 .. Len(made) PROVE new[d + i - 1] = made[i]
    <2>1. Len(made) \in Nat /\ i \in 1 .. k
      BY <1>12, <1>15, <1>16
    <2>2. d + i - 1 \in Span(d, k) /\ d + i - 1 # d + k /\ s + (d + i - 1) - d = s + i - 1
      BY <1>12, <2>1 DEF Span
    <2>3. d + i - 1 \in Addrs
      BY <1>11, <2>2
    <2>4. new[d + i - 1] = m[s + (d + i - 1) - d]
      BY <1>14, <2>2, <2>3
    <2>5. QED
      BY <1>15, <2>2, <2>4
  <1>18. new[d + Len(made)] = 0
    <2>1. CASE zeros = {}
      BY <1>12, <1>14, <1>16, <2>1
    <2>2. CASE zeros # {}
      <3>1. Len(made) = k - 1 /\ k \in 1 .. n - 1 /\ m[s + k - 1] = 0
        BY <1>7, <1>16, <2>2
      <3>2. d + (k - 1) \in Span(d, k) /\ d + (k - 1) # d + k /\ s + (d + (k - 1)) - d = s + k - 1
        BY <3>1 DEF Span
      <3>3. d + (k - 1) \in Addrs
        BY <1>11, <3>2
      <3>4. new[d + (k - 1)] = m[s + (d + (k - 1)) - d]
        BY <1>14, <3>2, <3>3
      <3>5. QED
        BY <3>1, <3>2, <3>4
    <2>3. QED
      BY <2>1, <2>2
  <1>19. Block(new, d, Len(made) + 1) = Append(made, 0)
    BY <1>15, <1>17, <1>18, EndedBlock
  <1>20. ASSUME NEW b \in Addrs \ Span(d, n) PROVE new[b] = m[b]
    <2>1. b \notin Span(d, k) /\ b # d + k
      BY <1>6, <1>11 DEF Span
    <2>2. QED
      BY <1>14, <2>1
  <1>21. Made(new, m, d, made, n)
    BY <1>19, <1>20 DEF Made
  <1>22. QED
    BY <1>13, <1>21 DEF made, ends, source

LEMMA StringsAreCopied ==
  ASSUME CallInv, call = NoCall, NEW d \in Addrs, NEW s \in Addrs, CopyString(d, s)
  PROVE  StringsAreBuilt'
  <1> DEFINE p == StringAt(before, d)
             q == StringAt(before, s)
             k == strlen(before, s) + 1
  <1>1. before \in Memories /\ d \in Nat /\ s \in Nat /\ mem = before /\ before' = before
    BY BeforeIsMemory DEF CallInv, CopyString, Call
  <1>2. IsString(before, s)
    BY <1>1 DEF CopyString
  <1>3. PICK e \in Nat : IsEnd(before, s, e)
    BY <1>1, <1>2, StringEnds
  <1>4. q \in Seq(Nat)
    BY <1>1, <1>3, StringSeq
  <1>5. CASE /\ Apart(d, k, s, k)
             /\ Call("strcpy", d, s, 0, strcpy(before, d, s), d)
    <2>1. mem' = strcpy(before, d, s) /\ call'.op = "strcpy" /\ call'.d = d /\ call'.s = s
      BY <1>5 DEF Call
    <2>2. Made(mem', before, d, q, Len(q) + 1)
      <3>1. Made(strcpy(before, d, s), before, d, q, Len(q) + 1)
        BY <1>1, <1>3, <1>5, strcpyMakes, Zenon
      <3>2. QED
        BY <2>1, <3>1, Zenon
    <2> HIDE DEF q
    <2>3. <<>> \o q = q
      BY <1>4
    <2>4. Made(mem', before', call'.d, <<>> \o StringAt(before', call'.s), Len(<<>> \o StringAt(before', call'.s)) + 1)
      BY <1>1, <2>1, <2>2, <2>3, Zenon DEF q
    <2>5. call'.op # "safestrcpy" /\ call'.op # "strcat"
      BY <2>1
    <2>6. QED
      BY <2>4, <2>5, Zenon DEF StringsAreBuilt, Made, ChangedWithin
  <1>6. CASE /\ IsString(before, d) /\ Apart(d, strlen(before, d) + k, s, k)
             /\ Call("strcat", d, s, 0, strcat(before, d, s), d)
    <2>1. mem' = strcat(before, d, s) /\ call'.op = "strcat" /\ call'.d = d /\ call'.s = s
      BY <1>6 DEF Call
    <2>2. PICK f \in Nat : IsEnd(before, d, f)
      BY <1>1, <1>6, StringEnds
    <2>3. Made(strcat(before, d, s), before, d, p \o q, Len(p \o q) + 1)
      BY <1>1, <1>3, <1>6, <2>2, strcatMakes, Zenon
    <2>4. Made(mem', before', call'.d, StringAt(before', call'.d) \o StringAt(before', call'.s),
               Len(StringAt(before', call'.d) \o StringAt(before', call'.s)) + 1)
      BY <1>1, <2>1, <2>3, Zenon
    <2>5. call'.op # "safestrcpy" /\ call'.op = "strcat"
      BY <2>1
    <2>6. QED
      BY <2>4, <2>5, Zenon DEF StringsAreBuilt, Made, ChangedWithin
  <1>7. QED
    BY <1>1, <1>5, <1>6, Zenon DEF CopyString

LEMMA BoundedAreCopied ==
  ASSUME CallInv, call = NoCall, NEW d \in Addrs, NEW s \in Addrs, NEW n \in Ints,
         CopyBounded(d, s, n)
  PROVE  StringsAreBuilt'
  <1>1. /\ before \in Memories /\ d \in Nat /\ s \in Nat /\ mem = before /\ before' = before
        /\ Apart(d, n, s, n) /\ mem' = safestrcpy(before, d, s, n)
        /\ call'.op = "safestrcpy" /\ call'.d = d /\ call'.s = s /\ call'.n = n
    BY BeforeIsMemory DEF CallInv, CopyBounded, Call
  <1>2. n \in Int
    BY MemoryAssumption
  <1> DEFINE source == Block(before, s, n - 1)
             ends == { i \in DOMAIN source : source[i] = 0 }
             made == IF ends = {} THEN source ELSE SubSeq(source, 1, Min(ends) - 1)
  <1>3. /\ \A b \in Addrs \ Span(d, n) : mem'[b] = before[b]
        /\ n > 0 => Block(mem', d, Len(made) + 1) = Append(made, 0)
    <2>1. CASE n > 0
      <3>1. n \in Nat
        BY <1>2, <2>1
      <3>2. Made(safestrcpy(before, d, s, n), before, d, made, n)
        <4>1. before \in Memories /\ d \in Nat /\ s \in Nat /\ Apart(d, n, s, n)
          BY <1>1
        <4>2. QED
          BY <2>1, <3>1, <4>1, safestrcpyMakes
      <3> HIDE DEF made
      <3>3. QED
        BY <1>1, <3>2, Zenon DEF Made
    <2>2. CASE ~(n > 0)
      <3>1. n <= 0
        BY <1>2, <2>2
      <3>2. mem' = before
        BY <1>1, <3>1, Zenon DEF safestrcpy
      <3>3. QED
        BY <2>2, <3>2, Zenon
    <2>3. QED
      BY <2>1, <2>2
  <1>4. call'.op # "strcpy" /\ call'.op # "strcat"
    BY <1>1
  <1>5. made = LET v == Block(before', call'.s, call'.n - 1)
                   w == { i \in DOMAIN v : v[i] = 0 }
               IN  IF w = {} THEN v ELSE SubSeq(v, 1, Min(w) - 1)
    BY <1>1, Zenon
  <1> HIDE DEF made
  <1>6. ChangedWithin(call.d, call.n)' /\ (call'.n > 0 => Block(mem', call'.d, Len(made) + 1) = Append(made, 0))
    BY <1>1, <1>3, Zenon DEF ChangedWithin
  <1>7. QED
    BY <1>4, <1>5, <1>6, Zenon DEF StringsAreBuilt

LEMMA StepBuilds ==
  ASSUME CallInv, StringsAreBuilt, [PrintNext]_vars
  PROVE  StringsAreBuilt'
  <1>1. CASE PrintNext
    <2>1. CASE \E d \in Addrs, s \in Addrs : CopyString(d, s)
      BY <1>1, <2>1, CallsMade, StringsAreCopied
    <2>2. CASE \E d \in Addrs, s \in Addrs, n \in Ints : CopyBounded(d, s, n)
      BY <1>1, <2>2, CallsMade, BoundedAreCopied
    <2>3. CASE call'.op \notin {"strcpy", "strcat", "safestrcpy"}
      BY <2>3, Zenon DEF StringsAreBuilt
    <2>4. QED
      BY <1>1, <2>1, <2>2, <2>3, CallsMade, OpOf
  <1>2. CASE UNCHANGED vars
    <2>1. mem' = mem /\ before' = before /\ call' = call
      BY <1>2 DEF vars
    <2>2. QED
      BY <2>1 DEF StringsAreBuilt, ChangedWithin
  <1>3. QED
    BY <1>1, <1>2

(* strcpy, strcat and safestrcpy leave a terminated string of the          *)
(* characters they should, cut to fit n by safestrcpy, and touch no byte   *)
(* beyond it.                                                              *)
THEOREM StringsBuilt == PrintSpec => []StringsAreBuilt
  <1>1. Init => StringsAreBuilt
    BY DEF Init, NoCall, StringsAreBuilt
  <1>2. QED
    BY <1>1, InitCallInv, MadeOnce, StepBuilds, PTL DEF PrintSpec

-----------------------------------------------------------------------------
(* Sequences put together.  P[j] is what the first j of them make. *)
BuiltUp(P, q, n) == P[0] = <<>> /\ \A j \in 1 .. n : P[j] = P[j - 1] \o q[j]

Flat(f, q, k) == [i \in 1 .. k |-> IF i = 1 THEN q[i] ELSE f[i - 1] \o q[i]]

LEMMA FlatExists ==
  ASSUME NEW q
  PROVE  \A k \in Nat : \E f : f = Flat(f, q, k)
  <1> DEFINE S == { k \in Nat : \E f : f = Flat(f, q, k) }
  <1>1. 0 \in S
    <2> DEFINE g == [i \in 1 .. 0 |-> 0]
    <2>1. g = Flat(g, q, 0)
      BY DEF Flat
    <2> HIDE DEF g
    <2>2. QED
      BY <2>1
  <1>2. ASSUME NEW k \in S PROVE k + 1 \in S
    <2>1. k \in Nat
      OBVIOUS
    <2>2. PICK f : f = Flat(f, q, k)
      OBVIOUS
    <2> DEFINE next == IF k + 1 = 1 THEN q[k + 1] ELSE f[k] \o q[k + 1]
               g == [i \in 1 .. k + 1 |-> IF i <= k THEN f[i] ELSE next]
    <2>3. \A i \in 1 .. k : f[i] = IF i = 1 THEN q[i] ELSE f[i - 1] \o q[i]
      BY <2>2 DEF Flat
    <2>4. ASSUME NEW i \in 1 .. k + 1 PROVE g[i] = IF i = 1 THEN q[i] ELSE g[i - 1] \o q[i]
      <3>1. i # 1 => i - 1 \in 1 .. k
        BY <2>1
      <3>2. i # 1 => g[i - 1] = f[i - 1]
        BY <2>1, <3>1
      <3>3. CASE i <= k
        <4>1. i \in 1 .. k /\ g[i] = f[i]
          BY <2>1, <3>3
        <4> HIDE DEF g
        <4>2. QED
          BY <2>3, <3>2, <4>1
      <3>4. CASE ~(i <= k)
        <4>1. i = k + 1 /\ i - 1 = k
          BY <2>1, <3>4
        <4>2. g[i] = next
          BY <3>4
        <4> HIDE DEF g
        <4>3. QED
          BY <3>2, <4>1, <4>2
      <3>5. QED
        BY <3>3, <3>4
    <2>5. g = [i \in 1 .. k + 1 |-> g[i]]
      OBVIOUS
    <2> HIDE DEF g
    <2>6. g = Flat(g, q, k + 1)
      BY <2>4, <2>5 DEF Flat
    <2>7. QED
      BY <2>1, <2>6
  <1>3. S \in SUBSET Nat
    OBVIOUS
  <1> HIDE DEF S
  <1>4. \A k \in Nat : k \in S
    BY <1>1, <1>2, <1>3, SetInduction
  <1>5. QED
    BY <1>4 DEF S

LEMMA PrefixesTyped ==
  ASSUME NEW S, NEW n \in Nat, NEW q \in [1 .. n -> Seq(S)], NEW P, BuiltUp(P, q, n)
  PROVE  \A j \in 0 .. n : P[j] \in Seq(S)
  <1> DEFINE T == { j \in Nat : j <= n => P[j] \in Seq(S) }
  <1>1. P[0] = <<>> /\ \A j \in 1 .. n : P[j] = P[j - 1] \o q[j]
    BY Zenon DEF BuiltUp
  <1>2. 0 \in T
    <2>1. <<>> \in Seq(S)
      OBVIOUS
    <2>2. P[0] \in Seq(S)
      BY <1>1, <2>1, Zenon
    <2>3. QED
      BY <2>2
  <1>3. ASSUME NEW j \in T PROVE j + 1 \in T
    <2> SUFFICES ASSUME j + 1 <= n PROVE P[j + 1] \in Seq(S)
      OBVIOUS
    <2> DEFINE i == j + 1
    <2>1. i \in 1 .. n /\ i - 1 = j /\ P[j] \in Seq(S)
      OBVIOUS
    <2> HIDE DEF i
    <2>2. P[i] = P[i - 1] \o q[i]
      BY <1>1, <2>1, Zenon
    <2>3. q[i] \in Seq(S)
      BY <2>1
    <2>4. P[j] \o q[i] \in Seq(S)
      BY <2>1, <2>3, ConcatProperties
    <2>5. P[i] \in Seq(S)
      BY <2>1, <2>2, <2>4, Zenon
    <2>6. QED
      BY <2>5 DEF i
  <1>4. T \in SUBSET Nat
    OBVIOUS
  <1> HIDE DEF T
  <1>5. \A j \in Nat : j \in T
    BY <1>2, <1>3, <1>4, SetInduction
  <1>6. QED
    BY <1>5 DEF T

LEMMA Flattened ==
  ASSUME NEW S, NEW n \in Nat, NEW q \in [1 .. n -> Seq(S)]
  PROVE  \E P : BuiltUp(P, q, n) /\ FlattenSeq(q) = P[n]
  <1>1. Len(q) = n
    <2>1. q \in Seq(Seq(S)) /\ DOMAIN q = 1 .. n
      OBVIOUS
    <2>2. QED
      BY <2>1, LenProperties
  <1>2. CASE n = 0
    <2> DEFINE P == [j \in 0 .. 0 |-> <<>>]
    <2>1. q = <<>>
      BY <1>2
    <2>2. FlattenSeq(q) = q
      BY <1>1, <1>2 DEF FlattenSeq
    <2>3. P[0] = <<>>
      OBVIOUS
    <2> HIDE DEF P
    <2>4. BuiltUp(P, q, n) /\ FlattenSeq(q) = P[n]
      BY <1>2, <2>1, <2>2, <2>3 DEF BuiltUp
    <2>5. QED
      BY <2>4
  <1>3. CASE n # 0
    <2> DEFINE D(f) == [i \in 1 .. Len(q) |-> IF i = 1 THEN q[i] ELSE f[i - 1] \o q[i]]
               f == CHOOSE f : f = D(f)
               P == [j \in 0 .. n |-> IF j = 0 THEN <<>> ELSE f[j]]
    <2>1. FlattenSeq(q) = f[Len(q)]
      BY <1>1, <1>3 DEF FlattenSeq
    <2>2. \A h : D(h) = Flat(h, q, n)
      BY <1>1 DEF Flat
    <2> HIDE DEF D
    <2>3. \E h : h = D(h)
      <3>1. PICK h : h = Flat(h, q, n)
        BY FlatExists
      <3>2. h = D(h)
        BY <2>2, <3>1, Zenon
      <3>3. QED
        BY <3>2, Zenon
    <2>4. f = Flat(f, q, n)
      BY <2>2, <2>3, Zenon
    <2> HIDE DEF f
    <2>5. \A i \in 1 .. n : f[i] = IF i = 1 THEN q[i] ELSE f[i - 1] \o q[i]
      BY <2>4 DEF Flat
    <2>6. P[0] = <<>> /\ \A j \in 1 .. n : P[j] = f[j]
      OBVIOUS
    <2> HIDE DEF P
    <2>7. ASSUME NEW j \in 1 .. n PROVE P[j] = P[j - 1] \o q[j]
      <3>1. CASE j = 1
        <4>1. q[j] \in Seq(S)
          OBVIOUS
        <4>2. <<>> \o q[j] = q[j]
          BY <4>1
        <4>3. j - 1 = 0 /\ P[j] = q[j]
          BY <2>5, <2>6, <3>1
        <4>4. QED
          BY <2>6, <4>2, <4>3
      <3>2. CASE j # 1
        <4>1. j - 1 \in 1 .. n
          BY <3>2
        <4>2. P[j] = f[j] /\ P[j - 1] = f[j - 1] /\ f[j] = f[j - 1] \o q[j]
          BY <2>5, <2>6, <3>2, <4>1
        <4>3. QED
          BY <4>2
      <3>3. QED
        BY <3>1, <3>2
    <2>8. BuiltUp(P, q, n)
      BY <2>6, <2>7 DEF BuiltUp
    <2>9. FlattenSeq(q) = P[n]
      BY <1>1, <1>3, <2>1, <2>6
    <2>10. QED
      BY <2>8, <2>9
  <1>4. QED
    BY <1>2, <1>3

(* The first j of them lie at the beginning of what the first k make. *)
Within(P, j, k) ==
  /\ Len(P[j]) \in Nat /\ Len(P[k]) \in Nat /\ Len(P[j]) <= Len(P[k])
  /\ \A x \in 1 .. Len(P[j]) : P[k][x] = P[j][x]

(* The j-th of them lies behind the first j - 1. *)
LiesAt(P, q, j) ==
  /\ Len(P[j]) = Len(P[j - 1]) + Len(q[j])
  /\ \A x \in 1 .. Len(q[j]) : P[j][Len(P[j - 1]) + x] = q[j][x]

LEMMA OneMore ==
  ASSUME NEW S, NEW n \in Nat, NEW q \in [1 .. n -> Seq(S)], NEW P, BuiltUp(P, q, n),
         NEW j \in 1 .. n
  PROVE  Within(P, j - 1, j) /\ LiesAt(P, q, j)
  <1> DEFINE a == P[j - 1]
             b == q[j]
             c == P[j]
  <1>1. \A k \in 0 .. n : P[k] \in Seq(S)
    BY PrefixesTyped
  <1>2. a \in Seq(S) /\ b \in Seq(S)
    <2>1. j - 1 \in 0 .. n
      OBVIOUS
    <2>2. a \in Seq(S)
      BY <1>1, <2>1
    <2>3. QED
      BY <2>2
  <1>3. c = a \o b
    BY Zenon DEF BuiltUp
  <1> HIDE DEF a, b, c
  <1>4. /\ a \o b \in Seq(S)
        /\ Len(a \o b) = Len(a) + Len(b)
        /\ \A x \in 1 .. Len(a) + Len(b) :
             (a \o b)[x] = IF x <= Len(a) THEN a[x] ELSE b[x - Len(a)]
    BY <1>2, ConcatProperties
  <1>5. Len(a) \in Nat /\ Len(b) \in Nat
    BY <1>2
  <1>6. Len(c) = Len(a) + Len(b) /\ \A x \in 1 .. Len(a) + Len(b) :
             c[x] = IF x <= Len(a) THEN a[x] ELSE b[x - Len(a)]
    BY <1>3, <1>4, Zenon
  <1>7. \A x \in 1 .. Len(a) : c[x] = a[x]
    BY <1>5, <1>6
  <1>8. ASSUME NEW x \in 1 .. Len(b) PROVE c[Len(a) + x] = b[x]
    <2>1. Len(a) + x \in 1 .. Len(a) + Len(b) /\ ~(Len(a) + x <= Len(a)) /\ Len(a) + x - Len(a) = x
      BY <1>5
    <2>2. QED
      BY <1>6, <2>1
  <1>9. Len(c) \in Nat /\ Len(a) <= Len(c)
    BY <1>5, <1>6
  <1>10. Within(P, j - 1, j)
    BY <1>5, <1>7, <1>9, Zenon DEF Within, a, c
  <1>11. LiesAt(P, q, j)
    BY <1>6, <1>8, Zenon DEF LiesAt, a, b, c
  <1>12. QED
    BY <1>10, <1>11

LEMMA WithinChain ==
  ASSUME NEW P, NEW i, NEW j, NEW k, Within(P, i, j), Within(P, j, k)
  PROVE  Within(P, i, k)
  <1> DEFINE a == P[i]
             b == P[j]
             c == P[k]
  <1>1. /\ Len(a) \in Nat /\ Len(b) \in Nat /\ Len(c) \in Nat
        /\ Len(a) <= Len(b) /\ Len(b) <= Len(c)
        /\ \A x \in 1 .. Len(a) : b[x] = a[x]
        /\ \A x \in 1 .. Len(b) : c[x] = b[x]
    BY Zenon DEF Within
  <1> HIDE DEF a, b, c
  <1>2. Len(a) <= Len(c) /\ \A x \in 1 .. Len(a) : c[x] = a[x]
    BY <1>1
  <1>3. QED
    BY <1>1, <1>2, Zenon DEF Within, a, b, c

LEMMA AllWithin ==
  ASSUME NEW S, NEW n \in Nat, NEW q \in [1 .. n -> Seq(S)], NEW P, BuiltUp(P, q, n),
         NEW j \in 0 .. n
  PROVE  Within(P, j, n)
  <1> DEFINE T == { d \in Nat : j + d <= n => Within(P, j, j + d) }
  <1>1. \A k \in 0 .. n : P[k] \in Seq(S)
    BY PrefixesTyped
  <1>2. 0 \in T
    <2>1. j + 0 = j /\ Len(P[j]) \in Nat
      BY <1>1
    <2>2. Within(P, j, j)
      BY <2>1 DEF Within
    <2>3. QED
      BY <2>1, <2>2
  <1>3. ASSUME NEW d \in T PROVE d + 1 \in T
    <2> SUFFICES ASSUME j + (d + 1) <= n PROVE Within(P, j, j + (d + 1))
      OBVIOUS
    <2> DEFINE k == j + (d + 1)
    <2>1. k \in 1 .. n /\ k - 1 = j + d /\ j + d <= n
      OBVIOUS
    <2>2. Within(P, j, j + d)
      BY <2>1
    <2> HIDE DEF k
    <2>3. Within(P, k - 1, k)
      BY <2>1, OneMore
    <2>4. Within(P, j, k)
      BY <2>1, <2>2, <2>3, WithinChain
    <2>5. QED
      BY <2>4 DEF k
  <1>4. T \in SUBSET Nat
    OBVIOUS
  <1> HIDE DEF T
  <1>5. \A d \in Nat : d \in T
    BY <1>2, <1>3, <1>4, SetInduction
  <1>6. n - j \in Nat /\ j + (n - j) = n
    OBVIOUS
  <1>7. n - j \in T
    BY <1>5, <1>6
  <1>8. QED
    BY <1>6, <1>7 DEF T

(* So it lies in what all of them make. *)
LiesIn(P, q, n, j) ==
  /\ Len(P[n]) \in Nat /\ Len(P[j - 1]) \in Nat /\ Len(q[j]) \in Nat
  /\ Len(P[j]) = Len(P[j - 1]) + Len(q[j]) /\ Len(P[j]) <= Len(P[n])
  /\ \A x \in 1 .. Len(q[j]) : P[n][Len(P[j - 1]) + x] = q[j][x]

LEMMA LiesInside ==
  ASSUME NEW S, NEW n \in Nat, NEW q \in [1 .. n -> Seq(S)], NEW P, BuiltUp(P, q, n),
         NEW j \in 1 .. n
  PROVE  LiesIn(P, q, n, j)
  <1>1. Within(P, j - 1, j) /\ LiesAt(P, q, j)
    BY OneMore
  <1>2. Within(P, j, n)
    <2>1. j \in 0 .. n
      OBVIOUS
    <2>2. QED
      BY <2>1, AllWithin
  <1>3. Len(P[n]) \in Nat /\ Len(q[j]) \in Nat
    <2>1. \A k \in 0 .. n : P[k] \in Seq(S)
      BY PrefixesTyped
    <2>2. QED
      BY <2>1
  <1> DEFINE a == P[j - 1]
             b == q[j]
             c == P[j]
             t == P[n]
  <1>4. /\ Len(a) \in Nat /\ Len(c) = Len(a) + Len(b) /\ Len(c) <= Len(t)
        /\ \A x \in 1 .. Len(b) : c[Len(a) + x] = b[x]
        /\ \A x \in 1 .. Len(c) : t[x] = c[x]
    BY <1>1, <1>2, Zenon DEF Within, LiesAt
  <1>5. Len(b) \in Nat
    BY <1>3
  <1> HIDE DEF a, b, c, t
  <1>6. ASSUME NEW x \in 1 .. Len(b) PROVE t[Len(a) + x] = b[x]
    <2>1. Len(a) + x \in 1 .. Len(c)
      BY <1>4, <1>5
    <2>2. QED
      BY <1>4, <2>1
  <1>7. QED
    BY <1>3, <1>4, <1>6, Zenon DEF LiesIn, a, b, c, t

-----------------------------------------------------------------------------
(* What a piece means is a sequence.  The digits of a number stand behind  *)
(* those of a smaller one.                                                 *)
LEMMA QuotSmaller ==
  ASSUME NEW n \in Int
  PROVE  Quot(n) \in Int /\ Rem(n) \in Int /\ (Quot(n) > 0 => 0 < n /\ Quot(n) < n)
  <1>1. n >= 0 => n \div 10 \in Nat /\ (n > 0 => n \div 10 < n)
    OBVIOUS
  <1>2. n < 0 => (-n) \div 10 \in Nat
    OBVIOUS
  <1>3. Quot(n) \in Int /\ (Quot(n) > 0 => 0 < n /\ Quot(n) < n)
    BY <1>1, <1>2 DEF Quot
  <1>4. QED
    BY <1>3 DEF Rem

Digit(f, n)  == (IF Quot(n) > 0 THEN f[Quot(n)] ELSE <<>>) \o <<Ch.zero + Rem(n)>>
Digits(f, k) == [n \in Least .. k |-> Digit(f, n)]

LEMMA Bounds == INT \in Nat /\ Least \in Int /\ Least <= -1 /\ -Least - 1 \in Nat /\ NIBBLES \in Nat
  BY PrintAssumption DEF Least

LEMMA DigitAgrees ==
  ASSUME NEW n, NEW f, NEW g, Quot(n) > 0 => f[Quot(n)] = g[Quot(n)]
  PROVE  Digit(f, n) = Digit(g, n)
  BY Zenon DEF Digit

LEMMA DigitsExist == \A k \in Nat : \E f : f = Digits(f, k)
  <1> DEFINE S == { k \in Nat : \E f : f = Digits(f, k) }
  <1>1. 0 \in S
    <2> DEFINE g == [n \in Least .. 0 |-> Digit(<<>>, n)]
    <2>1. ASSUME NEW n \in Least .. 0 PROVE g[n] = Digit(g, n)
      <3>1. ~(Quot(n) > 0)
        BY QuotSmaller, Bounds
      <3>2. g[n] = Digit(<<>>, n)
        OBVIOUS
      <3> HIDE DEF g
      <3>3. Digit(<<>>, n) = Digit(g, n)
        BY <3>1, DigitAgrees
      <3>4. QED
        BY <3>2, <3>3, Zenon
    <2>2. g = [n \in Least .. 0 |-> g[n]]
      OBVIOUS
    <2> HIDE DEF g
    <2>3. g = Digits(g, 0)
      BY <2>1, <2>2 DEF Digits
    <2>4. QED
      BY <2>3
  <1>2. ASSUME NEW k \in S PROVE k + 1 \in S
    <2>1. k \in Nat
      OBVIOUS
    <2>2. PICK f : f = Digits(f, k)
      OBVIOUS
    <2> DEFINE g == [n \in Least .. k + 1 |-> IF n <= k THEN f[n] ELSE Digit(f, n)]
    <2>3. \A n \in Least .. k : f[n] = Digit(f, n)
      BY <2>2, Zenon DEF Digits
    <2>4. \A n \in Least .. k : g[n] = f[n]
      BY <2>1, Bounds
    <2>5. ASSUME NEW n \in Least .. k + 1 PROVE g[n] = Digit(g, n)
      <3>1. n \in Int /\ Least \in Int /\ Least <= 0
        BY <2>1, Bounds
      <3>2. Quot(n) > 0 => Quot(n) \in Least .. k
        BY <2>1, <3>1, QuotSmaller
      <3>3. g[n] = Digit(f, n)
        <4>1. CASE n <= k
          <5>1. n \in Least .. k
            BY <3>1, <4>1, <2>1
          <5>2. g[n] = f[n] /\ f[n] = Digit(f, n)
            BY <2>3, <2>4, <5>1, Zenon
          <5>3. QED
            BY <5>2, Zenon
        <4>2. CASE ~(n <= k)
          BY <4>2
        <4>3. QED
          BY <4>1, <4>2
      <3> HIDE DEF g
      <3>4. Quot(n) > 0 => f[Quot(n)] = g[Quot(n)]
        BY <2>4, <3>2, Zenon
      <3>5. Digit(f, n) = Digit(g, n)
        BY <3>4, DigitAgrees, Zenon
      <3>6. QED
        BY <3>3, <3>5, Zenon
    <2>6. g = [n \in Least .. k + 1 |-> g[n]]
      OBVIOUS
    <2> HIDE DEF g
    <2>7. g = Digits(g, k + 1)
      BY <2>5, <2>6 DEF Digits
    <2>8. QED
      BY <2>1, <2>7
  <1>3. S \in SUBSET Nat
    OBVIOUS
  <1> HIDE DEF S
  <1>4. \A k \in Nat : k \in S
    BY <1>1, <1>2, <1>3, SetInduction
  <1>5. QED
    BY <1>4 DEF S

LEMMA DigitsTyped ==
  ASSUME NEW k \in Nat, NEW f, f = Digits(f, k)
  PROVE  \A n \in Least .. k : f[n] \in Seq(Int)
  <1> DEFINE T == { j \in Nat : \A n \in Least .. k : n <= j => f[n] \in Seq(Int) }
  <1>1. \A n \in Least .. k : f[n] = Digit(f, n)
    BY Zenon DEF Digits
  <1>2. ASSUME NEW n \in Least .. k, Quot(n) > 0 => f[Quot(n)] \in Seq(Int)
        PROVE  f[n] \in Seq(Int)
    <2> DEFINE a == IF Quot(n) > 0 THEN f[Quot(n)] ELSE <<>>
               b == <<Ch.zero + Rem(n)>>
    <2>1. a \in Seq(Int)
      BY <1>2
    <2>2. b \in Seq(Int)
      BY Bounds, QuotSmaller DEF Ch
    <2>3. f[n] = a \o b
      BY <1>1, Zenon DEF Digit
    <2> HIDE DEF a, b
    <2>4. a \o b \in Seq(Int)
      BY <2>1, <2>2, ConcatProperties
    <2>5. QED
      BY <2>3, <2>4, Zenon
  <1>3. 0 \in T
    <2> SUFFICES ASSUME NEW n \in Least .. k, n <= 0 PROVE f[n] \in Seq(Int)
      OBVIOUS
    <2>1. ~(Quot(n) > 0)
      BY Bounds, QuotSmaller
    <2>2. QED
      BY <1>2, <2>1, Zenon
  <1>4. ASSUME NEW j \in T PROVE j + 1 \in T
    <2> SUFFICES ASSUME NEW n \in Least .. k, n <= j + 1 PROVE f[n] \in Seq(Int)
      OBVIOUS
    <2>1. j \in Nat /\ \A i \in Least .. k : i <= j => f[i] \in Seq(Int)
      OBVIOUS
    <2>2. n \in Int /\ Least \in Int /\ Least <= 0
      BY Bounds
    <2> HIDE DEF T
    <2>3. Quot(n) > 0 => Quot(n) \in Least .. k /\ Quot(n) <= j
      <3>1. Quot(n) \in Int /\ (Quot(n) > 0 => Quot(n) < n)
        BY <2>2, QuotSmaller
      <3>2. QED
        BY <2>1, <2>2, <3>1
    <2>4. Quot(n) > 0 => f[Quot(n)] \in Seq(Int)
      BY <2>1, <2>3, Zenon
    <2>5. QED
      BY <1>2, <2>4, Zenon
  <1>5. T \in SUBSET Nat
    OBVIOUS
  <1> HIDE DEF T
  <1>6. \A j \in Nat : j \in T
    BY <1>3, <1>4, <1>5, SetInduction
  <1>7. k \in T
    BY <1>6
  <1>8. \A n \in Least .. k : n <= k
    BY Bounds
  <1>9. QED
    BY <1>7, <1>8 DEF T

LEMMA print_dTyped ==
  ASSUME NEW n \in IntRange
  PROVE  print_d(n) \in Seq(Int)
  <1> DEFINE k == -Least - 1
             f == CHOOSE f : f = Digits(f, k)
  <1>1. k \in Nat
    BY Bounds
  <1>2. print_d(n) = IF n < 0 THEN <<Ch.minus>> \o f[AsInt(-n)] ELSE f[n]
    BY Zenon DEF print_d, Digits, Digit, IntRange
  <1> HIDE DEF k
  <1>3. f = Digits(f, k)
    BY <1>1, DigitsExist, Zenon
  <1> HIDE DEF f
  <1>4. \A m \in Least .. k : f[m] \in Seq(Int)
    BY <1>1, <1>3, DigitsTyped
  <1>5. n \in Int /\ Least .. k = IntRange
    BY Bounds DEF IntRange, k
  <1>6. AsInt(-n) \in IntRange
    <2>1. (-n - Least) % INT \in 0 .. INT - 1
      BY <1>5, Bounds, PrintAssumption
    <2>2. INT - 1 + Least = -Least - 1
      BY PrintAssumption DEF Least
    <2>3. QED
      BY <2>1, <2>2, Bounds, PrintAssumption DEF AsInt, IntRange
  <1>7. f[AsInt(-n)] \in Seq(Int) /\ f[n] \in Seq(Int)
    BY <1>4, <1>5, <1>6, Zenon
  <1>8. <<Ch.minus>> \in Seq(Int)
    BY DEF Ch
  <1>9. <<Ch.minus>> \o f[AsInt(-n)] \in Seq(Int)
    BY <1>7, <1>8, ConcatProperties
  <1>10. QED
    BY <1>2, <1>7, <1>9, Zenon

-----------------------------------------------------------------------------
(* The walk along a format. *)
ArgAt(args, k) == IF k \in DOMAIN args THEN args[k] ELSE 0

(* What the walk makes from i on: u from i + 1 on and v from i + 2 on. *)
WalkAt(u, v, format, args, i) ==
  [k \in Nat |->
     IF i > Len(format) THEN <<>>
     ELSE IF format[i] # Ch.percent THEN <<format[i]>> \o u[k]
     ELSE Converted(format[i + 1], ArgAt(args, k)) \o v[k + ArgumentsTaken(format[i + 1])]]

FormatWalk(w, format, args, a) ==
  [i \in a .. Len(format) + 2 |-> WalkAt(w[i + 1], w[i + 2], format, args, i)]

LEMMA WalkEndsThere ==
  ASSUME NEW format, Len(format) \in Nat, NEW args, NEW u, NEW v, NEW i \in Nat, i > Len(format)
  PROVE  WalkAt(u, v, format, args, i) = [k \in Nat |-> <<>>]
  BY Zenon DEF WalkAt

LEMMA FormatWalkExists ==
  ASSUME NEW format, Len(format) \in Nat, NEW args
  PROVE  \E w : w = FormatWalk(w, format, args, 1)
  <1> DEFINE L == Len(format)
             S == { d \in Nat : d <= L => \E f : f = FormatWalk(f, format, args, L + 1 - d) }
  <1> HIDE DEF L
  <1>1. L \in Nat /\ L = Len(format)
    BY DEF L
  <1>2. 0 \in S
    <2> DEFINE nothing == [k \in Nat |-> <<>>]
               f == [i \in L + 1 .. L + 2 |-> nothing]
    <2>1. ASSUME NEW i \in L + 1 .. L + 2
          PROVE  f[i] = WalkAt(f[i + 1], f[i + 2], format, args, i)
      <3>1. i \in Nat /\ i > Len(format)
        BY <1>1
      <3>2. f[i] = nothing
        OBVIOUS
      <3> HIDE DEF f
      <3>3. WalkAt(f[i + 1], f[i + 2], format, args, i) = nothing
        BY <3>1, WalkEndsThere
      <3>4. QED
        BY <3>2, <3>3, Zenon
    <2>2. f = [i \in L + 1 .. L + 2 |-> f[i]]
      OBVIOUS
    <2> HIDE DEF f
    <2>3. f = [i \in L + 1 .. Len(format) + 2 |-> WalkAt(f[i + 1], f[i + 2], format, args, i)]
      BY <1>1, <2>1, <2>2
    <2>4. f = FormatWalk(f, format, args, L + 1)
      BY <2>3, Zenon DEF FormatWalk
    <2>5. L + 1 - 0 = L + 1
      BY <1>1
    <2>6. QED
      BY <2>4, <2>5
  <1>3. ASSUME NEW d \in S PROVE d + 1 \in S
    <2> SUFFICES ASSUME d + 1 <= L PROVE \E f : f = FormatWalk(f, format, args, L + 1 - (d + 1))
      OBVIOUS
    <2> DEFINE a == L + 1 - d
    <2>1. a - 1 = L + 1 - (d + 1) /\ a \in 2 .. L + 1
      BY <1>1
    <2>2. PICK f : f = FormatWalk(f, format, args, a)
      BY <1>1
    <2> DEFINE g == [i \in a - 1 .. L + 2 |->
                       IF i >= a THEN f[i] ELSE WalkAt(f[a], f[a + 1], format, args, i)]
    <2> HIDE DEF a
    <2>3. \A i \in a .. L + 2 : f[i] = WalkAt(f[i + 1], f[i + 2], format, args, i)
      BY <1>1, <2>2, Zenon DEF FormatWalk
    <2>4. \A i \in a .. L + 2 : g[i] = f[i]
      BY <1>1, <2>1
    <2>5. g[a - 1] = WalkAt(f[a], f[a + 1], format, args, a - 1)
      BY <1>1, <2>1
    <2>6. g = [i \in a - 1 .. L + 2 |-> g[i]]
      OBVIOUS
    <2> HIDE DEF g
    <2>7. ASSUME NEW i \in a - 1 .. L + 2
          PROVE  g[i] = WalkAt(g[i + 1], g[i + 2], format, args, i)
      <3>1. CASE i = a - 1
        <4>1. i + 1 = a /\ i + 2 = a + 1 /\ a \in a .. L + 2 /\ a + 1 \in a .. L + 2
          BY <1>1, <2>1, <3>1
        <4>2. g[i + 1] = f[a] /\ g[i + 2] = f[a + 1]
          BY <2>4, <4>1, Zenon
        <4>3. QED
          BY <2>5, <3>1, <4>2, Zenon
      <3>2. CASE i # a - 1 /\ i <= L
        <4>1. i \in a .. L + 2 /\ i + 1 \in a .. L + 2 /\ i + 2 \in a .. L + 2
          BY <1>1, <2>1, <3>2
        <4>2. g[i] = f[i] /\ g[i + 1] = f[i + 1] /\ g[i + 2] = f[i + 2]
          BY <2>4, <4>1, Zenon
        <4>3. f[i] = WalkAt(f[i + 1], f[i + 2], format, args, i)
          BY <2>3, <4>1, Zenon
        <4>4. QED
          BY <4>2, <4>3, Zenon
      <3>3. CASE i # a - 1 /\ ~(i <= L)
        <4>1. i \in a .. L + 2 /\ i \in Nat /\ i > Len(format)
          BY <1>1, <2>1, <3>3
        <4>2. g[i] = f[i] /\ f[i] = WalkAt(f[i + 1], f[i + 2], format, args, i)
          BY <2>3, <2>4, <4>1, Zenon
        <4>3. WalkAt(f[i + 1], f[i + 2], format, args, i) = [k \in Nat |-> <<>>]
          BY <4>1, WalkEndsThere
        <4>4. WalkAt(g[i + 1], g[i + 2], format, args, i) = [k \in Nat |-> <<>>]
          BY <4>1, WalkEndsThere
        <4>5. QED
          BY <4>2, <4>3, <4>4, Zenon
      <3>4. QED
        BY <3>1, <3>2, <3>3
    <2>8. g = [i \in a - 1 .. Len(format) + 2 |-> WalkAt(g[i + 1], g[i + 2], format, args, i)]
      BY <1>1, <2>6, <2>7
    <2>9. g = FormatWalk(g, format, args, a - 1)
      BY <2>8, Zenon DEF FormatWalk
    <2>10. g = FormatWalk(g, format, args, L + 1 - (d + 1))
      BY <2>1, <2>9, Zenon
    <2>11. QED
      BY <2>10, Zenon
  <1>4. S \in SUBSET Nat
    OBVIOUS
  <1> HIDE DEF S
  <1>5. \A d \in Nat : d \in S
    BY <1>2, <1>3, <1>4, SetInduction
  <1>6. L \in S /\ L + 1 - L = 1
    BY <1>1, <1>5
  <1>7. QED
    BY <1>1, <1>6 DEF S

LEMMA printfWalks ==
  ASSUME NEW format, Len(format) \in Nat, NEW args
  PROVE  \E w : w = FormatWalk(w, format, args, 1) /\ printf(format, args) = w[1][1]
  <1> DEFINE w == CHOOSE w : w = FormatWalk(w, format, args, 1)
  <1>1. printf(format, args) = w[1][1]
    BY Zenon DEF printf, FormatWalk, WalkAt, ArgAt
  <1>2. w = FormatWalk(w, format, args, 1)
    BY FormatWalkExists, Zenon
  <1> HIDE DEF w
  <1>3. QED
    BY <1>1, <1>2, Zenon

WalkStep(w, format, args, i, k) ==
  /\ i > Len(format) => w[i][k] = <<>>
  /\ i <= Len(format) /\ format[i] # Ch.percent => w[i][k] = <<format[i]>> \o w[i + 1][k]
  /\ i <= Len(format) /\ format[i] = Ch.percent =>
       w[i][k] = Converted(format[i + 1], ArgAt(args, k))
                   \o w[i + 2][k + ArgumentsTaken(format[i + 1])]

LEMMA WalkSteps ==
  ASSUME NEW format, Len(format) \in Nat, NEW args, NEW w, w = FormatWalk(w, format, args, 1),
         NEW i \in 1 .. Len(format) + 1, NEW k \in Nat
  PROVE  WalkStep(w, format, args, i, k)
  <1>1. i \in 1 .. Len(format) + 2 /\ (i <= Len(format) <=> ~(i > Len(format)))
    OBVIOUS
  <1>2. w[i] = WalkAt(w[i + 1], w[i + 2], format, args, i)
    BY <1>1, Zenon DEF FormatWalk
  <1>3. WalkAt(w[i + 1], w[i + 2], format, args, i)[k] =
          IF i > Len(format) THEN <<>>
          ELSE IF format[i] # Ch.percent THEN <<format[i]>> \o w[i + 1][k]
          ELSE Converted(format[i + 1], ArgAt(args, k))
                 \o w[i + 2][k + ArgumentsTaken(format[i + 1])]
    BY Zenon DEF WalkAt
  <1>4. QED
    BY <1>1, <1>2, <1>3, Zenon DEF WalkStep

-----------------------------------------------------------------------------
(* A piece of a format, and the pieces of one. *)
GoodPiece(piece) ==
  /\ piece.spec = Literal => piece.arg # Ch.percent
  /\ piece.spec = Ch.s => piece.arg \in Seq(Nat)
  /\ piece.spec = Ch.d => piece.arg \in IntRange
  /\ piece.spec = Ch.p => piece.arg \in Pointers

LEMMA CommonElements ==
  ASSUME NEW n \in Nat, NEW q, q = [i \in 1 .. n |-> q[i]],
         \A i \in 1 .. n : \E R : q[i] \in Seq(R)
  PROVE  \E S : q \in [1 .. n -> Seq(S)]
  <1> DEFINE R(i) == CHOOSE R : q[i] \in Seq(R)
             S == UNION { R(i) : i \in 1 .. n }
  <1>1. ASSUME NEW i \in 1 .. n PROVE q[i] \in Seq(S)
    <2>1. q[i] \in Seq(R(i))
      BY Zenon
    <2>2. R(i) \subseteq S
      BY Zenon
    <2> HIDE DEF R, S
    <2>3. QED
      BY <2>1, <2>2
  <1> HIDE DEF S
  <1>2. q \in [1 .. n -> Seq(S)]
    BY <1>1
  <1>3. QED
    BY <1>2

LEMMA SpecsDiffer ==
  /\ Ch.c = 99 /\ Ch.s = 115 /\ Ch.d = 100 /\ Ch.p = 112 /\ Ch.percent = 37 /\ Literal = 0
  BY DEF Ch, Literal

LEMMA ConvertedIs ==
  ASSUME NEW spec, NEW arg
  PROVE  /\ spec = Ch.c => Converted(spec, arg) = <<arg % BYTE>>
         /\ spec = Ch.s => Converted(spec, arg) = arg
         /\ spec = Ch.d => Converted(spec, arg) = print_d(arg)
         /\ spec = Ch.p => Converted(spec, arg) = print_p(arg)
         /\ spec = Ch.percent => Converted(spec, arg) = <<Ch.percent>>
         /\ spec \notin {Ch.c, Ch.s, Ch.d, Ch.p, Ch.percent} =>
              Converted(spec, arg) = <<Ch.percent, spec>>
  <1>1. CASE spec = Ch.c
    BY <1>1, SpecsDiffer DEF Converted
  <1>2. CASE spec = Ch.s
    BY <1>2, SpecsDiffer DEF Converted
  <1>3. CASE spec = Ch.d
    BY <1>3, SpecsDiffer DEF Converted
  <1>4. CASE spec = Ch.p
    BY <1>4, SpecsDiffer DEF Converted
  <1>5. CASE spec = Ch.percent
    BY <1>5, SpecsDiffer DEF Converted
  <1>6. CASE spec \notin {Ch.c, Ch.s, Ch.d, Ch.p, Ch.percent}
    BY <1>6, SpecsDiffer DEF Converted
  <1>7. QED
    BY <1>1, <1>2, <1>3, <1>4, <1>5, <1>6

(* A pointer shifted right, digit by digit. *)
Shifts(h, ptr) == [k \in 0 .. NIBBLES |-> IF k = 0 THEN ptr ELSE h[k - 1] \div 16]

LEMMA MeaningTyped ==
  ASSUME NEW piece, GoodPiece(piece)
  PROVE  \E R : Meaning(piece) \in Seq(R)
  <1> DEFINE spec == piece.spec
             arg == piece.arg
  <1>1. /\ spec = Literal => Meaning(piece) = <<arg>>
        /\ spec # Literal => Meaning(piece) = Converted(spec, arg)
    BY DEF Meaning
  <1>2. (spec = Ch.s => arg \in Seq(Nat)) /\ (spec = Ch.d => arg \in IntRange)
    BY DEF GoodPiece
  <1> HIDE DEF spec, arg
  <1>3. \A x : \E R : <<x>> \in Seq(R)
    <2> TAKE x
    <2>1. <<x>> \in Seq({x})
      OBVIOUS
    <2>2. QED
      BY <2>1
  <1>4. CASE spec = Literal
    BY <1>1, <1>3, <1>4
  <1>5. CASE spec # Literal /\ spec = Ch.c
    <2>1. Meaning(piece) = <<arg % BYTE>>
      BY <1>1, <1>5, ConvertedIs
    <2>2. QED
      BY <1>3, <2>1
  <1>6. CASE spec # Literal /\ spec = Ch.s
    <2>1. Meaning(piece) = arg
      BY <1>1, <1>6, ConvertedIs
    <2>2. QED
      BY <1>2, <1>6, <2>1
  <1>7. CASE spec # Literal /\ spec = Ch.d
    <2>1. Meaning(piece) = print_d(arg)
      BY <1>1, <1>7, ConvertedIs
    <2>2. print_d(arg) \in Seq(Int)
      BY <1>2, <1>7, print_dTyped
    <2>3. QED
      BY <2>1, <2>2
  <1>8. CASE spec # Literal /\ spec = Ch.p
    <2> DEFINE h == CHOOSE h : h = Shifts(h, arg)
               digit(x) == HexDigit(h[NIBBLES - x] % 16)
               t == [x \in 1 .. NIBBLES |-> digit(x)]
               z == <<Ch.zero, Ch.x>>
               R == {Ch.zero, Ch.x} \cup { digit(x) : x \in 1 .. NIBBLES }
    <2>1. Meaning(piece) = z \o t
      <3>1. print_p(arg) = z \o t
        BY Zenon DEF print_p, Shifts
      <3>2. Meaning(piece) = print_p(arg)
        BY <1>1, <1>8, ConvertedIs
      <3>3. QED
        BY <3>1, <3>2, Zenon
    <2>2. t \in Seq(R)
      <3>1. NIBBLES \in Nat
        BY Bounds
      <3>2. \A x \in 1 .. NIBBLES : digit(x) \in R
        OBVIOUS
      <3> HIDE DEF digit, R
      <3>3. QED
        BY <3>1, <3>2
    <2>3. z \in Seq(R)
      <3> HIDE DEF digit
      <3>1. QED
        OBVIOUS
    <2> HIDE DEF t, z, R
    <2>4. z \o t \in Seq(R)
      BY <2>2, <2>3, ConcatProperties
    <2>5. QED
      BY <2>1, <2>4
  <1>9. CASE spec # Literal /\ spec = Ch.percent
    <2>1. Meaning(piece) = <<Ch.percent>>
      BY <1>1, <1>9, ConvertedIs
    <2>2. QED
      BY <1>3, <2>1
  <1>10. CASE spec # Literal /\ spec \notin {Ch.c, Ch.s, Ch.d, Ch.p, Ch.percent}
    <2>1. Meaning(piece) = <<Ch.percent, spec>>
      BY <1>1, <1>10, ConvertedIs
    <2>2. <<Ch.percent, spec>> \in Seq({Ch.percent, spec})
      OBVIOUS
    <2>3. QED
      BY <2>1, <2>2
  <1>11. QED
    BY <1>4, <1>5, <1>6, <1>7, <1>8, <1>9, <1>10

LEMMA UnusedArgument ==
  ASSUME NEW spec, ~TakesArgument(spec), NEW x, NEW y
  PROVE  Converted(spec, x) = Converted(spec, y)
  <1>1. CASE spec = Ch.percent
    <2>1. Converted(spec, x) = <<Ch.percent>> /\ Converted(spec, y) = <<Ch.percent>>
      BY <1>1, ConvertedIs
    <2>2. QED
      BY <2>1, Zenon
  <1>2. CASE spec # Ch.percent
    <2>1. spec \notin {Ch.c, Ch.s, Ch.d, Ch.p, Ch.percent}
      BY <1>2 DEF TakesArgument
    <2>2. Converted(spec, x) = <<Ch.percent, spec>> /\ Converted(spec, y) = <<Ch.percent, spec>>
      BY <2>1, ConvertedIs
    <2>3. QED
      BY <2>2, Zenon
  <1>3. QED
    BY <1>1, <1>2

(* Of a piece and its argument: what stands in the format and in args. *)
LEMMA PieceParts ==
  ASSUME NEW piece
  PROVE  /\ piece.spec = Literal =>
              /\ Len(FormatOf(piece)) = 1 /\ FormatOf(piece)[1] = piece.arg
              /\ Len(ArgsOf(piece)) = 0 /\ Meaning(piece) = <<piece.arg>>
         /\ piece.spec # Literal =>
              /\ Len(FormatOf(piece)) = 2 /\ FormatOf(piece)[1] = Ch.percent
              /\ FormatOf(piece)[2] = piece.spec
              /\ Len(ArgsOf(piece)) = ArgumentsTaken(piece.spec)
              /\ TakesArgument(piece.spec) => ArgsOf(piece)[1] = piece.arg
              /\ Meaning(piece) = Converted(piece.spec, piece.arg)
         /\ \E R : FormatOf(piece) \in Seq(R)
         /\ \E R : ArgsOf(piece) \in Seq(R)
  <1> DEFINE spec == piece.spec
             arg == piece.arg
  <1>1. /\ FormatOf(piece) = IF spec = Literal THEN <<arg>> ELSE <<Ch.percent, spec>>
        /\ ArgsOf(piece) = IF TakesArgument(spec) THEN <<arg>> ELSE <<>>
        /\ Meaning(piece) = IF spec = Literal THEN <<arg>> ELSE Converted(spec, arg)
    BY DEF FormatOf, ArgsOf, Meaning
  <1> HIDE DEF spec, arg
  <1>2. spec = Literal => ~TakesArgument(spec)
    BY SpecsDiffer DEF TakesArgument
  <1>3. /\ spec = Literal =>
              /\ Len(FormatOf(piece)) = 1 /\ FormatOf(piece)[1] = arg
              /\ Len(ArgsOf(piece)) = 0 /\ Meaning(piece) = <<arg>>
        /\ spec # Literal =>
              /\ Len(FormatOf(piece)) = 2 /\ FormatOf(piece)[1] = Ch.percent
              /\ FormatOf(piece)[2] = spec
              /\ Meaning(piece) = Converted(spec, arg)
    BY <1>1, <1>2
  <1>4. /\ Len(ArgsOf(piece)) = ArgumentsTaken(spec)
        /\ TakesArgument(spec) => ArgsOf(piece)[1] = arg
    BY <1>1 DEF ArgumentsTaken
  <1>5. \E R : FormatOf(piece) \in Seq(R)
    <2>1. <<arg>> \in Seq({arg, spec, Ch.percent}) /\ <<Ch.percent, spec>> \in Seq({arg, spec, Ch.percent})
      OBVIOUS
    <2>2. FormatOf(piece) \in Seq({arg, spec, Ch.percent})
      BY <1>1, <2>1
    <2>3. QED
      BY <2>2
  <1>6. \E R : ArgsOf(piece) \in Seq(R)
    <2>1. <<arg>> \in Seq({arg}) /\ <<>> \in Seq({arg})
      OBVIOUS
    <2>2. ArgsOf(piece) \in Seq({arg})
      BY <1>1, <2>1
    <2>3. QED
      BY <2>2
  <1>7. QED
    BY <1>3, <1>4, <1>5, <1>6 DEF spec, arg

(* What the walk makes behind the first j pieces. *)
WalkedFrom(w, PF, PA, j) == w[Len(PF[j]) + 1][Len(PA[j]) + 1]

(* The walk along a format put together from F, its arguments from A. *)
Along(w, pieces, n, F, A, SF, SA, PF, PA) ==
  /\ F \in [1 .. n -> Seq(SF)] /\ \A i \in 1 .. n : F[i] = FormatOf(pieces[i])
  /\ A \in [1 .. n -> Seq(SA)] /\ \A i \in 1 .. n : A[i] = ArgsOf(pieces[i])
  /\ BuiltUp(PF, F, n) /\ BuiltUp(PA, A, n)
  /\ w = FormatWalk(w, PF[n], PA[n], 1)

(* The walk makes what the j-th piece means, and then the rest. *)
Adds(w, pieces, PF, PA, j) ==
  WalkedFrom(w, PF, PA, j - 1) = Meaning(pieces[j]) \o WalkedFrom(w, PF, PA, j)

LEMMA PieceWalked ==
  ASSUME NEW w, NEW pieces, NEW n \in Nat, NEW F, NEW A, NEW SF, NEW SA, NEW PF, NEW PA,
         Along(w, pieces, n, F, A, SF, SA, PF, PA),
         NEW j \in 1 .. n, GoodPiece(pieces[j])
  PROVE  Adds(w, pieces, PF, PA, j)
  <1> DEFINE format == PF[n]
             args == PA[n]
             piece == pieces[j]
             f == F[j]
             g == A[j]
             a == Len(PF[j - 1])
             a2 == Len(PF[j])
             b == Len(PA[j - 1])
             b2 == Len(PA[j])
             i == a + 1
             k == b + 1
             i2 == a2 + 1
             k2 == b2 + 1
  <1>0. /\ F \in [1 .. n -> Seq(SF)] /\ F[j] = FormatOf(pieces[j]) /\ BuiltUp(PF, F, n)
        /\ A \in [1 .. n -> Seq(SA)] /\ A[j] = ArgsOf(pieces[j]) /\ BuiltUp(PA, A, n)
        /\ w = FormatWalk(w, PF[n], PA[n], 1)
    BY Zenon DEF Along
  <1>1. /\ Len(format) \in Nat /\ i \in Nat /\ i >= 1 /\ Len(f) \in Nat
        /\ i2 = i + Len(f) /\ i2 <= Len(format) + 1
        /\ \A x \in 1 .. Len(f) : format[i - 1 + x] = f[x]
    <2>1. LiesIn(PF, F, n, j)
      BY <1>0, LiesInside
    <2>2. /\ Len(format) \in Nat /\ a \in Nat /\ Len(f) \in Nat
          /\ a2 = a + Len(f) /\ a2 <= Len(format)
          /\ \A x \in 1 .. Len(f) : format[a + x] = f[x]
      BY <2>1, Zenon DEF LiesIn
    <2> HIDE DEF format, f, a, a2
    <2>3. i - 1 = a
      BY <2>2
    <2>4. QED
      BY <2>2, <2>3
  <1>2. /\ args \in Seq(SA) /\ k \in Nat /\ k >= 1 /\ Len(g) \in Nat
        /\ k2 = k + Len(g) /\ k2 <= Len(args) + 1
        /\ \A x \in 1 .. Len(g) : args[k - 1 + x] = g[x]
    <2>1. LiesIn(PA, A, n, j)
      BY <1>0, LiesInside
    <2>2. /\ Len(args) \in Nat /\ b \in Nat /\ Len(g) \in Nat
          /\ b2 = b + Len(g) /\ b2 <= Len(args)
          /\ \A x \in 1 .. Len(g) : args[b + x] = g[x]
      BY <2>1, Zenon DEF LiesIn
    <2>3. args \in Seq(SA)
      <3>1. \A x \in 0 .. n : PA[x] \in Seq(SA)
        BY <1>0, PrefixesTyped
      <3>2. QED
        BY <3>1
    <2> HIDE DEF args, g, b, b2
    <2>4. k - 1 = b
      BY <2>2
    <2>5. QED
      BY <2>2, <2>3, <2>4
  <1>3. f = FormatOf(piece) /\ g = ArgsOf(piece)
    BY <1>0
  <1>4. WalkedFrom(w, PF, PA, j - 1) = w[i][k] /\ WalkedFrom(w, PF, PA, j) = w[i2][k2]
    BY Zenon DEF WalkedFrom
  <1>5. w = FormatWalk(w, format, args, 1)
    BY <1>0
  <1>6. GoodPiece(piece)
    OBVIOUS
  <1> HIDE DEF format, args, piece, f, g, i, k, i2, k2, a, a2, b, b2
  <1>7. CASE piece.spec = Literal
    <2>1. Len(f) = 1 /\ f[1] = piece.arg /\ Len(g) = 0 /\ Meaning(piece) = <<piece.arg>>
      BY <1>3, <1>7, PieceParts
    <2>2. /\ i \in 1 .. Len(format) + 1 /\ i <= Len(format) /\ format[i] = piece.arg
          /\ i2 = i + 1 /\ k2 = k
      BY <1>1, <1>2, <2>1, SMTT(30)
    <2>3. format[i] # Ch.percent
      BY <1>6, <1>7, <2>2 DEF GoodPiece
    <2>4. w[i][k] = <<format[i]>> \o w[i + 1][k]
      <3>1. WalkStep(w, format, args, i, k)
        BY <1>1, <1>2, <1>5, <2>2, WalkSteps
      <3>2. QED
        BY <2>2, <2>3, <3>1, Zenon DEF WalkStep
    <2>5. w[i][k] = Meaning(piece) \o w[i2][k2]
      BY <2>1, <2>2, <2>4, Zenon
    <2>6. QED
      BY <1>4, <2>5, Zenon DEF Adds, piece
  <1>8. CASE piece.spec # Literal
    <2>1. /\ Len(f) = 2 /\ f[1] = Ch.percent /\ f[2] = piece.spec
          /\ Len(g) = ArgumentsTaken(piece.spec)
          /\ TakesArgument(piece.spec) => g[1] = piece.arg
          /\ Meaning(piece) = Converted(piece.spec, piece.arg)
      BY <1>3, <1>8, PieceParts
    <2>2. /\ i \in 1 .. Len(format) + 1 /\ i <= Len(format)
          /\ format[i] = Ch.percent /\ format[i + 1] = piece.spec
          /\ i2 = i + 2 /\ k2 = k + ArgumentsTaken(piece.spec)
      <3>1. 1 \in 1 .. Len(f) /\ 2 \in 1 .. Len(f) /\ i - 1 + 1 = i /\ i - 1 + 2 = i + 1
        BY <1>1, <2>1
      <3>2. format[i] = Ch.percent /\ format[i + 1] = piece.spec
        BY <1>1, <2>1, <3>1
      <3>3. i \in 1 .. Len(format) + 1 /\ i <= Len(format) /\ i2 = i + 2
        BY <1>1, <2>1
      <3>4. k2 = k + ArgumentsTaken(piece.spec)
        BY <1>2, <2>1
      <3>5. QED
        BY <3>2, <3>3, <3>4
    <2>3. w[i][k] = Converted(format[i + 1], ArgAt(args, k))
                      \o w[i + 2][k + ArgumentsTaken(format[i + 1])]
      <3>1. WalkStep(w, format, args, i, k)
        BY <1>1, <1>2, <1>5, <2>2, WalkSteps
      <3>2. QED
        BY <2>2, <3>1, Zenon DEF WalkStep
    <2>4. Converted(piece.spec, ArgAt(args, k)) = Converted(piece.spec, piece.arg)
      <3>1. CASE TakesArgument(piece.spec)
        <4>1. Len(g) = 1 /\ g[1] = piece.arg
          BY <2>1, <3>1 DEF ArgumentsTaken
        <4>2. k \in DOMAIN args /\ args[k] = piece.arg
          BY <1>2, <4>1
        <4>3. ArgAt(args, k) = piece.arg
          BY <4>2, Zenon DEF ArgAt
        <4>4. QED
          BY <4>3, Zenon
      <3>2. CASE ~TakesArgument(piece.spec)
        BY <3>2, UnusedArgument
      <3>3. QED
        BY <3>1, <3>2
    <2>5. w[i][k] = Meaning(piece) \o w[i2][k2]
      BY <2>1, <2>2, <2>3, <2>4, Zenon
    <2>6. QED
      BY <1>4, <2>5, Zenon DEF Adds, piece
  <1>9. QED
    BY <1>7, <1>8

LEMMA Filled ==
  ASSUME NEW n \in Nat, NEW pieces, DOMAIN pieces = 1 .. n,
         \A i \in 1 .. n : GoodPiece(pieces[i])
  PROVE  printf(Together(FormatOf, pieces), Together(ArgsOf, pieces)) = Together(Meaning, pieces)
  <1> DEFINE F == [i \in 1 .. n |-> FormatOf(pieces[i])]
             A == [i \in 1 .. n |-> ArgsOf(pieces[i])]
             M == [i \in 1 .. n |-> Meaning(pieces[i])]
  <1>1. /\ Together(FormatOf, pieces) = FlattenSeq(F)
        /\ Together(ArgsOf, pieces) = FlattenSeq(A)
        /\ Together(Meaning, pieces) = FlattenSeq(M)
    BY DEF Together
  <1>2. /\ F = [i \in 1 .. n |-> F[i]] /\ \A i \in 1 .. n : F[i] = FormatOf(pieces[i])
        /\ A = [i \in 1 .. n |-> A[i]] /\ \A i \in 1 .. n : A[i] = ArgsOf(pieces[i])
        /\ M = [i \in 1 .. n |-> M[i]] /\ \A i \in 1 .. n : M[i] = Meaning(pieces[i])
    OBVIOUS
  <1> HIDE DEF F, A, M
  <1>3. ASSUME NEW i \in 1 .. n
        PROVE  (\E R : F[i] \in Seq(R)) /\ (\E R : A[i] \in Seq(R)) /\ (\E R : M[i] \in Seq(R))
    <2>1. \E R : FormatOf(pieces[i]) \in Seq(R)
      BY PieceParts
    <2>2. \E R : ArgsOf(pieces[i]) \in Seq(R)
      BY PieceParts
    <2>3. \E R : Meaning(pieces[i]) \in Seq(R)
      BY MeaningTyped
    <2>4. QED
      BY <1>2, <2>1, <2>2, <2>3, Zenon
  <1>4. PICK SF : F \in [1 .. n -> Seq(SF)]
    BY <1>2, <1>3, CommonElements
  <1>5. PICK SA : A \in [1 .. n -> Seq(SA)]
    BY <1>2, <1>3, CommonElements
  <1>6. PICK SM : M \in [1 .. n -> Seq(SM)]
    BY <1>2, <1>3, CommonElements
  <1>7. PICK PF : BuiltUp(PF, F, n) /\ FlattenSeq(F) = PF[n]
    BY <1>4, Flattened
  <1>8. PICK PA : BuiltUp(PA, A, n) /\ FlattenSeq(A) = PA[n]
    BY <1>5, Flattened
  <1>9. PICK PM : BuiltUp(PM, M, n) /\ FlattenSeq(M) = PM[n]
    BY <1>6, Flattened
  <1>10. Len(PF[n]) \in Nat /\ Len(PA[n]) \in Nat
    <2>1. n \in 0 .. n
      OBVIOUS
    <2>2. Within(PF, n, n)
      BY <1>4, <1>7, <2>1, AllWithin
    <2>3. Within(PA, n, n)
      BY <1>5, <1>8, <2>1, AllWithin
    <2>4. QED
      BY <2>2, <2>3, Zenon DEF Within
  <1>11. PICK w : w = FormatWalk(w, PF[n], PA[n], 1) /\ printf(PF[n], PA[n]) = w[1][1]
    BY <1>10, printfWalks
  <1> DEFINE rest(j) == WalkedFrom(w, PF, PA, j)
             Joined(j) == rest(j) \in Seq(SM) /\ PM[j] \o rest(j) = PM[n]
             T == { d \in Nat : d <= n => Joined(n - d) }
  <1>12. \A j \in 0 .. n : PM[j] \in Seq(SM)
    BY <1>6, <1>9, PrefixesTyped
  <1>13. ASSUME NEW j \in 1 .. n PROVE rest(j - 1) = M[j] \o rest(j)
    <2>1. GoodPiece(pieces[j]) /\ M[j] = Meaning(pieces[j])
      BY <1>2
    <2>2. Along(w, pieces, n, F, A, SF, SA, PF, PA)
      <3>1. BuiltUp(PF, F, n) /\ BuiltUp(PA, A, n) /\ w = FormatWalk(w, PF[n], PA[n], 1)
        BY <1>7, <1>8, <1>11
      <3>2. /\ \A i \in 1 .. n : F[i] = FormatOf(pieces[i])
            /\ \A i \in 1 .. n : A[i] = ArgsOf(pieces[i])
        BY <1>2
      <3>3. QED
        BY <1>4, <1>5, <3>1, <3>2 DEF Along
    <2>3. Adds(w, pieces, PF, PA, j)
      BY <2>1, <2>2, PieceWalked
    <2>4. QED
      BY <2>1, <2>3, Zenon DEF Adds
  <1>14. \A j \in 1 .. n : PM[j] = PM[j - 1] \o M[j]
    BY <1>9, Zenon DEF BuiltUp
  <1>15. rest(n) = <<>>
    <2> DEFINE L == Len(PF[n])
               k == Len(PA[n]) + 1
    <2>1. L + 1 \in 1 .. L + 1 /\ k \in Nat /\ L + 1 > L /\ L \in Nat
      BY <1>10
    <2>2. WalkStep(w, PF[n], PA[n], L + 1, k)
      BY <1>10, <1>11, <2>1, WalkSteps
    <2>3. w[L + 1][k] = <<>>
      BY <2>1, <2>2, Zenon DEF WalkStep
    <2>4. QED
      BY <2>3, Zenon DEF WalkedFrom
  <1>16. rest(0) = w[1][1] /\ PM[0] = <<>>
    <2>1. PF[0] = <<>> /\ PA[0] = <<>> /\ PM[0] = <<>>
      BY <1>7, <1>8, <1>9, Zenon DEF BuiltUp
    <2>2. Len(<<>>) + 1 = 1
      OBVIOUS
    <2>3. rest(0) = w[1][1]
      BY <2>1, <2>2, Zenon DEF WalkedFrom
    <2>4. QED
      BY <2>1, <2>3
  <1> HIDE DEF rest
  <1>17. Joined(n)
    <2>1. n \in 0 .. n
      OBVIOUS
    <2>2. PM[n] \in Seq(SM)
      BY <1>12, <2>1
    <2>3. <<>> \in Seq(SM)
      OBVIOUS
    <2>4. PM[n] \o <<>> = PM[n]
      BY <2>2, ConcatEmptySeq
    <2>5. QED
      BY <1>15, <2>3, <2>4, Zenon
  <1>18. ASSUME NEW j \in 1 .. n, Joined(j) PROVE Joined(j - 1)
    <2> DEFINE a == PM[j - 1]
               b == M[j]
               c == rest(j)
    <2>1. a \in Seq(SM) /\ b \in Seq(SM) /\ c \in Seq(SM)
      <3>1. j - 1 \in 0 .. n
        OBVIOUS
      <3>2. a \in Seq(SM)
        BY <1>12, <3>1, Zenon
      <3>3. b \in Seq(SM)
        BY <1>6
      <3>4. c \in Seq(SM)
        BY <1>18, Zenon
      <3>5. QED
        BY <3>2, <3>3, <3>4
    <2>2. rest(j - 1) = b \o c
      BY <1>13, Zenon
    <2>3. (a \o b) \o c = PM[n]
      BY <1>14, <1>18, Zenon
    <2> HIDE DEF a, b, c
    <2>4. b \o c \in Seq(SM)
      BY <2>1, ConcatProperties
    <2>5. (a \o b) \o c = a \o (b \o c)
      BY <2>1, ConcatAssociative, SMTT(30)
    <2>6. rest(j - 1) \in Seq(SM) /\ a \o rest(j - 1) = PM[n]
      BY <2>2, <2>3, <2>4, <2>5, Zenon
    <2>7. QED
      BY <2>6, Zenon DEF a
  <1> HIDE DEF Joined
  <1>19. \A d \in Nat : d \in T
    <2>1. 0 \in T
      <3>1. n - 0 = n
        OBVIOUS
      <3>2. QED
        BY <1>17, <3>1
    <2>2. ASSUME NEW d \in T PROVE d + 1 \in T
      <3> SUFFICES ASSUME d + 1 <= n PROVE Joined(n - (d + 1))
        OBVIOUS
      <3>1. n - d \in 1 .. n /\ n - (d + 1) = n - d - 1 /\ Joined(n - d)
        OBVIOUS
      <3>2. Joined(n - d - 1)
        BY <1>18, <3>1
      <3>3. QED
        BY <3>1, <3>2
    <2>3. T \in SUBSET Nat
      OBVIOUS
    <2> HIDE DEF T
    <2>4. QED
      BY <2>1, <2>2, <2>3, SetInduction
  <1>20. n \in T /\ n - n = 0
    BY <1>19
  <1>21. Joined(0)
    BY <1>20
  <1>22. rest(0) \in Seq(SM) /\ PM[0] \o rest(0) = PM[n]
    BY <1>21, Zenon DEF Joined
  <1>23. <<>> \o rest(0) = rest(0)
    BY <1>22, ConcatEmptySeq
  <1>24. printf(PF[n], PA[n]) = PM[n]
    BY <1>11, <1>16, <1>22, <1>23, Zenon
  <1>25. QED
    BY <1>1, <1>7, <1>8, <1>9, <1>24, Zenon

(* Every call of printf is one of good pieces. *)
GoodFormat(pieces) ==
  \E n \in Nat : /\ DOMAIN pieces = 1 .. n /\ Len(pieces) = n
                 /\ \A i \in 1 .. n : GoodPiece(pieces[i])

LEMMA PiecesAreGood ==
  ASSUME PrintNext, call'.op = "printf"
  PROVE  \E pieces : CallPrintf(pieces) /\ GoodFormat(pieces)
  <1>1. \A piece \in Pieces : GoodPiece(piece)
    BY PieceAssumption, Zenon DEF GoodPiece
  <1>2. ASSUME NEW pieces \in BoundedSeq(Pieces, MaxPieces)
        PROVE  GoodFormat(pieces)
    <2>1. PICK n \in 0 .. MaxPieces : pieces \in [1 .. n -> Pieces]
      BY DEF BoundedSeq, SeqOf
    <2>2. n \in Nat
      BY PrintAssumption
    <2>3. DOMAIN pieces = 1 .. n /\ Len(pieces) = n /\ \A i \in 1 .. n : GoodPiece(pieces[i])
      BY <1>1, <2>1, <2>2
    <2>4. QED
      BY <2>2, <2>3 DEF GoodFormat
  <1>3. ASSUME NEW piece, GoodPiece(piece)
        PROVE  GoodFormat(<<piece>>)
    <2>1. DOMAIN <<piece>> = 1 .. 1 /\ Len(<<piece>>) = 1 /\ <<piece>>[1] = piece /\ 1 \in Nat
      OBVIOUS
    <2>2. \A i \in 1 .. 1 : GoodPiece(<<piece>>[i])
      BY <1>3, <2>1
    <2>3. QED
      BY <2>1, <2>2, Zenon DEF GoodFormat
  <1>4. \A n \in IntRange : GoodPiece([spec |-> Ch.d, arg |-> n])
    BY SpecsDiffer DEF GoodPiece
  <1>5. \A n \in Pointers : GoodPiece([spec |-> Ch.p, arg |-> n])
    BY SpecsDiffer DEF GoodPiece
  <1>6. ~Next
    <2>1. Next => call'.op # "printf"
      BY OpOf DEF Next
    <2>2. QED
      BY <2>1
  <1>7. \/ \E pieces \in BoundedSeq(Pieces, MaxPieces) : CallPrintf(pieces)
        \/ \E n \in IntRange : CallPrintf(<<[spec |-> Ch.d, arg |-> n]>>)
        \/ \E n \in Pointers : CallPrintf(<<[spec |-> Ch.p, arg |-> n]>>)
    BY <1>6, Zenon DEF PrintNext
  <1>8. CASE \E pieces \in BoundedSeq(Pieces, MaxPieces) : CallPrintf(pieces)
    BY <1>2, <1>8, Zenon
  <1>9. CASE \E n \in IntRange : CallPrintf(<<[spec |-> Ch.d, arg |-> n]>>)
    BY <1>3, <1>4, <1>9, Zenon
  <1>10. CASE \E n \in Pointers : CallPrintf(<<[spec |-> Ch.p, arg |-> n]>>)
    BY <1>3, <1>5, <1>10, Zenon
  <1>11. QED
    BY <1>7, <1>8, <1>9, <1>10

LEMMA StepFills ==
  ASSUME FormatsAreFilled, [PrintNext]_vars
  PROVE  FormatsAreFilled'
  <1>1. CASE PrintNext
    <2> SUFFICES ASSUME call'.op = "printf" PROVE call'.out = Together(Meaning, call'.pieces)
      BY DEF FormatsAreFilled
    <2>1. PICK pieces : CallPrintf(pieces) /\ GoodFormat(pieces)
      BY <1>1, PiecesAreGood
    <2>2. /\ call'.pieces = pieces
          /\ call'.out = printf(Together(FormatOf, pieces), Together(ArgsOf, pieces))
      BY <2>1 DEF CallPrintf
    <2>3. printf(Together(FormatOf, pieces), Together(ArgsOf, pieces)) = Together(Meaning, pieces)
      BY <2>1, Filled DEF GoodFormat
    <2>4. QED
      BY <2>2, <2>3, Zenon
  <1>2. CASE UNCHANGED vars
    <2>1. call' = call
      BY <1>2 DEF vars
    <2>2. QED
      BY <2>1 DEF FormatsAreFilled
  <1>3. QED
    BY <1>1, <1>2

(* printf takes its arguments in step with the format: every piece prints  *)
(* as if it stood alone, whatever the pieces before it are, so that %% and *)
(* unknown conversions take no argument and percent signs in an argument   *)
(* are not looked at again.                                                *)
THEOREM FormatsFilled == PrintSpec => []FormatsAreFilled
  <1>1. Init => FormatsAreFilled
    BY DEF Init, NoCall, FormatsAreFilled
  <1>2. QED
    BY <1>1, StepFills, PTL DEF PrintSpec

-----------------------------------------------------------------------------
(* A value made step by step from the one before it. *)
Steps(f, a, g, n) == f[0] = a /\ \A k \in 1 .. n : f[k] = g[k][f[k - 1]]

LEMMA StepsExist ==
  ASSUME NEW V, NEW a \in V, NEW n \in Nat, NEW g \in [1 .. n -> [V -> V]]
  PROVE  \E f \in [0 .. n -> V] : Steps(f, a, g, n)
  <1> DEFINE S == { m \in Nat : m <= n => \E f \in [0 .. m -> V] : Steps(f, a, g, m) }
  <1>1. 0 \in S
    <2> DEFINE f == [k \in 0 .. 0 |-> a]
    <2>1. f \in [0 .. 0 -> V] /\ f[0] = a
      OBVIOUS
    <2>2. Steps(f, a, g, 0)
      BY <2>1 DEF Steps
    <2>3. QED
      BY <2>1, <2>2
  <1>2. ASSUME NEW m \in S PROVE m + 1 \in S
    <2> SUFFICES ASSUME m + 1 <= n PROVE \E f \in [0 .. m + 1 -> V] : Steps(f, a, g, m + 1)
      OBVIOUS
    <2>1. m \in Nat /\ m <= n /\ m + 1 \in 1 .. n
      OBVIOUS
    <2>2. PICK f \in [0 .. m -> V] : Steps(f, a, g, m)
      BY <2>1
    <2> HIDE DEF S
    <2> DEFINE h == [k \in 0 .. m + 1 |-> IF k <= m THEN f[k] ELSE g[m + 1][f[m]]]
    <2>3. f[0] = a /\ \A k \in 1 .. m : f[k] = g[k][f[k - 1]]
      BY <2>2, Zenon DEF Steps
    <2>4. f[m] \in V /\ g[m + 1] \in [V -> V]
      BY <2>1
    <2>5. g[m + 1][f[m]] \in V
      BY <2>4
    <2>6. h \in [0 .. m + 1 -> V]
      BY <2>1, <2>5
    <2>7. (\A k \in 0 .. m : h[k] = f[k]) /\ h[m + 1] = g[m + 1][f[m]]
      BY <2>1
    <2> HIDE DEF h
    <2>8. ASSUME NEW k \in 1 .. m + 1 PROVE h[k] = g[k][h[k - 1]]
      <3>1. CASE k <= m
        <4>1. k \in 1 .. m /\ k \in 0 .. m /\ k - 1 \in 0 .. m
          BY <2>1, <3>1
        <4>2. h[k] = f[k] /\ h[k - 1] = f[k - 1] /\ f[k] = g[k][f[k - 1]]
          BY <2>3, <2>7, <4>1, Zenon
        <4>3. QED
          BY <4>2, Zenon
      <3>2. CASE ~(k <= m)
        <4>1. k = m + 1 /\ k - 1 = m /\ m \in 0 .. m
          BY <2>1, <3>2
        <4>2. h[m] = f[m]
          BY <2>7, <4>1, Zenon
        <4>3. QED
          BY <2>7, <4>1, <4>2, Zenon
      <3>3. QED
        BY <3>1, <3>2
    <2>9. h[0] = a
      <3>1. 0 \in 0 .. m
        BY <2>1
      <3>2. QED
        BY <2>3, <2>7, <3>1, Zenon
    <2>10. Steps(h, a, g, m + 1)
      BY <2>8, <2>9, Zenon DEF Steps
    <2>11. QED
      BY <2>6, <2>10, Zenon
  <1>3. S \in SUBSET Nat
    OBVIOUS
  <1> HIDE DEF S
  <1>4. \A m \in Nat : m \in S
    BY <1>1, <1>2, <1>3, SetInduction
  <1>5. n \in S
    BY <1>4
  <1>6. QED
    BY <1>5 DEF S

(* What the first i digits are worth. *)
Values(f, digits, radix) ==
  /\ f[0] = 0
  /\ \A i \in 1 .. Len(digits) : f[i] = radix * f[i - 1] + digits[i]

LEMMA ValuesExist ==
  ASSUME NEW digits \in Seq(Int), NEW radix \in Int
  PROVE  \E f \in [0 .. Len(digits) -> Int] : Values(f, digits, radix)
  <1> DEFINE n == Len(digits)
             g == [k \in 1 .. n |-> [v \in Int |-> radix * v + digits[k]]]
  <1>1. n \in Nat /\ \A k \in 1 .. n : digits[k] \in Int
    OBVIOUS
  <1>2. \A k \in 1 .. n, v \in Int : radix * v + digits[k] \in Int
    BY <1>1
  <1>3. g \in [1 .. n -> [Int -> Int]]
    BY <1>2
  <1>4. \A k \in 1 .. n, v \in Int : g[k][v] = radix * v + digits[k]
    OBVIOUS
  <1> HIDE DEF g
  <1>5. PICK f \in [0 .. n -> Int] : Steps(f, 0, g, n)
    <2>1. 0 \in Int /\ n \in Nat
      BY <1>1
    <2>2. QED
      BY <1>3, <2>1, StepsExist, Zenon
  <1>6. ASSUME NEW i \in 1 .. n PROVE f[i] = radix * f[i - 1] + digits[i]
    <2>1. i - 1 \in 0 .. n
      BY <1>1
    <2>2. f[i - 1] \in Int
      BY <2>1
    <2>3. f[i] = g[i][f[i - 1]]
      BY <1>5, Zenon DEF Steps
    <2>4. QED
      BY <1>4, <2>2, <2>3, Zenon
  <1>7. f[0] = 0
    BY <1>5, Zenon DEF Steps
  <1>8. Values(f, digits, radix)
    BY <1>6, <1>7, Zenon DEF Values
  <1>9. QED
    BY <1>8, Zenon

LEMMA ValueIs ==
  ASSUME NEW digits, Len(digits) \in Nat, NEW radix, NEW g, Values(g, digits, radix)
  PROVE  ValueOf(digits, radix) = g[Len(digits)]
  <1> DEFINE n == Len(digits)
             At(f, i) == IF i = 0 THEN 0 ELSE radix * f[i - 1] + digits[i]
             D(f) == [i \in 0 .. n |-> At(f, i)]
             h == [i \in 0 .. n |-> g[i]]
             f == CHOOSE f : f = D(f)
  <1>1. ValueOf(digits, radix) = f[n]
    BY Zenon DEF ValueOf
  <1>2. \A i \in 0 .. n : h[i] = g[i]
    OBVIOUS
  <1>3. h = [i \in 0 .. n |-> h[i]]
    OBVIOUS
  <1> HIDE DEF h
  <1>4. g[0] = 0 /\ \A i \in 1 .. n : g[i] = radix * g[i - 1] + digits[i]
    BY Zenon DEF Values
  <1>5. ASSUME NEW i \in 0 .. n PROVE h[i] = At(h, i)
    <2>1. CASE i = 0
      BY <1>2, <1>4, <2>1, Zenon
    <2>2. CASE i # 0
      <3>1. i \in 1 .. n /\ i - 1 \in 0 .. n
        BY <2>2
      <3>2. h[i] = g[i] /\ h[i - 1] = g[i - 1] /\ g[i] = radix * g[i - 1] + digits[i]
        BY <1>2, <1>4, <3>1, Zenon
      <3>3. QED
        BY <2>2, <3>2, Zenon
    <2>3. QED
      BY <2>1, <2>2
  <1> HIDE DEF At
  <1>6. h = D(h)
    BY <1>3, <1>5
  <1>7. f = D(f)
    <2> HIDE DEF D
    <2>1. \E e : e = D(e)
      BY <1>6, Zenon
    <2>2. QED
      BY <2>1, Zenon
  <1> HIDE DEF f
  <1>8. \A i \in 0 .. n : f[i] = At(f, i)
    BY <1>7, Zenon
  <1> DEFINE T == { i \in Nat : i <= n => f[i] = g[i] }
  <1>9. 0 \in T
    <2>1. 0 \in 0 .. n
      OBVIOUS
    <2>2. f[0] = g[0]
      BY <1>4, <1>8, <2>1, Zenon DEF At
    <2>3. QED
      BY <2>2
  <1>10. ASSUME NEW i \in T PROVE i + 1 \in T
    <2> SUFFICES ASSUME i + 1 <= n PROVE f[i + 1] = g[i + 1]
      OBVIOUS
    <2> DEFINE j == i + 1
    <2>1. j \in 1 .. n /\ j \in 0 .. n /\ j # 0 /\ j - 1 = i /\ f[i] = g[i]
      OBVIOUS
    <2> HIDE DEF j
    <2>2. f[j] = radix * f[j - 1] + digits[j]
      BY <1>8, <2>1, Zenon DEF At
    <2>3. g[j] = radix * g[j - 1] + digits[j]
      BY <1>4, <2>1, Zenon
    <2>4. f[j] = g[j]
      BY <2>1, <2>2, <2>3, Zenon
    <2>5. QED
      BY <2>4 DEF j
  <1>11. T \in SUBSET Nat
    OBVIOUS
  <1> HIDE DEF T
  <1>12. \A i \in Nat : i \in T
    BY <1>9, <1>10, <1>11, SetInduction
  <1>13. n \in T
    BY <1>12
  <1>14. f[n] = g[n]
    BY <1>13 DEF T
  <1>15. QED
    BY <1>1, <1>14, Zenon

LEMMA ValueAppend ==
  ASSUME NEW s \in Seq(Int), NEW x \in Int, NEW radix \in Int
  PROVE  /\ ValueOf(s, radix) \in Int
         /\ ValueOf(s \o <<x>>, radix) = radix * ValueOf(s, radix) + x
         /\ ValueOf(<<>>, radix) = 0
  <1> DEFINE n == Len(s)
             t == s \o <<x>>
  <1>1. t \in Seq(Int) /\ Len(t) = n + 1 /\ n \in Nat /\ t[n + 1] = x
        /\ \A i \in 1 .. n : t[i] = s[i]
    OBVIOUS
  <1> HIDE DEF t
  <1>2. PICK f \in [0 .. Len(t) -> Int] : Values(f, t, radix)
    BY <1>1, ValuesExist
  <1>3. f[0] = 0 /\ \A i \in 1 .. n + 1 : f[i] = radix * f[i - 1] + t[i]
    BY <1>1, <1>2, Zenon DEF Values
  <1>4. \A i \in 1 .. n : f[i] = radix * f[i - 1] + s[i]
    <2>1. \A i \in 1 .. n : i \in 1 .. n + 1
      BY <1>1
    <2>2. QED
      BY <1>1, <1>3, <2>1, Zenon
  <1>5. Values(f, s, radix)
    BY <1>3, <1>4, Zenon DEF Values
  <1>6. ValueOf(s, radix) = f[n]
    BY <1>1, <1>5, ValueIs
  <1>7. ValueOf(t, radix) = f[n + 1]
    <2>1. ValueOf(t, radix) = f[Len(t)]
      BY <1>1, <1>2, ValueIs
    <2>2. QED
      BY <1>1, <2>1, Zenon
  <1>8. f[n + 1] = radix * f[n] + x
    <2> DEFINE k == n + 1
    <2>1. k \in 1 .. n + 1 /\ k - 1 = n /\ t[k] = x
      BY <1>1
    <2> HIDE DEF k
    <2>2. f[k] = radix * f[k - 1] + t[k]
      BY <1>3, <2>1, Zenon
    <2>3. f[k] = radix * f[n] + x
      BY <2>1, <2>2, Zenon
    <2>4. QED
      BY <2>3 DEF k
  <1>9. f[n] \in Int
    <2>1. n \in 0 .. Len(t)
      BY <1>1
    <2>2. QED
      BY <2>1
  <1>10. ValueOf(<<>>, radix) = 0
    <2> DEFINE e == [i \in 0 .. 0 |-> 0]
    <2>1. e[0] = 0 /\ Len(<<>>) = 0
      OBVIOUS
    <2> HIDE DEF e
    <2>2. Values(e, <<>>, radix)
      BY <2>1 DEF Values
    <2>3. QED
      BY <2>1, <2>2, ValueIs
  <1>11. QED
    BY <1>6, <1>7, <1>8, <1>9, <1>10, Zenon DEF t

-----------------------------------------------------------------------------
(* The digits of a number that is not negative are its decimal notation. *)
Figures(s) == [i \in DOMAIN s |-> s[i] - Ch.zero]

Decimal(s, n) ==
  /\ s \in Seq(48 .. 57) /\ Len(s) >= 1
  /\ n > 0 => s[1] # Ch.zero
  /\ n = 0 => Len(s) = 1
  /\ ValueOf(Figures(s), 10) = n

LEMMA FiguresAppend ==
  ASSUME NEW s \in Seq(Int), NEW x \in Int
  PROVE  Figures(s) \in Seq(Int) /\ Figures(s \o <<x>>) = Figures(s) \o <<x - Ch.zero>>
  <1> DEFINE n == Len(s)
             t == s \o <<x>>
             a == Figures(s)
             y == x - Ch.zero
             b == a \o <<y>>
  <1>1. t \in Seq(Int) /\ Len(t) = n + 1 /\ n \in Nat /\ t[n + 1] = x
        /\ \A i \in 1 .. n : t[i] = s[i]
    OBVIOUS
  <1>2. DOMAIN t = 1 .. n + 1 /\ DOMAIN s = 1 .. n
    BY <1>1, LenProperties
  <1>3. y \in Int
    BY DEF Ch
  <1>4. a = [i \in 1 .. n |-> s[i] - Ch.zero]
    BY <1>2 DEF Figures
  <1>5. \A i \in 1 .. n : s[i] - Ch.zero \in Int
    BY <1>1 DEF Ch
  <1>6. a \in Seq(Int) /\ Len(a) = n /\ \A i \in 1 .. n : a[i] = s[i] - Ch.zero
    BY <1>1, <1>4, <1>5
  <1>7. Figures(t) = [i \in 1 .. n + 1 |-> t[i] - Ch.zero]
    BY <1>2 DEF Figures
  <1> HIDE DEF t, a
  <1>8. b \in Seq(Int) /\ Len(b) = n + 1 /\ b[n + 1] = y /\ \A i \in 1 .. n : b[i] = a[i]
    <2> HIDE DEF y
    <2>1. QED
      BY <1>3, <1>6
  <1>9. b = [i \in 1 .. n + 1 |-> b[i]]
    BY <1>8
  <1> HIDE DEF b
  <1>10. \A i \in 1 .. n + 1 : t[i] - Ch.zero = b[i]
    <2> SUFFICES ASSUME NEW i \in 1 .. n + 1 PROVE t[i] - Ch.zero = b[i]
      OBVIOUS
    <2>1. CASE i = n + 1
      BY <1>1, <1>8, <2>1, Zenon
    <2>2. CASE i # n + 1
      <3>1. i \in 1 .. n
        BY <1>1, <2>2
      <3>2. QED
        BY <1>1, <1>6, <1>8, <3>1, Zenon
    <2>3. QED
      BY <2>1, <2>2
  <1>11. Figures(t) = b
    BY <1>7, <1>9, <1>10
  <1>12. QED
    BY <1>6, <1>11 DEF t, a, b

LEMMA DecimalAppend ==
  ASSUME NEW s, NEW q \in Nat \ {0}, Decimal(s, q), NEW r \in 0 .. 9
  PROVE  Decimal(s \o <<Ch.zero + r>>, 10 * q + r)
  <1> DEFINE x == Ch.zero + r
             t == s \o <<x>>
  <1>1. s \in Seq(48 .. 57) /\ Len(s) \in Nat /\ Len(s) >= 1 /\ s[1] # Ch.zero
    BY DEF Decimal
  <1>2. ValueOf(Figures(s), 10) = q
    BY Zenon DEF Decimal
  <1>3. x \in 48 .. 57 /\ x \in Int /\ x - Ch.zero = r
    BY DEF Ch
  <1> HIDE DEF x
  <1>4. t \in Seq(48 .. 57) /\ Len(t) >= 1 /\ t[1] = s[1]
    BY <1>1, <1>3
  <1>5. s \in Seq(Int)
    BY <1>1
  <1>6. Figures(s) \in Seq(Int) /\ Figures(t) = Figures(s) \o <<r>>
    BY <1>3, <1>5, FiguresAppend
  <1> HIDE DEF t
  <1>7. r \in Int /\ 10 \in Int
    OBVIOUS
  <1> DEFINE a == Figures(s)
  <1>8. a \in Seq(Int)
    BY <1>6
  <1> HIDE DEF a
  <1>9. ValueOf(a \o <<r>>, 10) = 10 * ValueOf(a, 10) + r
    BY <1>7, <1>8, ValueAppend, Zenon
  <1>10. ValueOf(Figures(t), 10) = 10 * q + r
    BY <1>2, <1>6, <1>9, Zenon DEF a
  <1>11. 10 * q + r > 0 /\ 10 * q + r # 0
    OBVIOUS
  <1>12. Decimal(t, 10 * q + r)
    BY <1>1, <1>4, <1>10, <1>11, Zenon DEF Decimal
  <1>13. QED
    BY <1>12, Zenon DEF t, x

LEMMA DecimalDigit ==
  ASSUME NEW r \in 0 .. 9
  PROVE  Decimal(<<Ch.zero + r>>, r)
  <1> DEFINE x == Ch.zero + r
             t == <<x>>
  <1>1. x \in 48 .. 57 /\ x \in Int /\ x - Ch.zero = r /\ (r > 0 => x # Ch.zero)
    BY DEF Ch
  <1> HIDE DEF x
  <1>2. t \in Seq(48 .. 57) /\ Len(t) = 1 /\ t[1] = x /\ DOMAIN t = 1 .. 1 /\ <<>> \o <<r>> = <<r>>
    BY <1>1
  <1>3. Figures(t) = <<r>>
    BY <1>1, <1>2 DEF Figures
  <1>4. ValueOf(<<>> \o <<r>>, 10) = 10 * ValueOf(<<>>, 10) + r /\ ValueOf(<<>>, 10) = 0
    <2>1. <<>> \in Seq(Int) /\ r \in Int /\ 10 \in Int
      OBVIOUS
    <2>2. QED
      BY <2>1, ValueAppend, Zenon
  <1>5. ValueOf(Figures(t), 10) = 10 * 0 + r
    BY <1>2, <1>3, <1>4, Zenon
  <1>6. 10 * 0 + r = r /\ Len(t) >= 1
    BY <1>2
  <1> HIDE DEF t
  <1>7. Decimal(t, r)
    BY <1>1, <1>2, <1>5, <1>6, Zenon DEF Decimal
  <1>8. QED
    BY <1>7, Zenon DEF t, x

LEMMA DigitsAreDecimal ==
  ASSUME NEW k \in Nat, NEW f, f = Digits(f, k)
  PROVE  \A n \in 0 .. k : Decimal(f[n], n)
  <1> DEFINE T == { j \in Nat : \A n \in 0 .. k : n <= j => Decimal(f[n], n) }
  <1>1. \A n \in Least .. k : f[n] = Digit(f, n)
    BY Zenon DEF Digits
  <1>2. ASSUME NEW n \in 0 .. k, Quot(n) > 0 => Decimal(f[Quot(n)], Quot(n))
        PROVE  Decimal(f[n], n)
    <2>1. n \in Nat /\ n \in Least .. k
      BY Bounds
    <2>2. Quot(n) = n \div 10 /\ Rem(n) = n - 10 * (n \div 10)
      BY <2>1 DEF Quot, Rem
    <2>3. Quot(n) \in Nat /\ Rem(n) \in 0 .. 9 /\ 10 * Quot(n) + Rem(n) = n
      BY <2>1, <2>2
    <2>4. f[n] = (IF Quot(n) > 0 THEN f[Quot(n)] ELSE <<>>) \o <<Ch.zero + Rem(n)>>
      BY <1>1, <2>1, Zenon DEF Digit
    <2>5. CASE Quot(n) > 0
      <3> DEFINE s == f[Quot(n)]
                 q == Quot(n)
                 r == Rem(n)
      <3>1. q \in Nat \ {0} /\ r \in 0 .. 9 /\ Decimal(s, q)
        BY <1>2, <2>3, <2>5
      <3>2. f[n] = s \o <<Ch.zero + r>>
        BY <2>4, <2>5, Zenon
      <3>3. 10 * q + r = n
        BY <2>3
      <3> HIDE DEF s, q, r
      <3>4. Decimal(s \o <<Ch.zero + r>>, 10 * q + r)
        BY <3>1, DecimalAppend
      <3>5. QED
        BY <3>2, <3>3, <3>4, Zenon
    <2>6. CASE ~(Quot(n) > 0)
      <3> DEFINE r == Rem(n)
                 x == Ch.zero + r
      <3>1. r \in 0 .. 9 /\ r = n
        BY <2>3, <2>6
      <3>2. <<>> \o <<x>> = <<x>>
        OBVIOUS
      <3>3. f[n] = <<x>>
        BY <2>4, <2>6, <3>2, Zenon
      <3> HIDE DEF r
      <3>4. Decimal(<<x>>, r)
        BY <3>1, DecimalDigit
      <3>5. QED
        BY <3>1, <3>3, <3>4, Zenon
    <2>7. QED
      BY <2>5, <2>6
  <1>3. 0 \in T
    <2> SUFFICES ASSUME NEW n \in 0 .. k, n <= 0 PROVE Decimal(f[n], n)
      OBVIOUS
    <2>1. ~(Quot(n) > 0)
      BY QuotSmaller
    <2>2. QED
      BY <1>2, <2>1, Zenon
  <1>4. ASSUME NEW j \in T PROVE j + 1 \in T
    <2> SUFFICES ASSUME NEW n \in 0 .. k, n <= j + 1 PROVE Decimal(f[n], n)
      OBVIOUS
    <2>1. j \in Nat /\ \A i \in 0 .. k : i <= j => Decimal(f[i], i)
      OBVIOUS
    <2>2. n \in Int
      OBVIOUS
    <2> HIDE DEF T
    <2>3. Quot(n) > 0 => Quot(n) \in 0 .. k /\ Quot(n) <= j
      <3>1. Quot(n) \in Int /\ (Quot(n) > 0 => Quot(n) < n)
        BY <2>2, QuotSmaller
      <3>2. QED
        BY <2>1, <2>2, <3>1
    <2>4. Quot(n) > 0 => Decimal(f[Quot(n)], Quot(n))
      BY <2>1, <2>3, Zenon
    <2>5. QED
      BY <1>2, <2>4, Zenon
  <1>5. T \in SUBSET Nat
    OBVIOUS
  <1> HIDE DEF T
  <1>6. \A j \in Nat : j \in T
    BY <1>3, <1>4, <1>5, SetInduction
  <1>7. k \in T
    BY <1>6
  <1>8. QED
    BY <1>7 DEF T

LEMMA Wraps ==
  ASSUME NEW m \in Int, 0 < m, m <= -Least
  PROVE  AsInt(m) = IF m = -Least THEN Least ELSE m
  <1> DEFINE h == INT \div 2
  <1>1. h \in Nat /\ h > 0 /\ INT = 2 * h
    BY PrintAssumption
  <1>2. AsInt(m) = ((m + h) % INT) - h /\ Least = -h /\ m <= h
    <2>1. m - Least = m + h
      BY <1>1 DEF Least
    <2>2. QED
      BY <1>1, <2>1 DEF Least, AsInt
  <1> HIDE DEF h
  <1>3. CASE m = h
    <2>1. (2 * h) % (2 * h) = 0
      BY <1>1
    <2>2. (m + h) % INT = 0
      BY <1>1, <1>3, <2>1
    <2>3. QED
      BY <1>1, <1>2, <1>3, <2>2
  <1>4. CASE m # h
    <2>1. m + h \in 0 .. INT - 1
      BY <1>1, <1>2, <1>4
    <2>2. (m + h) % INT = m + h
      BY <1>1, <2>1
    <2>3. QED
      BY <1>1, <1>2, <1>4, <2>2
  <1>5. QED
    BY <1>3, <1>4

LEMMA print_dWrites ==
  ASSUME NEW n \in IntRange
  PROVE  /\ n >= 0 => Decimal(print_d(n), n)
         /\ n < 0 /\ n # Least => \E u : Decimal(u, -n) /\ print_d(n) = <<Ch.minus>> \o u
         /\ n = Least => print_d(n) = <<Ch.minus, 40>>
  <1> DEFINE k == -Least - 1
             f == CHOOSE f : f = Digits(f, k)
  <1>1. k \in Nat
    BY Bounds
  <1>2. print_d(n) = IF n < 0 THEN <<Ch.minus>> \o f[AsInt(-n)] ELSE f[n]
    BY Zenon DEF print_d, Digits, Digit, IntRange
  <1>3. n \in Int /\ Least <= n /\ n <= k /\ Least < 0 /\ Least \in Int /\ k = -Least - 1
    BY Bounds DEF IntRange
  <1> HIDE DEF k
  <1>4. f = Digits(f, k)
    BY <1>1, DigitsExist, Zenon
  <1> HIDE DEF f
  <1>5. \A m \in 0 .. k : Decimal(f[m], m)
    BY <1>1, <1>4, DigitsAreDecimal
  <1>6. CASE n >= 0
    <2>1. n \in 0 .. k /\ ~(n < 0) /\ n # Least
      BY <1>1, <1>3, <1>6
    <2>2. Decimal(print_d(n), n)
      BY <1>2, <1>5, <2>1, Zenon
    <2>3. QED
      BY <2>1, <2>2
  <1>7. CASE n < 0 /\ n # Least
    <2> DEFINE m == -n
    <2>1. m \in 0 .. k /\ m \in Int /\ 0 < m /\ m <= -Least /\ m # -Least /\ ~(n >= 0)
      BY <1>1, <1>3, <1>7
    <2> HIDE DEF m
    <2>2. AsInt(m) = m
      BY <2>1, Wraps
    <2>3. Decimal(f[m], m)
      BY <1>5, <2>1, Zenon
    <2>4. print_d(n) = <<Ch.minus>> \o f[m]
      BY <1>2, <1>7, <2>2, Zenon DEF m
    <2>5. Decimal(f[m], -n)
      BY <2>3, Zenon DEF m
    <2>6. QED
      BY <1>7, <2>1, <2>4, <2>5
  <1>8. CASE n = Least
    <2>1. AsInt(-n) = Least
      <3> DEFINE m == -Least
      <3>1. m \in Int /\ 0 < m /\ m <= -Least
        BY <1>3
      <3>2. AsInt(m) = Least
        BY <3>1, Wraps
      <3>3. QED
        BY <1>8, <3>2
    <2>2. Least \in Least .. k
      BY <1>1, <1>3
    <2>3. f[Least] = Digit(f, Least)
      BY <1>4, <2>2, Zenon DEF Digits
    <2>4. Rem(Least) = -8 /\ ~(Quot(Least) > 0)
      <3> DEFINE h == INT \div 2
      <3>1. h \in Nat /\ h % 10 = 8 /\ Least = -h /\ h > 0
        BY PrintAssumption DEF Least
      <3> HIDE DEF h
      <3>2. Quot(Least) = -(h \div 10)
        BY <3>1 DEF Quot
      <3>3. QED
        BY <3>1, <3>2 DEF Rem
    <2>5. Ch.zero + Rem(Least) = 40
      BY <2>4 DEF Ch
    <2>6. Digit(f, Least) = <<>> \o <<40>>
      BY <2>4, <2>5, Zenon DEF Digit
    <2>7. <<Ch.minus>> \o (<<>> \o <<40>>) = <<Ch.minus, 40>>
      <3> DEFINE z == Ch.minus
      <3>1. <<>> \o <<40>> = <<40>> /\ z \in Int
        BY DEF Ch
      <3> HIDE DEF z
      <3>2. <<z>> \o <<40>> = <<z, 40>>
        <4> DEFINE w == <<z>> \o <<40>>
        <4>1. w \in Seq(Int) /\ Len(w) = 2 /\ w[1] = z /\ w[2] = 40
          BY <3>1
        <4> HIDE DEF w
        <4>2. w = <<z, 40>>
          BY <4>1
        <4>3. QED
          BY <4>2 DEF w
      <3>3. QED
        BY <3>1, <3>2, Zenon DEF z
    <2>8. n < 0 /\ ~(n >= 0)
      BY <1>3, <1>8
    <2>9. print_d(n) = <<Ch.minus, 40>>
      BY <1>2, <2>1, <2>3, <2>6, <2>7, <2>8, Zenon
    <2>10. QED
      BY <1>8, <2>8, <2>9
  <1>9. QED
    BY <1>3, <1>6, <1>7, <1>8

-----------------------------------------------------------------------------
(* What atol makes of a text, spaces before it or not. *)
TextStart(str) == SelectInSeq(str, LAMBDA c : c # Ch.space)

AfterSpaces(str) ==
  IF TextStart(str) = 0 THEN <<>> ELSE SubSeq(str, TextStart(str), Len(str))

LEMMA NoSpaces ==
  ASSUME NEW t \in Seq(Int), Len(t) >= 1, t[1] # Ch.space
  PROVE  AfterSpaces(t) = t
  <1> DEFINE I == { i \in 1 .. Len(t) : t[i] # Ch.space }
  <1>1. Len(t) \in Nat /\ 1 \in I /\ I \subseteq Int /\ \A i \in I : 1 <= i
    OBVIOUS
  <1>2. TextStart(t) = IF I # {} THEN Min(I) ELSE 0
    BY DEF TextStart, SelectInSeq
  <1> HIDE DEF I
  <1>3. Min(I) = 1
    BY <1>1, MinIs
  <1>4. TextStart(t) = 1
    BY <1>1, <1>2, <1>3
  <1>5. SubSeq(t, 1, Len(t)) = t
    BY <1>1
  <1>6. 1 # 0
    OBVIOUS
  <1>7. QED
    BY <1>4, <1>5, <1>6, Zenon DEF AfterSpaces

LEMMA TwoSpaces ==
  ASSUME NEW t \in Seq(Int), Len(t) >= 1, t[1] # Ch.space
  PROVE  AfterSpaces(<<Ch.space, Ch.space>> \o t) = t
  <1> DEFINE n == Len(t)
             str == <<Ch.space, Ch.space>> \o t
             I == { i \in 1 .. Len(str) : str[i] # Ch.space }
  <1>1. Ch.space \in Int
    BY DEF Ch
  <1>2. str \in Seq(Int) /\ Len(str) = n + 2 /\ n \in Nat /\ str[1] = Ch.space /\ str[2] = Ch.space
        /\ \A i \in 1 .. n : str[i + 2] = t[i]
    BY <1>1
  <1> HIDE DEF str
  <1>3. 3 \in I /\ I \subseteq Int /\ \A i \in I : 3 <= i
    <2>1. 3 = 1 + 2 /\ 1 \in 1 .. n /\ 3 \in 1 .. Len(str)
      BY <1>2
    <2>2. str[3] = t[1]
      BY <1>2, <2>1
    <2>3. \A i \in I : i # 1 /\ i # 2
      BY <1>2
    <2>4. QED
      BY <2>1, <2>2, <2>3
  <1>4. TextStart(str) = IF I # {} THEN Min(I) ELSE 0
    BY DEF TextStart, SelectInSeq
  <1> HIDE DEF I
  <1>5. Min(I) = 3
    BY <1>3, MinIs
  <1>6. TextStart(str) = 3
    BY <1>3, <1>4, <1>5
  <1>7. SubSeq(str, 3, Len(str)) = t
    <2> DEFINE u == SubSeq(str, 3, n + 2)
    <2>1. u \in Seq(Int) /\ Len(u) = n /\ \A i \in 1 .. n : u[i] = str[3 + i - 1]
      BY <1>2
    <2>2. ASSUME NEW i \in 1 .. n PROVE u[i] = t[i]
      <3>1. 3 + i - 1 = i + 2
        OBVIOUS
      <3>2. u[i] = str[i + 2]
        BY <2>1, <3>1
      <3>3. QED
        BY <1>2, <3>2
    <2> HIDE DEF u
    <2>3. u = t
      BY <2>1, <2>2
    <2>4. QED
      BY <1>2, <2>3 DEF u
  <1>8. 3 # 0
    OBVIOUS
  <1>9. QED
    BY <1>6, <1>7, <1>8, Zenon DEF AfterSpaces, str

LEMMA DropTwo ==
  ASSUME NEW t \in Seq(Int), NEW a \in Int, NEW b \in Int
  PROVE  /\ Len(<<a, b>> \o t) = 2 + Len(t)
         /\ SubSeq(<<a, b>> \o t, 3, Len(<<a, b>> \o t)) = t
  <1> DEFINE n == Len(t)
             str == <<a, b>> \o t
             u == SubSeq(str, 3, n + 2)
  <1>1. str \in Seq(Int) /\ Len(str) = n + 2 /\ n \in Nat /\ \A i \in 1 .. n : str[i + 2] = t[i]
    OBVIOUS
  <1> HIDE DEF str
  <1>2. u \in Seq(Int) /\ Len(u) = n /\ \A i \in 1 .. n : u[i] = str[3 + i - 1]
    BY <1>1
  <1>3. ASSUME NEW i \in 1 .. n PROVE u[i] = t[i]
    <2>1. 3 + i - 1 = i + 2
      OBVIOUS
    <2>2. u[i] = str[i + 2]
      BY <1>2, <2>1
    <2>3. QED
      BY <1>1, <2>2
  <1> HIDE DEF u
  <1>4. u = t
    BY <1>2, <1>3
  <1>5. n + 2 = 2 + n
    BY <1>1
  <1>6. QED
    BY <1>1, <1>4, <1>5, Zenon DEF str, u

(* What atol makes of what stands behind the spaces. *)
Reading(rest) ==
  LET signed  == rest # <<>> /\ Head(rest) \in {Ch.minus, Ch.plus}
      figures == IF signed THEN Tail(rest) ELSE rest
      value   == ValueOf(Figures(figures), 10)
  IN  IF signed /\ Head(rest) = Ch.minus THEN -value ELSE value

LEMMA atolReads == \A str : atol(str) = Reading(AfterSpaces(str))
  BY Zenon DEF atol, Reading, AfterSpaces, TextStart, Figures

LEMMA ReadsDigits ==
  ASSUME NEW n, NEW t, Decimal(t, n)
  PROVE  t \in Seq(Int) /\ Len(t) >= 1 /\ t[1] # Ch.space /\ Reading(t) = n
  <1>1. t \in Seq(48 .. 57) /\ Len(t) >= 1
    BY DEF Decimal
  <1>2. ValueOf(Figures(t), 10) = n
    BY Zenon DEF Decimal
  <1>3. t \in Seq(Int) /\ t # <<>> /\ Head(t) = t[1] /\ t[1] \in 48 .. 57
    BY <1>1
  <1>4. Head(t) \notin {Ch.minus, Ch.plus} /\ t[1] # Ch.space
    BY <1>3 DEF Ch
  <1>5. Reading(t) = ValueOf(Figures(t), 10)
    BY <1>4, Zenon DEF Reading
  <1>6. QED
    BY <1>1, <1>2, <1>3, <1>4, <1>5, Zenon

LEMMA ReadsMinus ==
  ASSUME NEW n, NEW u, Decimal(u, n)
  PROVE  LET t == <<Ch.minus>> \o u
         IN  t \in Seq(Int) /\ Len(t) >= 1 /\ t[1] # Ch.space /\ t[1] # Ch.zero /\ Reading(t) = -n
  <1> DEFINE z == Ch.minus
             t == <<z>> \o u
  <1>1. u \in Seq(Int)
    <2>1. u \in Seq(48 .. 57)
      BY DEF Decimal
    <2>2. QED
      BY <2>1
  <1>2. ValueOf(Figures(u), 10) = n
    BY Zenon DEF Decimal
  <1>3. z \in Int /\ z # Ch.space /\ z # Ch.zero /\ z \in {Ch.minus, Ch.plus} /\ z = Ch.minus
    BY DEF Ch
  <1> HIDE DEF z
  <1>4. t \in Seq(Int) /\ Len(t) = Len(u) + 1 /\ Len(u) \in Nat /\ t[1] = z
        /\ \A i \in 1 .. Len(u) : t[i + 1] = u[i]
    BY <1>1, <1>3
  <1> HIDE DEF t
  <1>5. t # <<>> /\ Head(t) = z /\ Len(t) >= 1
    BY <1>4
  <1>6. Tail(t) = u
    <2> DEFINE w == Tail(t)
    <2>1. w \in Seq(Int) /\ Len(w) = Len(u) /\ \A i \in 1 .. Len(u) : w[i] = t[i + 1]
      BY <1>4, <1>5
    <2> HIDE DEF w
    <2>2. \A i \in 1 .. Len(u) : w[i] = u[i]
      BY <1>4, <2>1, Zenon
    <2>3. w = u
      BY <1>1, <2>1, <2>2
    <2>4. QED
      BY <2>3 DEF w
  <1>7. Reading(t) = -ValueOf(Figures(u), 10)
    BY <1>3, <1>5, <1>6, Zenon DEF Reading
  <1>8. t \in Seq(Int) /\ Len(t) >= 1 /\ t[1] # Ch.space /\ t[1] # Ch.zero /\ Reading(t) = -n
    BY <1>2, <1>3, <1>4, <1>5, <1>7, Zenon
  <1>9. QED
    BY <1>8, Zenon DEF t, z

LEMMA ReadsBehindSpaces ==
  ASSUME NEW t \in Seq(Int), Len(t) >= 1, t[1] # Ch.space
  PROVE  atol(t) = Reading(t) /\ atol(<<Ch.space, Ch.space>> \o t) = Reading(t)
  <1>1. AfterSpaces(t) = t
    BY NoSpaces
  <1>2. AfterSpaces(<<Ch.space, Ch.space>> \o t) = t
    BY TwoSpaces
  <1>3. QED
    BY <1>1, <1>2, atolReads, Zenon

(* What %d prints reads back. *)
LEMMA IntsReadBack ==
  ASSUME NEW n \in IntRange
  PROVE  LET out == print_d(n)
         IN  IF n = Least THEN out = <<Ch.minus, 40>>
             ELSE /\ atol(out) = n
                  /\ atol(<<Ch.space, Ch.space>> \o out) = n
                  /\ Len(out) = 1 \/ out[1] # Ch.zero
  <1> DEFINE out == print_d(n)
  <1>1. n \in Int /\ Least < 0
    BY Bounds DEF IntRange
  <1>2. /\ n >= 0 => Decimal(out, n)
        /\ n < 0 /\ n # Least => \E u : Decimal(u, -n) /\ out = <<Ch.minus>> \o u
        /\ n = Least => out = <<Ch.minus, 40>>
    BY print_dWrites
  <1> HIDE DEF out
  <1>3. CASE n = Least
    BY <1>2, <1>3 DEF out
  <1>4. CASE n >= 0
    <2>1. Decimal(out, n) /\ n # Least
      BY <1>1, <1>2, <1>4
    <2>2. out \in Seq(Int) /\ Len(out) >= 1 /\ out[1] # Ch.space /\ Reading(out) = n
      BY <2>1, ReadsDigits
    <2>3. atol(out) = n /\ atol(<<Ch.space, Ch.space>> \o out) = n
      BY <2>2, ReadsBehindSpaces
    <2>4. n > 0 \/ n = 0
      BY <1>1, <1>4
    <2>5. Len(out) = 1 \/ out[1] # Ch.zero
      BY <2>1, <2>4, Zenon DEF Decimal
    <2>6. QED
      BY <2>1, <2>3, <2>5, Zenon DEF out
  <1>5. CASE n < 0 /\ n # Least
    <2>1. PICK u : Decimal(u, -n) /\ out = <<Ch.minus>> \o u
      BY <1>2, <1>5
    <2>2. /\ out \in Seq(Int) /\ Len(out) >= 1 /\ out[1] # Ch.space /\ out[1] # Ch.zero
          /\ Reading(out) = -(-n)
      BY <2>1, ReadsMinus, Zenon
    <2>3. atol(out) = -(-n) /\ atol(<<Ch.space, Ch.space>> \o out) = -(-n)
      BY <2>2, ReadsBehindSpaces
    <2>4. -(-n) = n
      BY <1>1
    <2>5. QED
      BY <1>5, <2>2, <2>3, <2>4, Zenon DEF out
  <1>6. QED
    BY <1>1, <1>3, <1>4, <1>5

-----------------------------------------------------------------------------
(* What %p prints reads back. *)
Counts(f) == [k \in 0 .. NIBBLES |-> IF k = 0 THEN 1 ELSE 16 * f[k - 1]]

LEMMA PointersAre ==
  \E c : /\ c[0] = 1 /\ \A k \in 1 .. NIBBLES : c[k] = 16 * c[k - 1]
         /\ Pointers = 0 .. c[NIBBLES] - 1
  <1> DEFINE n == NIBBLES
             g == [k \in 1 .. n |-> [v \in Int |-> 16 * v]]
             c == CHOOSE c : c = Counts(c)
  <1>1. Pointers = 0 .. c[n] - 1
    BY Zenon DEF Pointers, Counts
  <1>2. n \in Nat
    BY Bounds
  <1> HIDE DEF n
  <1>3. g \in [1 .. n -> [Int -> Int]] /\ \A k \in 1 .. n, v \in Int : g[k][v] = 16 * v
    OBVIOUS
  <1> HIDE DEF g
  <1>4. PICK f \in [0 .. n -> Int] : Steps(f, 1, g, n)
    <2>1. 1 \in Int
      OBVIOUS
    <2>2. QED
      BY <1>2, <1>3, <2>1, StepsExist, Zenon
  <1>5. f[0] = 1 /\ \A k \in 1 .. n : f[k] = g[k][f[k - 1]]
    BY <1>4, Zenon DEF Steps
  <1>6. ASSUME NEW k \in 0 .. n PROVE f[k] = IF k = 0 THEN 1 ELSE 16 * f[k - 1]
    <2>1. CASE k = 0
      BY <1>5, <2>1, Zenon
    <2>2. CASE k # 0
      <3>1. k \in 1 .. n /\ k - 1 \in 0 .. n
        BY <1>2, <2>2
      <3>2. f[k - 1] \in Int
        BY <3>1
      <3>3. f[k] = 16 * f[k - 1]
        BY <1>3, <1>5, <3>1, <3>2, Zenon
      <3>4. QED
        BY <2>2, <3>3, Zenon
    <2>3. QED
      BY <2>1, <2>2
  <1>7. f = Counts(f)
    BY <1>6 DEF Counts, n
  <1>8. c = Counts(c)
    BY <1>7, Zenon
  <1> HIDE DEF c
  <1>9. \A k \in 0 .. n : c[k] = IF k = 0 THEN 1 ELSE 16 * c[k - 1]
    BY <1>8, Zenon DEF Counts, n
  <1>10. c[0] = 1 /\ \A k \in 1 .. n : c[k] = 16 * c[k - 1]
    BY <1>2, <1>9
  <1>11. QED
    BY <1>1, <1>10, Zenon DEF n

LEMMA ShiftsAre ==
  ASSUME NEW ptr \in Int
  PROVE  \E h : /\ h[0] = ptr /\ \A k \in 1 .. NIBBLES : h[k] = h[k - 1] \div 16
                /\ print_p(ptr) = <<Ch.zero, Ch.x>>
                                    \o [i \in 1 .. NIBBLES |-> HexDigit(h[NIBBLES - i] % 16)]
  <1> DEFINE n == NIBBLES
             g == [k \in 1 .. n |-> [v \in Int |-> v \div 16]]
             h == CHOOSE h : h = Shifts(h, ptr)
  <1>1. print_p(ptr) = <<Ch.zero, Ch.x>> \o [i \in 1 .. n |-> HexDigit(h[n - i] % 16)]
    BY Zenon DEF print_p, Shifts
  <1>2. n \in Nat
    BY Bounds
  <1> HIDE DEF n
  <1>3. g \in [1 .. n -> [Int -> Int]] /\ \A k \in 1 .. n, v \in Int : g[k][v] = v \div 16
    OBVIOUS
  <1> HIDE DEF g
  <1>4. PICK f \in [0 .. n -> Int] : Steps(f, ptr, g, n)
    BY <1>2, <1>3, StepsExist, Zenon
  <1>5. f[0] = ptr /\ \A k \in 1 .. n : f[k] = g[k][f[k - 1]]
    BY <1>4, Zenon DEF Steps
  <1>6. ASSUME NEW k \in 0 .. n PROVE f[k] = IF k = 0 THEN ptr ELSE f[k - 1] \div 16
    <2>1. CASE k = 0
      BY <1>5, <2>1, Zenon
    <2>2. CASE k # 0
      <3>1. k \in 1 .. n /\ k - 1 \in 0 .. n
        BY <1>2, <2>2
      <3>2. f[k - 1] \in Int
        BY <3>1
      <3>3. f[k] = f[k - 1] \div 16
        BY <1>3, <1>5, <3>1, <3>2, Zenon
      <3>4. QED
        BY <2>2, <3>3, Zenon
    <2>3. QED
      BY <2>1, <2>2
  <1>7. f = Shifts(f, ptr)
    BY <1>6 DEF Shifts, n
  <1>8. h = Shifts(h, ptr)
    BY <1>7, Zenon
  <1> HIDE DEF h
  <1>9. \A k \in 0 .. n : h[k] = IF k = 0 THEN ptr ELSE h[k - 1] \div 16
    BY <1>8, Zenon DEF Shifts, n
  <1>10. h[0] = ptr /\ \A k \in 1 .. n : h[k] = h[k - 1] \div 16
    BY <1>2, <1>9
  <1>11. QED
    BY <1>1, <1>10, Zenon DEF n

HexFigures(s) == [i \in DOMAIN s |-> IF s[i] < 97 THEN s[i] - Ch.zero ELSE s[i] - 97 + 10]

LEMMA PointersReadBack ==
  ASSUME NEW ptr \in Pointers
  PROVE  LET out == print_p(ptr)
         IN  Len(out) = 2 + NIBBLES /\ HexValue(SubSeq(out, 3, Len(out))) = ptr
  <1> DEFINE n == NIBBLES
             out == print_p(ptr)
  <1>1. n \in Nat
    BY Bounds
  <1>2. PICK c : /\ c[0] = 1 /\ \A k \in 1 .. n : c[k] = 16 * c[k - 1]
                 /\ Pointers = 0 .. c[n] - 1
    BY PointersAre
  <1>3. \A k \in 0 .. n : c[k] \in Nat
    <2> DEFINE T == { k \in Nat : k <= n => c[k] \in Nat }
    <2>1. 0 \in T
      BY <1>2
    <2>2. ASSUME NEW k \in T PROVE k + 1 \in T
      <3> SUFFICES ASSUME k + 1 <= n PROVE c[k + 1] \in Nat
        OBVIOUS
      <3> DEFINE j == k + 1
      <3>1. j \in 1 .. n /\ j - 1 = k /\ c[k] \in Nat
        BY <1>1
      <3> HIDE DEF j
      <3>2. c[j] = 16 * c[j - 1]
        BY <1>2, <3>1, Zenon
      <3>3. c[j] \in Nat
        BY <3>1, <3>2
      <3>4. QED
        BY <3>3 DEF j
    <2>3. T \in SUBSET Nat
      OBVIOUS
    <2> HIDE DEF T
    <2>4. \A k \in Nat : k \in T
      BY <2>1, <2>2, <2>3, SetInduction
    <2>5. QED
      BY <1>1, <2>4 DEF T
  <1>4. ptr \in Nat /\ ptr < c[n]
    <2>1. c[n] \in Nat
      BY <1>1, <1>3
    <2>2. QED
      BY <1>2, <2>1
  <1>5. PICK h : /\ h[0] = ptr /\ \A k \in 1 .. n : h[k] = h[k - 1] \div 16
                 /\ out = <<Ch.zero, Ch.x>> \o [i \in 1 .. n |-> HexDigit(h[n - i] % 16)]
    <2>1. ptr \in Int
      BY <1>4
    <2>2. QED
      BY <2>1, ShiftsAre, Zenon
  <1> DEFINE t == [i \in 1 .. n |-> HexDigit(h[n - i] % 16)]
  <1> HIDE DEF n, out
  <1>6. \A k \in 0 .. n : h[k] \in Nat /\ h[k] < c[n - k]
    <2> DEFINE T == { k \in Nat : k <= n => h[k] \in Nat /\ h[k] < c[n - k] }
    <2>1. 0 \in T
      <3>1. n - 0 = n
        BY <1>1
      <3>2. h[0] \in Nat /\ h[0] < c[n - 0]
        BY <1>4, <1>5, <3>1
      <3>3. QED
        BY <3>2
    <2>2. ASSUME NEW k \in T PROVE k + 1 \in T
      <3> SUFFICES ASSUME k + 1 <= n PROVE h[k + 1] \in Nat /\ h[k + 1] < c[n - (k + 1)]
        OBVIOUS
      <3> DEFINE j == k + 1
                 i == n - k
      <3>1. /\ j \in 1 .. n /\ j - 1 = k /\ h[k] \in Nat /\ h[k] < c[i]
            /\ i \in 1 .. n /\ i - 1 = n - j /\ i - 1 \in 0 .. n
        BY <1>1
      <3> HIDE DEF i, j
      <3>2. h[j] = h[j - 1] \div 16 /\ c[i] = 16 * c[i - 1]
        BY <1>2, <1>5, <3>1, Zenon
      <3>3. c[i - 1] \in Nat
        BY <1>3, <3>1, Zenon
      <3>4. h[j] = h[k] \div 16 /\ h[k] < 16 * c[i - 1]
        BY <3>1, <3>2, Zenon
      <3> DEFINE a == h[k]
                 b == c[i - 1]
      <3>5. a \in Nat /\ b \in Nat /\ a < 16 * b
        BY <3>1, <3>3, <3>4
      <3> HIDE DEF a, b
      <3>6. a \div 16 \in Nat /\ a \div 16 < b
        BY <3>5
      <3>7. h[j] \in Nat /\ h[j] < c[n - j]
        BY <3>1, <3>4, <3>6, Zenon DEF a, b
      <3>8. QED
        BY <3>7 DEF j
    <2>3. T \in SUBSET Nat
      OBVIOUS
    <2> HIDE DEF T
    <2>4. \A k \in Nat : k \in T
      BY <2>1, <2>2, <2>3, SetInduction
    <2>5. QED
      BY <1>1, <2>4 DEF T
  <1>7. h[n] = 0
    <2>1. n \in 0 .. n /\ n - n = 0
      BY <1>1
    <2>2. h[n] \in Nat /\ h[n] < c[n - n]
      BY <1>6, <2>1, Zenon
    <2>3. h[n] < 1
      BY <1>2, <2>1, <2>2, Zenon
    <2>4. QED
      BY <2>2, <2>3
  <1>8. ASSUME NEW i \in 1 .. n
        PROVE  /\ n - i \in 0 .. n /\ h[n - i] % 16 \in 0 .. 15 /\ t[i] = HexDigit(h[n - i] % 16)
               /\ t[i] \in Int
               /\ (IF t[i] < 97 THEN t[i] - Ch.zero ELSE t[i] - 97 + 10) = h[n - i] % 16
    <2> DEFINE d == h[n - i] % 16
    <2>1. n - i \in 0 .. n
      BY <1>1
    <2>2. h[n - i] \in Nat
      BY <1>6, <2>1, Zenon
    <2>3. d \in 0 .. 15
      BY <2>2
    <2>4. t[i] = HexDigit(d)
      OBVIOUS
    <2> HIDE DEF d, t
    <2>5. /\ HexDigit(d) \in Int
          /\ (IF HexDigit(d) < 97 THEN HexDigit(d) - Ch.zero ELSE HexDigit(d) - 97 + 10) = d
      BY <2>3 DEF HexDigit, Ch
    <2>6. QED
      BY <2>1, <2>3, <2>4, <2>5, Zenon DEF d
  <1>9. t \in Seq(Int) /\ Len(t) = n /\ DOMAIN t = 1 .. n
    <2>1. t = [i \in 1 .. n |-> t[i]] /\ DOMAIN t = 1 .. n
      OBVIOUS
    <2> HIDE DEF t
    <2>2. t \in [1 .. n -> Int]
      BY <1>8, <2>1
    <2>3. QED
      BY <1>1, <2>1, <2>2
  <1>10. out = <<Ch.zero, Ch.x>> \o t
    BY <1>5
  <1> HIDE DEF t
  <1>11. Len(out) = 2 + n /\ SubSeq(out, 3, Len(out)) = t
    <2> DEFINE x == Ch.zero
               y == Ch.x
    <2>1. x \in Int /\ y \in Int /\ out = <<x, y>> \o t
      BY <1>10 DEF Ch
    <2> HIDE DEF x, y
    <2>2. Len(<<x, y>> \o t) = 2 + Len(t) /\ SubSeq(<<x, y>> \o t, 3, Len(<<x, y>> \o t)) = t
      BY <1>9, <2>1, DropTwo
    <2>3. QED
      BY <1>9, <2>1, <2>2, Zenon
  <1>12. HexValue(t) = ptr
    <2> DEFINE f == HexFigures(t)
               g == [i \in 0 .. n |-> h[n - i]]
    <2>1. \A i \in 1 .. n : f[i] = h[n - i] % 16
      BY <1>8, <1>9 DEF HexFigures
    <2>2. Len(f) = n
      <3>1. f = [i \in 1 .. n |-> f[i]]
        BY <1>9 DEF HexFigures
      <3>2. \A i \in 1 .. n : f[i] \in Int
        <4> HIDE DEF f
        <4>1. QED
          BY <1>8, <2>1
      <3> HIDE DEF f
      <3>3. f \in Seq(Int)
        BY <1>1, <3>1, <3>2
      <3>4. QED
        BY <1>1, <3>1, <3>3
    <2>3. \A i \in 0 .. n : g[i] = h[n - i]
      OBVIOUS
    <2> HIDE DEF f, g
    <2>4. ASSUME NEW i \in 1 .. n PROVE g[i] = 16 * g[i - 1] + f[i]
      <3> DEFINE k == n - i + 1
      <3>1. /\ k \in 1 .. n /\ k - 1 = n - i /\ n - (i - 1) = k
            /\ i \in 0 .. n /\ i - 1 \in 0 .. n /\ n - i \in 0 .. n
        BY <1>1
      <3> HIDE DEF k
      <3>2. h[k] = h[k - 1] \div 16
        BY <1>5, <3>1, Zenon
      <3>3. g[i] = h[n - i] /\ g[i - 1] = h[k] /\ f[i] = h[n - i] % 16 /\ h[k] = h[n - i] \div 16
        BY <2>1, <2>3, <3>1, <3>2, Zenon
      <3> DEFINE a == h[n - i]
      <3>4. a \in Nat
        BY <1>6, <3>1, Zenon
      <3> HIDE DEF a
      <3>5. a = 16 * (a \div 16) + (a % 16)
        BY <3>4
      <3>6. QED
        BY <3>3, <3>5, Zenon DEF a
    <2>5. g[0] = 0
      <3>1. 0 \in 0 .. n /\ n - 0 = n
        BY <1>1
      <3>2. QED
        BY <1>7, <2>3, <3>1, Zenon
    <2>6. Values(g, f, 16)
      BY <2>2, <2>4, <2>5, Zenon DEF Values
    <2>7. ValueOf(f, 16) = g[n]
      <3>1. Len(f) \in Nat
        BY <1>1, <2>2
      <3>2. ValueOf(f, 16) = g[Len(f)]
        BY <2>6, <3>1, ValueIs
      <3>3. QED
        BY <2>2, <3>2, Zenon
    <2>8. g[n] = ptr
      <3>1. n \in 0 .. n /\ n - n = 0
        BY <1>1
      <3>2. QED
        BY <1>5, <2>3, <3>1, Zenon
    <2>9. HexValue(t) = ValueOf(f, 16)
      BY Zenon DEF HexValue, HexFigures, f
    <2>10. QED
      BY <2>7, <2>8, <2>9, Zenon
  <1>13. QED
    BY <1>11, <1>12, Zenon DEF out, n

(* What is printed of a single piece is what the piece means. *)
LEMMA OnePiece ==
  ASSUME NEW pieces, GoodFormat(pieces), Len(pieces) = 1
  PROVE  GoodPiece(pieces[1]) /\ Together(Meaning, pieces) = Meaning(pieces[1])
  <1> DEFINE M == [i \in 1 .. 1 |-> Meaning(pieces[i])]
  <1>1. DOMAIN pieces = 1 .. 1 /\ GoodPiece(pieces[1])
    BY DEF GoodFormat
  <1>2. Together(Meaning, pieces) = FlattenSeq(M)
    BY <1>1 DEF Together
  <1>3. M = [i \in 1 .. 1 |-> M[i]] /\ M[1] = Meaning(pieces[1])
    OBVIOUS
  <1> HIDE DEF M
  <1>4. PICK R : Meaning(pieces[1]) \in Seq(R)
    BY <1>1, MeaningTyped
  <1>5. M \in [1 .. 1 -> Seq(R)]
    BY <1>3, <1>4
  <1>6. PICK P : BuiltUp(P, M, 1) /\ FlattenSeq(M) = P[1]
    BY <1>5, Flattened
  <1>7. P[0] = <<>> /\ P[1] = P[0] \o M[1]
    <2>1. 1 \in 1 .. 1 /\ 1 - 1 = 0
      OBVIOUS
    <2>2. P[0] = <<>> /\ \A j \in 1 .. 1 : P[j] = P[j - 1] \o M[j]
      BY <1>6, Zenon DEF BuiltUp
    <2>3. P[1] = P[1 - 1] \o M[1]
      BY <2>1, <2>2, Zenon
    <2>4. QED
      BY <2>1, <2>2, <2>3, Zenon
  <1>8. <<>> \o Meaning(pieces[1]) = Meaning(pieces[1])
    BY <1>4, ConcatEmptySeq
  <1>9. QED
    BY <1>1, <1>2, <1>3, <1>6, <1>7, <1>8, Zenon

PiecesInv == call.op = "printf" => GoodFormat(call.pieces)

LEMMA StepPieces ==
  ASSUME PiecesInv, [PrintNext]_vars
  PROVE  PiecesInv'
  <1>1. CASE PrintNext
    <2> SUFFICES ASSUME call'.op = "printf" PROVE GoodFormat(call'.pieces)
      BY DEF PiecesInv, GoodFormat, GoodPiece
    <2>1. PICK pieces : CallPrintf(pieces) /\ GoodFormat(pieces)
      BY <1>1, PiecesAreGood
    <2>2. call'.pieces = pieces
      BY <2>1 DEF CallPrintf
    <2>3. QED
      BY <2>1, <2>2, Zenon
  <1>2. CASE UNCHANGED vars
    <2>1. call' = call
      BY <1>2 DEF vars
    <2>2. QED
      BY <2>1 DEF PiecesInv, GoodFormat, GoodPiece
  <1>3. QED
    BY <1>1, <1>2

LEMMA FilledReadBack ==
  ASSUME FormatsAreFilled, PiecesInv
  PROVE  NumbersReadBack
  <1> SUFFICES ASSUME call.op = "printf", Len(call.pieces) = 1
      PROVE  LET piece == call.pieces[1]
             IN  /\ piece.spec = Ch.d =>
                      IF piece.arg = Least
                      THEN call.out = <<Ch.minus, 40>>
                      ELSE /\ atol(call.out) = piece.arg
                           /\ atol(<<Ch.space, Ch.space>> \o call.out) = piece.arg
                           /\ Len(call.out) = 1 \/ call.out[1] # Ch.zero
                 /\ piece.spec = Ch.p =>
                      /\ Len(call.out) = 2 + NIBBLES
                      /\ HexValue(SubSeq(call.out, 3, Len(call.out))) = piece.arg
    BY Zenon DEF NumbersReadBack
  <1> DEFINE piece == call.pieces[1]
             out == call.out
  <1>1. GoodPiece(piece) /\ out = Meaning(piece)
    <2>1. GoodFormat(call.pieces) /\ out = Together(Meaning, call.pieces)
      BY Zenon DEF PiecesInv, FormatsAreFilled
    <2>2. QED
      BY <2>1, OnePiece, Zenon
  <1>2. /\ piece.spec = Ch.d => piece.arg \in IntRange
        /\ piece.spec = Ch.p => piece.arg \in Pointers
    BY <1>1, Zenon DEF GoodPiece
  <1>3. /\ piece.spec = Ch.d => out = print_d(piece.arg)
        /\ piece.spec = Ch.p => out = print_p(piece.arg)
    <2> HIDE DEF piece, out
    <2>1. piece.spec # Literal => out = Converted(piece.spec, piece.arg)
      BY <1>1, Zenon DEF Meaning
    <2>2. piece.spec \in {Ch.d, Ch.p} => piece.spec # Literal
      BY SpecsDiffer
    <2>3. QED
      BY <2>1, <2>2, ConvertedIs
  <1> HIDE DEF piece, out
  <1>4. piece.spec = Ch.d =>
          IF piece.arg = Least
          THEN out = <<Ch.minus, 40>>
          ELSE /\ atol(out) = piece.arg
               /\ atol(<<Ch.space, Ch.space>> \o out) = piece.arg
               /\ Len(out) = 1 \/ out[1] # Ch.zero
    BY <1>2, <1>3, IntsReadBack, Zenon
  <1>5. piece.spec = Ch.p =>
          Len(out) = 2 + NIBBLES /\ HexValue(SubSeq(out, 3, Len(out))) = piece.arg
    BY <1>2, <1>3, PointersReadBack, Zenon
  <1>6. QED
    BY <1>4, <1>5, Zenon DEF piece, out

(* What %d prints atol reads back, but for the least int, which -num       *)
(* leaves as it is and which prints as "-("; what %p prints are all the    *)
(* digits of the pointer, zeros in front.                                  *)
THEOREM NumbersRead == PrintSpec => []NumbersReadBack
  <1>1. Init => FormatsAreFilled /\ PiecesInv
    BY DEF Init, NoCall, FormatsAreFilled, PiecesInv
  <1>2. FormatsAreFilled /\ PiecesInv /\ [PrintNext]_vars => FormatsAreFilled' /\ PiecesInv'
    BY StepFills, StepPieces
  <1>3. QED
    BY <1>1, <1>2, FilledReadBack, PTL DEF PrintSpec
=============================================================================
