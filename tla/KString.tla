------------------------------- MODULE KString -------------------------------
(***************************************************************************)
(* The kernel's memory and string functions (os/src/string.cpp) on a small *)
(* memory.  A behaviour is one call on a memory of any contents, with      *)
(* arguments that keep the contracts of the C library.                     *)
(***************************************************************************)
EXTENDS Integers, Sequences, FiniteSetsExt

CONSTANTS
  SIZE,    \* bytes of memory
  WORD,    \* sizeof(uintptr_t), 8 in the code
  BYTE,    \* 256 in the code
  Bytes,   \* the contents considered
  Ints     \* ints passed as a byte or as a size

ASSUME MemoryAssumption ==
  /\ {SIZE, WORD, BYTE} \subseteq Nat \ {0}
  /\ WORD <= 8   \* what memset's three shifts can fill
  /\ Bytes \subseteq 0 .. BYTE - 1
  /\ Ints \subseteq Int

VARIABLES
  mem,      \* memory
  before,   \* memory as the call found it
  call      \* the call made: [op, d, s, n, ret]

vars == <<mem, before, call>>

Addrs  == 0 .. SIZE - 1
NoCall == [op |-> "none"]

-----------------------------------------------------------------------------
(* k bytes, the first one first. *)
Forward(m, d, s, k) ==
  LET f[i \in 0 .. k] ==
        IF i = 0 THEN m ELSE [f[i - 1] EXCEPT ![d + i - 1] = f[i - 1][s + i - 1]]
  IN  f[k]

(* k bytes, the last one first. *)
Backward(m, d, s, k) ==
  LET f[i \in 0 .. k] ==
        IF i = 0 THEN m ELSE [f[i - 1] EXCEPT ![d + k - i] = f[i - 1][s + k - i]]
  IN  f[k]

Aligned(a) == a % WORD = 0

(* Whole words first when both addresses are aligned, then the rest byte   *)
(* by byte.  Aligned words do not overlap: a word is copied like its bytes.*)
memcpy(m, dest, src, len) ==
  LET w == IF Aligned(dest) /\ Aligned(src) THEN WORD * (len \div WORD) ELSE 0
  IN  Forward(Forward(m, dest, src, w), dest + w, src + w, len - w)

(* n stores, one behind the other, of so many bytes each: those of unit. *)
Store(m, d, unit, size, n) ==
  LET f[i \in 0 .. n] ==
        IF i = 0 THEN m
        ELSE LET at == d + size * (i - 1)
             IN  [a \in Addrs |-> IF a - at \in 0 .. size - 1 THEN unit[a - at] ELSE f[i - 1][a]]
  IN  f[n]

(* word |= word << 8 * k, on the bytes of a word, the lowest first.  Each  *)
(* is zero or one and the same byte.                                       *)
OrShifted(word, k) ==
  [i \in 0 .. WORD - 1 |-> IF i >= k /\ word[i - k] # 0 THEN word[i - k] ELSE word[i]]

(* byte & 0xFF, and then in two, in four and in eight bytes of the word. *)
Replicated(byte) ==
  LET low == [i \in 0 .. WORD - 1 |-> IF i = 0 THEN byte % BYTE ELSE 0]
  IN  OrShifted(OrShifted(OrShifted(low, 1), 2), 4)

(* Words when the address and the length are aligned; or the int is stored *)
(* to char by char.                                                        *)
memset(m, dest, byte, len) ==
  IF Aligned(dest) /\ Aligned(len)
  THEN Store(m, dest, Replicated(byte), WORD, (len + WORD - 1) \div WORD)
  ELSE Store(m, dest, [i \in {0} |-> byte % BYTE], 1, len)

(* Mutant: only a source that starts behind the destination is noticed. *)
memmove_Swapped(m, dst, src, n) ==
  IF src < dst /\ src + n > dst THEN Forward(m, dst, src, n) ELSE Backward(m, dst, src, n)

memmove(m, dst, src, n) ==
  IF src < dst /\ src + n > dst THEN Backward(m, dst, src, n) ELSE Forward(m, dst, src, n)

(* A string ends in memory, so the walk along one does; along other bytes  *)
(* it is cut off at the end of memory.                                     *)
strlen(m, s) ==
  LET p[a \in 0 .. SIZE] == IF a \in Addrs /\ m[a] # 0 THEN p[a + 1] ELSE a IN p[s] - s

(* Mutant: the loop does not stop at the end of equal strings. *)
strcmp_NoEnd(m, s1, s2) ==
  LET f[i \in 0 .. SIZE] ==
        IF s1 + i \in Addrs /\ s2 + i \in Addrs
        THEN IF m[s1 + i] = m[s2 + i] THEN f[i + 1] ELSE m[s1 + i] - m[s2 + i]
        ELSE 0
  IN  f[0]

(* Bytes compare as unsigned char. *)
strcmp(m, s1, s2) ==
  LET f[i \in 0 .. SIZE] ==
        IF i < SIZE /\ m[s1 + i] # 0 /\ m[s1 + i] = m[s2 + i]
        THEN f[i + 1] ELSE m[s1 + i] - m[s2 + i]
  IN  f[0]

NULL == -1   \* no address

(* The character is looked for before the end is; ch is stored to a char.  *)
strchr(m, p, ch) ==
  LET f[a \in 0 .. SIZE] ==
        IF a \in Addrs /\ m[a] = ch % BYTE THEN a
        ELSE IF a \in Addrs /\ m[a] # 0 THEN f[a + 1] ELSE NULL
  IN  f[p]

strcpy(m, dest, src) == Forward(m, dest, src, strlen(m, src) + 1)

strcat(m, dst, src) == strcpy(m, dst + strlen(m, dst), src)

(* Mutant: the size is compared before it is decremented. *)
safestrcpy_OneOver(m, s, t, n) ==
  LET ends == { j \in 1 .. n : m[t + j - 1] = 0 }
      k    == IF ends = {} THEN n ELSE Min(ends)
  IN  IF n <= 0 THEN m ELSE [a \in Addrs |-> IF a = s + k THEN 0 ELSE Forward(m, s, t, k)[a]]

(* n - 1 bytes or as many as it takes to copy a terminator, and one more   *)
(* byte is cleared behind them.                                            *)
safestrcpy(m, s, t, n) ==
  LET ends == { j \in 1 .. n - 1 : m[t + j - 1] = 0 }
      k    == IF ends = {} THEN n - 1 ELSE Min(ends)
  IN  IF n <= 0 THEN m ELSE [Forward(m, s, t, k) EXCEPT ![s + k] = 0]

-----------------------------------------------------------------------------
Span(a, k) == a .. a + k - 1

(* d and s are blocks of j and k bytes in memory, with none in common. *)
Apart(d, j, s, k) ==
  Span(d, j) \cup Span(s, k) \subseteq Addrs /\ Span(d, j) \cap Span(s, k) = {}

IsString(m, a) == \E e \in a .. SIZE - 1 : m[e] = 0

Init ==
  /\ mem \in [Addrs -> Bytes]
  /\ before = mem
  /\ call = NoCall

Call(op, d, s, n, m, ret) ==
  /\ mem' = m
  /\ call' = [op |-> op, d |-> d, s |-> s, n |-> n, ret |-> ret]
  /\ UNCHANGED before

CopyBlock(d, s, n) ==
  \/ /\ Apart(d, n, s, n)
     /\ Call("memcpy", d, s, n, memcpy(mem, d, s, n), d)
  \/ /\ Span(d, n) \cup Span(s, n) \subseteq Addrs
     /\ Call("memmove", d, s, n, memmove(mem, d, s, n), d)

FillBlock(d, b, n) ==
  /\ Span(d, n) \subseteq Addrs
  /\ Call("memset", d, b, n, memset(mem, d, b, n), d)

CopyString(d, s) ==
  /\ IsString(mem, s)
  /\ LET k == strlen(mem, s) + 1
     IN  \/ /\ Apart(d, k, s, k)
            /\ Call("strcpy", d, s, 0, strcpy(mem, d, s), d)
         \/ /\ IsString(mem, d) /\ Apart(d, strlen(mem, d) + k, s, k)
            /\ Call("strcat", d, s, 0, strcat(mem, d, s), d)

CopyBounded(d, s, n) ==
  /\ Apart(d, n, s, n)
  /\ Call("safestrcpy", d, s, n, safestrcpy(mem, d, s, n), d)

Compare(s, t) ==
  /\ IsString(mem, s) /\ IsString(mem, t)
  /\ Call("strcmp", s, t, 0, mem, strcmp(mem, s, t))

FindChar(s, ch) ==
  /\ IsString(mem, s)
  /\ Call("strchr", s, ch, 0, mem, strchr(mem, s, ch))

Next ==
  /\ call = NoCall
  /\ \E d \in Addrs :
       \/ \E s \in Addrs :
            \/ \E n \in 0 .. SIZE : CopyBlock(d, s, n)
            \/ \E n \in Ints : CopyBounded(d, s, n)
            \/ CopyString(d, s) \/ Compare(d, s)
       \/ \E b \in Ints, n \in 0 .. SIZE : FillBlock(d, b, n)
       \/ \E ch \in Ints : FindChar(d, ch)

Spec == Init /\ [][Next]_vars

-----------------------------------------------------------------------------
(* What is at an address, as a sequence. *)
Block(m, a, k)  == [i \in 1 .. k |-> m[a + i - 1]]
StringAt(m, a)  == Block(m, a, Min({ e \in a .. SIZE - 1 : m[e] = 0 }) - a)

ChangedWithin(a, k) == \A b \in Addrs \ Span(a, k) : mem[b] = before[b]

(* memcpy, by words and by bytes, memmove, in either direction, and memset *)
(* leave in the block what was in the source, or the low byte, and leave   *)
(* the rest of memory alone.                                               *)
BlocksAreWritten ==
  call.op \in {"memcpy", "memmove", "memset"} =>
    /\ ChangedWithin(call.d, call.n)
    /\ Block(mem, call.d, call.n) =
         IF call.op = "memset" THEN [i \in 1 .. call.n |-> call.s % BYTE]
                               ELSE Block(before, call.s, call.n)

(* strcpy and strcat make the string they should and touch nothing else.   *)
(* safestrcpy is "guaranteed to NUL-terminate" (string.cpp:139): it makes  *)
(* as much of the string as fits, ended, and stays within its n bytes.     *)
StringsAreBuilt ==
  /\ call.op \in {"strcpy", "strcat"} =>
       LET head == IF call.op = "strcat" THEN StringAt(before, call.d) ELSE <<>>
           made == head \o StringAt(before, call.s)
       IN  /\ ChangedWithin(call.d, Len(made) + 1)
           /\ Block(mem, call.d, Len(made) + 1) = Append(made, 0)
  /\ call.op = "safestrcpy" =>
       LET source == Block(before, call.s, call.n - 1)
           ends   == { i \in DOMAIN source : source[i] = 0 }
           made   == IF ends = {} THEN source ELSE SubSeq(source, 1, Min(ends) - 1)
       IN  /\ ChangedWithin(call.d, call.n)
           /\ call.n > 0 => Block(mem, call.d, Len(made) + 1) = Append(made, 0)

(* strcmp orders strings as a dictionary does, bytes unsigned and a prefix *)
(* first; strchr finds the first such byte, or the terminator when the low *)
(* byte asked for is zero; neither sees what lies behind the ends.         *)
StringsAreRead ==
  /\ call.op = "strcmp" =>
       LET s == Append(StringAt(before, call.d), 0)
           t == Append(StringAt(before, call.s), 0)
           differ == { i \in DOMAIN s \cap DOMAIN t : s[i] # t[i] }
       IN  /\ (call.ret = 0) = (s = t)
           /\ s # t => (call.ret < 0) = (s[Min(differ)] < t[Min(differ)])
  /\ call.op = "strchr" =>
       LET s == Append(StringAt(before, call.d), 0)
           found == { i \in DOMAIN s : s[i] = call.s % BYTE }
       IN  call.ret = IF found = {} THEN NULL ELSE call.d + Min(found) - 1
=============================================================================
