-------------------------------- MODULE KPrint --------------------------------
(***************************************************************************)
(* The kernel's printf (os/src/kernel_print.cpp) next to the functions of  *)
(* KString, and atol, which reads what %d prints.  Characters are their    *)
(* codes; a format is put together from pieces, so that none ends in the   *)
(* middle of a conversion and each has its argument.                       *)
(***************************************************************************)
EXTENDS KString, SequencesExt

CONSTANTS
  INT,       \* ints, 2^32 in the code
  NIBBLES,   \* hexadecimal digits of a pointer, 16 in the code
  Pieces,    \* pieces formats are made of: [spec, arg]
  MaxPieces  \* bound on the pieces of a format

(* The least int ends in an 8, as that of the code, -2147483648, does. *)
ASSUME PrintAssumption ==
  {INT, NIBBLES, MaxPieces} \subseteq Nat \ {0} /\ INT % 2 = 0 /\ (INT \div 2) % 10 = 8

Ch == [space |-> 32, percent |-> 37, plus |-> 43, minus |-> 45, zero |-> 48,
       c |-> 99, d |-> 100, p |-> 112, s |-> 115, x |-> 120]

Literal   == 0    \* the spec of a piece that is its argument, one character
Least     == -(INT \div 2)
IntRange  == Least .. -Least - 1
AsInt(n)  == ((n - Least) % INT) + Least

(* What the digits of a pointer can tell apart. *)
Pointers ==
  LET count[k \in 0 .. NIBBLES] == IF k = 0 THEN 1 ELSE 16 * count[k - 1]
  IN  0 .. count[NIBBLES] - 1

(* A % begins a conversion, so it is no literal; %s takes a string, %d an  *)
(* int and %p a pointer.                                                   *)
ASSUME PieceAssumption ==
  \A piece \in Pieces :
    /\ piece.spec = Literal => piece.arg # Ch.percent
    /\ piece.spec = Ch.s => piece.arg \in Seq(Nat)
    /\ piece.spec = Ch.d => piece.arg \in IntRange
    /\ piece.spec = Ch.p => piece.arg \in Pointers

-----------------------------------------------------------------------------
(* C's / and % round towards zero. *)
Quot(n) == IF n >= 0 THEN n \div 10 ELSE -((-n) \div 10)
Rem(n)  == n - 10 * Quot(n)

(* Mutant: the digits are left in the order they were found. *)
print_d_Reversed(num) ==
  LET digits[n \in IntRange] ==
        <<Ch.zero + Rem(n)>> \o IF Quot(n) > 0 THEN digits[Quot(n)] ELSE <<>>
  IN  IF num < 0 THEN <<Ch.minus>> \o digits[AsInt(-num)] ELSE digits[num]

(* case 'd': -num wraps to itself for the least int, of which the loop     *)
(* then makes one "digit".                                                 *)
print_d(num) ==
  LET digits[n \in IntRange] ==
        (IF Quot(n) > 0 THEN digits[Quot(n)] ELSE <<>>) \o <<Ch.zero + Rem(n)>>
  IN  IF num < 0 THEN <<Ch.minus>> \o digits[AsInt(-num)] ELSE digits[num]

HexDigit(k) == IF k < 10 THEN Ch.zero + k ELSE 97 + k - 10

(* (ptr >> 4 * k) & 0xF, for k from NIBBLES - 1 down to 0. *)
print_p(ptr) ==
  LET shifted[k \in 0 .. NIBBLES] == IF k = 0 THEN ptr ELSE shifted[k - 1] \div 16
  IN  <<Ch.zero, Ch.x>> \o [i \in 1 .. NIBBLES |-> HexDigit(shifted[NIBBLES - i] % 16)]

TakesArgument(spec) == spec \in {Ch.c, Ch.s, Ch.d, Ch.p}

Converted(spec, arg) ==
  CASE spec = Ch.c       -> <<arg % BYTE>>
    [] spec = Ch.s       -> arg
    [] spec = Ch.d       -> print_d(arg)
    [] spec = Ch.p       -> print_p(arg)
    [] spec = Ch.percent -> <<Ch.percent>>
    [] OTHER             -> <<Ch.percent, spec>>

(* Mutant: every conversion takes an argument. *)
ArgumentsTaken_Always(spec) == 1

ArgumentsTaken(spec) == IF TakesArgument(spec) THEN 1 ELSE 0

(* The walk along the format, the k-th argument next. *)
printf(format, args) ==
  LET walk[i \in 1 .. Len(format) + 2] ==
        [k \in Nat |->
           IF i > Len(format) THEN <<>>
           ELSE IF format[i] # Ch.percent THEN <<format[i]>> \o walk[i + 1][k]
           ELSE LET spec == format[i + 1]
                    arg  == IF k \in DOMAIN args THEN args[k] ELSE 0
                IN  Converted(spec, arg) \o walk[i + 2][k + ArgumentsTaken(spec)]]
  IN  walk[1][1]

(* What digits are worth. *)
ValueOf(digits, radix) ==
  LET res[i \in 0 .. Len(digits)] == IF i = 0 THEN 0 ELSE radix * res[i - 1] + digits[i]
  IN  res[Len(digits)]

(* Spaces, a sign, and whatever comes then as digits. *)
atol(str) ==
  LET start == SelectInSeq(str, LAMBDA c : c # Ch.space)
      rest  == IF start = 0 THEN <<>> ELSE SubSeq(str, start, Len(str))
      signed == rest # <<>> /\ Head(rest) \in {Ch.minus, Ch.plus}
      figures == IF signed THEN Tail(rest) ELSE rest
      value == ValueOf([i \in DOMAIN figures |-> figures[i] - Ch.zero], 10)
  IN  IF signed /\ Head(rest) = Ch.minus THEN -value ELSE value

-----------------------------------------------------------------------------
FormatOf(piece) == IF piece.spec = Literal THEN <<piece.arg>> ELSE <<Ch.percent, piece.spec>>
ArgsOf(piece)   == IF TakesArgument(piece.spec) THEN <<piece.arg>> ELSE <<>>

Together(Of(_), pieces) == FlattenSeq([i \in DOMAIN pieces |-> Of(pieces[i])])

CallPrintf(pieces) ==
  /\ call' = [op |-> "printf", pieces |-> pieces,
              out |-> printf(Together(FormatOf, pieces), Together(ArgsOf, pieces))]
  /\ UNCHANGED <<mem, before>>

(* printf leaves memory alone, and one memory stands for all. *)
PrintNext ==
  \/ Next
  \/ /\ call = NoCall
     /\ mem = [a \in Addrs |-> 0]
     /\ \/ \E pieces \in BoundedSeq(Pieces, MaxPieces) : CallPrintf(pieces)
        \/ \E n \in IntRange : CallPrintf(<<[spec |-> Ch.d, arg |-> n]>>)
        \/ \E n \in Pointers : CallPrintf(<<[spec |-> Ch.p, arg |-> n]>>)

PrintSpec == Init /\ [][PrintNext]_vars

-----------------------------------------------------------------------------
(* What a piece means, wherever it stands. *)
Meaning(piece) ==
  IF piece.spec = Literal THEN <<piece.arg>> ELSE Converted(piece.spec, piece.arg)

(* Every piece of a format prints as if it stood alone, with its own       *)
(* argument: percent signs in arguments are not conversions, and unknown   *)
(* conversions and %% take no argument from those that follow.             *)
FormatsAreFilled ==
  call.op = "printf" => call.out = Together(Meaning, call.pieces)

HexValue(s) ==
  ValueOf([i \in DOMAIN s |-> IF s[i] < 97 THEN s[i] - Ch.zero ELSE s[i] - 97 + 10], 16)

(* The number %d prints is the number, as atol reads it, also behind       *)
(* spaces; but the least int prints as "-(", which is none.  A pointer     *)
(* prints in full width, as the address it is.                             *)
NumbersReadBack ==
  call.op = "printf" /\ Len(call.pieces) = 1 =>
    LET piece == call.pieces[1]
    IN  /\ piece.spec = Ch.d =>
             IF piece.arg = Least
             THEN call.out = <<Ch.minus, 40>>
             ELSE /\ atol(call.out) = piece.arg
                  /\ atol(<<Ch.space, Ch.space>> \o call.out) = piece.arg
                  /\ Len(call.out) = 1 \/ call.out[1] # Ch.zero
        /\ piece.spec = Ch.p =>
             /\ Len(call.out) = 2 + NIBBLES
             /\ HexValue(SubSeq(call.out, 3, Len(call.out))) = piece.arg
=============================================================================
